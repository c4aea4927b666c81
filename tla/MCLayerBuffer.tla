--------------------------- MODULE MCLayerBuffer ---------------------------
(* Instances of LayerBuffer for TLC.                                        *)
EXTENDS LayerBuffer

CONSTANTS yes, one, half, name1, name2

\* No call tells one name from another.
Renaming == Permutations({name1, name2})

MCRaws == {[kind |-> "Bool", value |-> yes], [kind |-> "I64", value |-> one],
           [kind |-> "F32", value |-> half],
           [kind |-> "Str", value |-> <<"t">>]}

MoveTo(x, y) == [op |-> "MoveTo", count |-> 1, deltas |-> <<<<x, y>>>>]
LineTo(deltas) == [op |-> "LineTo", count |-> Len(deltas), deltas |-> deltas]
ClosePath == [op |-> "ClosePath", count |-> 1, deltas |-> <<>>]

Input(type, commands) == [type |-> type, commands |-> commands]

\* A triangle of positive area, one of negative area, from the cursor on.
Right == LineTo(<<<<1, 0>>, <<0, 1>>>>)
Left == LineTo(<<<<0, 1>>, <<1, 0>>>>)

\* A square from one corner to the other of what an i32 holds.  Its area is positive,
\* and negative in an i64.
Square == <<MoveTo(-3 * Far, -3 * Far),
            LineTo(<<<<3 * Far, 0>>, <<0, 3 * Far>>, <<-3 * Far, 0>>>>), ClosePath>>

\* One point, two; two lines, the cursor of the first stopped at Far; two polygons,
\* the first one wound the other way and with a hole; a triangle and the square.
Wellformed ==
    {Input("Point", <<MoveTo(1, 2)>>),
     Input("Point", <<[op |-> "MoveTo", count |-> 2, deltas |-> <<<<1, 0>>, <<1, 1>>>>]>>),
     Input("LineString", <<MoveTo(0, 0), LineTo(<<<<Far + 2, 1>>>>), MoveTo(-1, 0),
                           LineTo(<<<<0, 1>>>>)>>),
     Input("Polygon", <<MoveTo(0, 0), Left, ClosePath, MoveTo(1, 0), Left, ClosePath,
                        MoveTo(0, 1), Right, ClosePath>>),
     Input("Polygon", <<MoveTo(0, 0), Right, ClosePath>> \o Square)}

\* Nothing; a line cut inside a command after a line that was read; a LineTo first.
Malformed ==
    {Input("Point", <<>>),
     Input("LineString", <<MoveTo(0, 0), LineTo(<<<<1, 1>>>>), MoveTo(0, 1),
                           [op |-> "LineTo", count |-> 2, deltas |-> <<<<1, 0>>>>]>>),
     Input("Polygon", <<LineTo(<<<<1, 1>>>>)>>)}

MCInputs == Wellformed \cup Malformed

\* What the writer is given: the values of a kind, the paths of the inputs.
MCValuesOf == [kind \in PropKinds |->
                 {v \in {Cast(kind, raw) : raw \in MCRaws} : v.kind = kind}]
MCCoordLists == UNION {Lists(input) : input \in MCInputs}
=============================================================================
