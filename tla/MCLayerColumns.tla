--------------------------- MODULE MCLayerColumns ---------------------------
(* Three features of every shape with values here and there, and longer      *)
(* layers of points whose masks make every coding the shortest once.         *)
EXTENDS LayerColumns

NoValue == <<>>
Feature(type, parts, id, num, flag, tag) ==
  [type |-> type, parts |-> parts, values |-> [id |-> id, num |-> num, flag |-> flag, tag |-> tag]]

\* Both ends of the range of a word are there, so that a delta wraps.
Low == -(2^(WordBits - 1))
High == 2^(WordBits - 1) - 1

\* The shapes that give a layer its levels: without one, with a line level, with rings,
\* with parts, and empty ones that take up a place in a level.
Levels == {
  Feature(Point, <<<<1>>>>, <<3>>, <<Low>>, <<TRUE>>, <<1>>),
  Feature(LineString, <<<<2>>>>, <<>>, <<High>>, <<>>, <<2^WordBits - 1>>),
  Feature(Polygon, <<<<4, 3>>>>, <<3>>, <<>>, <<FALSE>>, <<>>),
  Feature(MultiPoint, <<>>, <<7>>, <<>>, <<>>, <<>>),
  Feature(MultiLineString, <<<<2>>, <<3>>>>, <<2>>, <<Low>>, <<>>, <<>>),
  Feature(MultiPolygon, <<<<6>>, <<3, 3>>>>, <<2>>, <<0>>, <<FALSE>>, <<5>>)}

Shapes == Levels \cup {
  Feature(Polygon, <<<<0>>>>, <<>>, <<>>, <<>>, <<>>),
  Feature(Polygon, <<<<3, 2, 3>>>>, <<0>>, <<1>>, <<TRUE>>, <<1>>),
  Feature(MultiPoint, <<<<1>>, <<1>>>>, <<>>, <<High>>, <<TRUE>>, <<>>),
  Feature(MultiLineString, <<>>, <<>>, <<>>, <<TRUE>>, <<0>>),
  Feature(MultiPolygon, <<>>, <<>>, <<Low>>, <<>>, <<>>)}

\* One shape or two of any kind, or three that differ in the levels they need.
UpToTwo == UNION {[1..k -> Shapes] : k \in 1..2}
Triples == {l \in [1..3 -> Levels] : IsInjective(l)}

\* A point that has values in all columns, in the last two, or in none.
Full(v) == Feature(Point, <<<<1>>>>, <<v>>, <<Low + v>>, <<v = 1>>, <<v>>)
Half2(v) == Feature(Point, <<<<1>>>>, <<>>, <<>>, <<v = 1>>, <<2>>)
Bare == Feature(Point, <<<<1>>>>, <<>>, <<>>, <<>>, <<>>)
Dots(has, v) == [i \in 1..10 |-> IF i \in has THEN Full(v) ELSE IF i = 2 THEN Half2(v) ELSE Bare]

MCLayers ==
  UpToTwo \cup Triples
  \cup UNION {Prefixes(Dots(has, v)) : has \in {{1}, {10}, {4, 6}, {3, 4}, 5..10, 1..10}, v \in 0..1}

MCColumns == <<"id", "num", "flag", "tag">>
MCTypeOf == [id |-> "U32", num |-> "I32", flag |-> "Bool", tag |-> "U32"]

How(format, outlines, forced, encoding) ==
  [format |-> format, outlines |-> outlines, forced |-> forced, encoding |-> encoding]
MCOptions == {
  How("v1", "Keep", FALSE, "Raw"), How("v1", "Keep", TRUE, "None"),
  How("v1", "Keep", FALSE, "Delta"), How("v1", "Keep", FALSE, "Rle"), How("v1", "Keep", FALSE, "DeltaRle"),
  How("v2", "Keep", FALSE, "Raw"), How("v2", "DropForPolygons", FALSE, "None"),
  How("v2", "Keep", FALSE, "Delta"), How("v2", "Keep", FALSE, "Delta2"),
  How("v2", "DropForPolygons", FALSE, "Rle"), How("v2", "Keep", FALSE, "DeltaRle")}
=============================================================================
