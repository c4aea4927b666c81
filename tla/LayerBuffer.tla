---------------------------- MODULE LayerBuffer ----------------------------
(***************************************************************************)
(* The layer builder of the foreign interface (rust/mlt-ffi/src/store.rs)  *)
(* and its replay into the layer writer of the core (LayerWriter).         *)
(*                                                                         *)
(* A caller declares properties, begins features with MVT commands and     *)
(* sets values; the builder stores them in flat lists that features refer  *)
(* to by range, and infers the kind of each column.  encode makes the      *)
(* calls that build the same layer with a LayerWriter, one step each: the  *)
(* writer must accept every one of them.  The writer's variables and       *)
(* actions are those of LayerWriter, and nothing else calls it.            *)
(*                                                                         *)
(* A range is the index before its first item and the index of its last.   *)
(* A text is a sequence of letters, the other values are model values.     *)
(***************************************************************************)
EXTENDS LayerWriter, Integers, SequencesExt

CONSTANTS Inputs,      \* MVT features: [type, commands], each command an op, a
                       \* count and the coordinate deltas that follow it,
                       \* fewer than the count when the input is cut short
          Raws,        \* values a caller sets: [kind, value]
          Far,         \* i32::MAX, where the cursor saturates
          MaxSets, MaxText   \* bounds of the instance

PropKinds == {"Bool", "I64", "F32", "F64", "Str"}

Command == [op : STRING, count : Nat, deltas : Seq(Int \X Int)]

ASSUME BufferAssumption ==
    /\ Far \in Nat /\ MaxSets \in Nat /\ MaxText \in Nat
    /\ Inputs \subseteq [type : {"Point", "LineString", "Polygon"}, commands : Seq(Command)]
    /\ NoValue \notin Raws
    /\ \A raw \in Raws : /\ raw = [kind |-> raw.kind, value |-> raw.value]
                         /\ raw.kind \in PropKinds
                         /\ raw.kind = "Str" => raw.value \in Seq({raw.value[i] : i \in DOMAIN raw.value})

VARIABLES names, kinds,              \* prop_names with prop_keys, prop_kinds
          features, parts, points,   \* points is `coords` in the code
          values,                    \* `props` in the code: [key, value]
          strings,                   \* the texts, one after another
          given,                     \* what the caller was promised (ghost)
          encoding,                  \* encode is running, and makes the call
          at                         \* at[2] of feature at[1], 0 for the columns'

buffer == <<names, kinds, features, parts, points, values, strings, given>>
bufferVars == <<buffer, encoding, at, vars>>

-----------------------------------------------------------------------------
(* Kinds of values and columns.                                             *)

Numbers == {"I64", "F32", "F64"}

\* InferredKind::merge, over the kinds a StoredValue can have.
Merge(a, b) ==
    CASE a \in {"Unknown", b} -> b
      [] a # b /\ {a, b} \subseteq Numbers -> "F64"
      [] OTHER -> "Str"

\* InferredKind::prop_kind.
PropKind(kind) == IF kind = "Unknown" THEN "Str" ELSE kind

Text(letters) == [kind |-> "Str", from |-> "Str", value |-> letters]

\* A raw value as encode passes it on: kept, widened to F64, or as its text when it
\* or the column is one of texts.  Any other pair of kinds has no text, and the empty
\* text that stands for it is no value of the column.
Cast(kind, raw) ==
    CASE kind = raw.kind \/ (kind = "F64" /\ raw.kind \in Numbers) ->
            [kind |-> kind, from |-> raw.kind, value |-> raw.value]
      [] kind # raw.kind /\ "Str" \in {kind, raw.kind} ->
            [kind |-> "Str", from |-> raw.kind, value |-> raw.value]
      [] OTHER -> Text(<<>>)

\* The writer takes any value of a column's kind.
ASSUME CastsTaken ==
    /\ Kinds = PropKinds
    /\ \A kind \in PropKinds, raw \in Raws :
          Cast(kind, raw).kind = kind => Cast(kind, raw) \in ValuesOf[kind]

-----------------------------------------------------------------------------
(* MVT commands.                                                            *)

Saturated(x) == IF x > Far THEN Far ELSE IF x < -Far - 1 THEN -Far - 1 ELSE x

\* Twice the area of a ring given without its closing coordinate, positive if it winds
\* the way of an exterior.
Area(ring) ==
    FoldLeftDomain(LAMBDA sum, i :
                      LET a == ring[i]
                          b == ring[(i % Len(ring)) + 1]
                      IN sum + a[1] * b[2] - b[1] * a[2],
                   0, ring)

\* 2^63 when Far is 2^31 - 1: an i64 is twice as wide as an i32.
Wide == 2 * (Far + 1) * (Far + 1)

\* signed_area sums in an i64, which wraps in a release build; any other aborts.
SignedArea(ring) == ((Area(ring) + Wide) % (2 * Wide)) - Wide

\* decode_mvt's state: the lists it appends to, where the part being read starts
\* (0 for none), how many parts and exteriors have ended, the cursor.
Decoding == [points |-> points, parts |-> parts, start |-> 0, ended |-> 0,
             exteriors |-> 0, cursor |-> <<0, 0>>, ok |-> TRUE, single |-> FALSE]

Failed(d) == [d EXCEPT !.ok = FALSE]

Moved(place, delta) ==
    <<Saturated(place[1] + delta[1]), Saturated(place[2] + delta[2])>>

\* The places a cursor comes to, one delta after another.
Along(place, deltas) ==
    LET to[n \in 0..Len(deltas)] ==
            IF n = 0 THEN place ELSE Moved(to[n - 1], deltas[n])
    IN [n \in DOMAIN deltas |-> to[n]]

Arrived(place, path) == IF path = <<>> THEN place ELSE path[Len(path)]

\* read_mvt_coords: what is there is read before the end is noticed.
ReadCoords(d, command) ==
    LET path == Along(d.cursor, command.deltas)
        all == [d EXCEPT !.points = @ \o path, !.cursor = Arrived(@, path)]
    IN IF Len(command.deltas) < command.count THEN Failed(all) ELSE all

AddedPart(d, role) ==
    [d EXCEPT !.start = 0, !.ended = @ + 1,
              !.exteriors = @ + IF role = "Exterior" THEN 1 ELSE 0,
              !.parts = Append(@, [role |-> role, coords |-> <<d.start - 1, Len(d.points)>>])]

RingClosed(d) == [d EXCEPT !.points = Append(@, @[d.start])]

Ring(d) == SubSeq(d.points, d.start, Len(d.points))

\* Mutant: a ring is what its winding says, the first one too.
RoleByWinding(d, type) ==
    CASE type = "Point" -> "Points"
      [] type = "LineString" -> "Line"
      [] type = "Polygon" -> IF SignedArea(Ring(d)) > 0 THEN "Exterior" ELSE "Hole"

\* The first ring and every ring of positive area start a polygon.
Role(d, type) ==
    CASE type = "Point" -> "Points"
      [] type = "LineString" -> "Line"
      [] type = "Polygon" ->
            IF d.exteriors = 0 \/ SignedArea(Ring(d)) > 0 THEN "Exterior" ELSE "Hole"

\* Mutant: the coordinate that closes a ring falls outside it.
EndPartOpen(d, type) ==
    IF d.start = 0 THEN d
    ELSE LET added == AddedPart(d, Role(d, type))
         IN IF type = "Polygon" THEN [RingClosed(d) EXCEPT !.parts = added.parts, !.start = 0,
                                         !.ended = added.ended, !.exteriors = added.exteriors]
            ELSE added

\* end_mvt_part.
EndPart(d, type) ==
    IF d.start = 0 THEN d
    ELSE AddedPart(IF type = "Polygon" THEN RingClosed(d) ELSE d, Role(d, type))

Started(d) == IF d.start = 0 THEN [d EXCEPT !.start = Len(d.points) + 1] ELSE d

\* One turn of the loop over the commands.
Step(type, d, command) ==
    CASE ~d.ok -> d
      [] d.ok /\ command.op = "MoveTo" /\ type = "Point" ->
            ReadCoords(Started(d), command)
      [] d.ok /\ command.op = "MoveTo" /\ type # "Point" ->
            IF command.count # 1 THEN Failed(d)
            ELSE ReadCoords(Started(EndPart(d, type)), command)
      [] d.ok /\ command.op = "LineTo" ->
            IF type = "Point" \/ d.start = 0 THEN Failed(d) ELSE ReadCoords(d, command)
      [] d.ok /\ command.op = "ClosePath" ->
            IF type # "Polygon" \/ d.start = 0 \/ command.count # 1 THEN Failed(d) ELSE d
      [] d.ok /\ command.op \notin {"MoveTo", "LineTo", "ClosePath"} -> Failed(d)

\* decode_mvt, with the number of points, lines or polygons the type comes from.
Decoded(input) ==
    LET after[n \in 0..Len(input.commands)] ==
            IF n = 0 THEN Decoding ELSE Step(input.type, after[n - 1], input.commands[n])
        d == after[Len(input.commands)]
        end == IF d.ok THEN EndPart(d, input.type) ELSE d
        count == CASE input.type = "Point" -> Len(end.points) - Len(points)
                   [] input.type = "LineString" -> end.ended
                   [] input.type = "Polygon" -> end.exteriors
    IN [end EXCEPT !.ok = @ /\ count > 0, !.single = (count = 1)]

Multi == [Point |-> "MultiPoint", LineString |-> "MultiLineString",
          Polygon |-> "MultiPolygon"]

GeometryType(type, single) == IF single THEN type ELSE Multi[type]

-----------------------------------------------------------------------------
(* What the caller is promised: the feature an MVT input describes.         *)

\* A MoveTo starts a path, except that the points of an input are one path; a LineTo
\* goes on with it.
Drawn(type, drawing, command) ==
    LET path == Along(drawing.place, command.deltas)
        place == Arrived(drawing.place, path)
        starts == command.op = "MoveTo" /\ (type # "Point" \/ drawing.paths = <<>>)
        joins == command.op \in {"MoveTo", "LineTo"} /\ ~starts /\ drawing.paths # <<>>
    IN CASE starts -> [place |-> place, paths |-> Append(drawing.paths, path)]
         [] joins -> [place |-> place,
                      paths |-> [drawing.paths EXCEPT ![Len(drawing.paths)] = @ \o path]]
         [] OTHER -> drawing

Paths(input) ==
    LET after[n \in 0..Len(input.commands)] ==
            IF n = 0 THEN [place |-> <<0, 0>>, paths |-> <<>>]
            ELSE Drawn(input.type, after[n - 1], input.commands[n])
    IN after[Len(input.commands)].paths

\* A ring with the coordinate that closes it, its first.
Closed(ring) == ring \o SubSeq(ring, 1, 1)

\* The rings of positive area.
Outer(rings) == {n \in DOMAIN rings : Area(rings[n]) > 0}

\* The polygons with the n-th ring: the first ring and every outer one start one, any
\* other joins the last.
Grouped(polygons, rings, outer, n) ==
    IF n = 1 \/ n \in outer THEN Append(polygons, <<Closed(rings[n])>>)
    ELSE [polygons EXCEPT ![Len(polygons)] = Append(@, Closed(rings[n]))]

Polygons(rings, outer) ==
    LET upto[n \in 0..Len(rings)] ==
            IF n = 0 THEN <<>> ELSE Grouped(upto[n - 1], rings, outer, n)
    IN upto[Len(rings)]

\* The geometry of an input whose outer rings are given.
Shape(input, outer) ==
    LET paths == Paths(input)
    IN CASE input.type = "Point" -> IF paths = <<>> THEN <<>> ELSE paths[1]
         [] input.type = "LineString" -> paths
         [] input.type = "Polygon" -> Polygons(paths, outer)

Lists(input) ==
    LET paths == Paths(input)
    IN {IF input.type = "Polygon" THEN Closed(paths[i]) ELSE paths[i] : i \in DOMAIN paths}

\* The writer takes any list of coordinates.
ASSUME ListsTaken == \A input \in Inputs : Lists(input) \subseteq CoordLists

Promised(input, id) ==
    [input |-> input, id |-> id, values |-> [name \in Names |-> NoValue]]

-----------------------------------------------------------------------------
(* The builder.                                                             *)

BufferInit ==
    /\ names = <<>> /\ kinds = <<>>
    /\ features = <<>> /\ parts = <<>> /\ points = <<>>
    /\ values = <<>> /\ strings = <<>> /\ given = <<>>
    /\ encoding = FALSE /\ at = <<0, 1>>
    /\ Init

Building == ~encoding /\ UNCHANGED <<encoding, at, vars>>

\* reset, with a name and an extent that are accepted.
BufferReset ==
    /\ Building
    /\ names' = <<>> /\ kinds' = <<>>
    /\ features' = <<>> /\ parts' = <<>> /\ points' = <<>>
    /\ values' = <<>> /\ strings' = <<>> /\ given' = <<>>

\* A name declared again keeps its key.
BufferAddProperty(name) ==
    /\ Building
    /\ \A key \in DOMAIN names : names[key] # name
    /\ names' = Append(names, name)
    /\ kinds' = Append(kinds, "Unknown")
    /\ UNCHANGED <<features, parts, points, values, strings, given>>

\* begin_mvt_feature, cut back when the commands are malformed.
Begin(input, id) ==
    /\ Building
    /\ Len(features) < MaxFeatures
    /\ LET d == Decoded(input) IN
       \/ /\ d.ok
          /\ points' = d.points /\ parts' = d.parts
          /\ features' = Append(features,
                [type |-> GeometryType(input.type, d.single), id |-> id,
                 parts |-> <<Len(parts), Len(d.parts)>>,
                 values |-> <<Len(values), Len(values)>>])
          /\ given' = Append(given, Promised(input, id))
       \/ /\ ~d.ok
          /\ points' = SubSeq(d.points, 1, Len(points))
          /\ parts' = SubSeq(d.parts, 1, Len(parts))
          /\ UNCHANGED <<features, given>>
    /\ UNCHANGED <<names, kinds, values, strings>>

\* The value stored last becomes the last of the last feature.
Store(key, stored, raw) ==
    /\ values' = Append(values, [key |-> key, value |-> stored])
    /\ kinds' = [kinds EXCEPT ![key] = Merge(@, raw.kind)]
    /\ features' = [features EXCEPT ![Len(features)].values = <<@[1], Len(values')>>]
    /\ given' = [given EXCEPT ![Len(given)].values[names[key]] = raw]

\* Mutant: the value is stored before the feature and the key are checked.
SetUnchecked(key, stored, raw) ==
    /\ Len(values) < MaxSets
    /\ IF features # <<>> /\ key \in DOMAIN names THEN Store(key, stored, raw)
       ELSE /\ values' = Append(values, [key |-> key, value |-> stored])
            /\ UNCHANGED <<kinds, features, given>>

\* set: an error when no feature has begun or the key is unknown.
BufferSet(key, stored, raw) ==
    /\ Len(values) < MaxSets
    /\ IF features # <<>> /\ key \in DOMAIN names THEN Store(key, stored, raw)
       ELSE UNCHANGED <<values, kinds, features, given>>

Keys == 1..(Len(names) + 1)

SetValue(key, raw) ==
    /\ Building
    /\ raw.kind # "Str"
    /\ BufferSet(key, raw, raw)
    /\ UNCHANGED <<names, parts, points, strings>>

\* set_str: the text is stored first, whatever set says.
SetStr(key, raw) ==
    /\ Building
    /\ raw.kind = "Str"
    /\ Len(strings) + Len(raw.value) <= MaxText
    /\ strings' = strings \o raw.value
    /\ BufferSet(key, [kind |-> "Str", range |-> <<Len(strings), Len(strings')>>], raw)
    /\ UNCHANGED <<names, parts, points>>

-----------------------------------------------------------------------------
(* encode: the builder's content as calls of a layer writer.                *)

ItemsIn(list, range) == SubSeq(list, range[1] + 1, range[2])

\* The value a stored value stands for.
Raw(stored) ==
    IF stored.kind = "Str" THEN [kind |-> "Str", value |-> ItemsIn(strings, stored.range)]
    ELSE stored

PartCalls(feature) ==
    LET own == ItemsIn(parts, feature.parts)
    IN [i \in DOMAIN own |-> [op |-> own[i].role, coords |-> ItemsIn(points, own[i].coords)]]

ValueCalls(feature) ==
    LET own == ItemsIn(values, feature.values)
    IN [i \in DOMAIN own |->
          [op |-> "Property", key |-> own[i].key,
           value |-> Cast(PropKind(kinds[own[i].key]), Raw(own[i].value))]]

FeatureCalls(feature) ==
       <<[op |-> "Feature", type |-> feature.type], [op |-> "Id", id |-> feature.id]>>
    \o PartCalls(feature) \o ValueCalls(feature) \o <<[op |-> "Finish"]>>

AddCalls ==
    [k \in DOMAIN names |-> [op |-> "Add", name |-> names[k], kind |-> PropKind(kinds[k])]]

Calls(f) == IF f = 0 THEN AddCalls ELSE FeatureCalls(features[f])

Encode ==
    /\ ~encoding
    /\ encoding' = TRUE
    /\ at' = IF names = <<>> THEN <<1, 1>> ELSE <<0, 1>>
    /\ UNCHANGED <<buffer, vars>>

Accepts(call) ==
    \/ call.op = "Add" /\ AddProperty(call.name, call.kind)
    \/ call.op = "Feature" /\ Feature(call.type)
    \/ call.op = "Id" /\ SetId(call.id)
    \/ call.op = "Points" /\ AddPoints(call.coords)
    \/ call.op = "Line" /\ AddLine(call.coords)
    \/ call.op = "Exterior" /\ ExteriorRing(call.coords)
    \/ call.op = "Hole" /\ Hole(call.coords)
    \/ call.op = "Property" /\ SetProperty(call.key, call.value)
    \/ call.op = "Finish" /\ Valid /\ Finish

Encoded == encoding /\ at[1] > Len(features)

\* A call that the writer refuses is an error of encode that nothing here answers:
\* the system would stop.
Replay ==
    /\ encoding /\ ~Encoded
    /\ LET calls == Calls(at[1]) IN
       /\ Accepts(calls[at[2]])
       /\ at' = IF at[2] < Len(calls) THEN <<at[1], at[2] + 1>> ELSE <<at[1] + 1, 1>>
    /\ UNCHANGED <<buffer, encoding>>

\* The layer has been encoded; its writer is dropped.
Drop ==
    /\ Encoded
    /\ encoding' = FALSE /\ at' = <<0, 1>>
    /\ property' = <<>> /\ columns' = <<>> /\ spare' = <<>> /\ ids' = <<>>
    /\ types' = <<>> /\ feature_ends' = <<>> /\ group_ends' = <<>>
    /\ part_ends' = <<>> /\ coords' = <<>> /\ writer' = NoDraft
    /\ UNCHANGED buffer

BufferNext ==
    \/ BufferReset
    \/ \E name \in Names : BufferAddProperty(name)
    \/ \E input \in Inputs, id \in Ids \cup {NoId} : Begin(input, id)
    \/ \E key \in Keys, raw \in Raws : SetValue(key, raw) \/ SetStr(key, raw)
    \/ Encode
    \/ Replay
    \/ Drop

BufferSpec == BufferInit /\ [][BufferNext]_bufferVars

-----------------------------------------------------------------------------
(* Properties.                                                              *)

IsRange(range, list) == 0 <= range[1] /\ range[1] <= range[2] /\ range[2] <= Len(list)

\* The lists refer to each other by ranges that lie inside them and by declared
\* keys: encode would panic otherwise.
BufferTypeOK ==
    /\ Len(kinds) = Len(names) /\ Len(given) = Len(features)
    /\ \A f \in DOMAIN features : /\ features[f].type \in DOMAIN Family
                                  /\ IsRange(features[f].parts, parts)
                                  /\ IsRange(features[f].values, values)
    /\ \A p \in DOMAIN parts : IsRange(parts[p].coords, points)
    /\ \A v \in DOMAIN values :
          /\ values[v].key \in DOMAIN names
          /\ values[v].value.kind = "Str" => IsRange(values[v].value.range, strings)

Fit(list, range, type) ==
    LET own == (range[1] + 1)..range[2]
        first == range[1] + 1
        exteriors == {p \in own : list[p].role = "Exterior"}
    IN /\ first \in own
       /\ Family[type] = "points" =>
             /\ own = {first} /\ list[first].role = "Points"
             /\ type = "Point" => list[first].coords[2] - list[first].coords[1] = 1
       /\ Family[type] = "lines" =>
             /\ \A p \in own : list[p].role = "Line"
             /\ type = "LineString" => own = {first}
       /\ Family[type] = "polygons" =>
             /\ \A p \in own : list[p].role \in {"Exterior", "Hole"}
             /\ first \in exteriors
             /\ type = "Polygon" => exteriors = {first}

\* The parts of a feature are what the writer takes for its type, whatever stream of
\* commands they were decoded from: points are one part, a hole comes after an
\* exterior, and a type that is not a multi one has one point, line or exterior
\* (store.rs:216, layer_writer.rs finish).
PartsFit ==
    \A f \in DOMAIN features : Fit(parts, features[f].parts, features[f].type)

\* The kind that holds every value ever set in a column.
HoldingKind(key) ==
    LET set == {values[v].value.kind : v \in {w \in DOMAIN values : values[w].key = key}}
    IN CASE set = {} -> "Str"
         [] Cardinality(set) = 1 -> CHOOSE kind \in set : TRUE
         [] Cardinality(set) > 1 /\ set \subseteq Numbers -> "F64"
         [] OTHER -> "Str"

\* What a caller asked for, row by row, with the last value set in each column cast
\* to the one kind that holds all the values of the column.
Cell(k, raw) == IF raw = NoValue THEN NoValue ELSE Cast(HoldingKind(k), raw)

Row(f, outer) ==
    LET input == given[f].input
        shape == Shape(input, outer)
    IN [type |-> GeometryType(input.type, Len(shape) = 1), id |-> given[f].id, geometry |-> shape,
        values |-> [k \in DOMAIN names |-> Cell(k, given[f].values[names[k]])]]

\* A ring whose area is that of an i64 is among the outer ones if its area is positive.
RightlyOuter(outer, rings) ==
    \A n \in DOMAIN rings : Area(rings[n]) \in -Wide..(Wide - 1) => (n \in outer <=> n \in Outer(rings))

\* The encoded layer is the table the caller asked for: a column per property, each
\* feature with its values and the geometry its MVT commands describe, and nothing of
\* the calls that failed.  A ring starts a polygon if it is the first or of positive area
\* (store.rs:252), unless an i64 does not hold its area (store.rs:59-65): for such a ring
\* nothing is said of this, and its coordinates and its place among the rings are right.
EncodesWhatWasGiven ==
    Encoded =>
        /\ property = [k \in DOMAIN names |-> [name |-> names[k], kind |-> HoldingKind(k)]]
        /\ Len(Finished) = Len(given)
        /\ \A f \in DOMAIN given :
              LET rings == Paths(given[f].input)
              IN \E outer \in SUBSET DOMAIN rings :
                    RightlyOuter(outer, rings) /\ Finished[f] = Row(f, outer)
=============================================================================
