---------------------------- MODULE LayerWriter ----------------------------
(***************************************************************************)
(* The columnar layer writer of rust/mlt-core/src/layer_writer.rs.         *)
(*                                                                         *)
(* Geometry is one flat list of coordinates under three levels of          *)
(* cumulative ends: features end at groups, groups at parts, parts at      *)
(* coordinates.  Property values are columns that may run one value ahead  *)
(* of the features.  A FeatureWriter appends to all of them in place;      *)
(* finish makes the feature part of the layer, dropping it unfinished cuts *)
(* every list back.  Indexes are from 1; a PropertyKey is its column's     *)
(* index.  Calls that return an error and change nothing are left out.     *)
(***************************************************************************)
EXTENDS Naturals, Sequences, FiniteSets

CONSTANTS Names, Kinds, ValuesOf, NoValue, Ids, NoId, CoordLists, NoDraft,
          Default,      \* what resize fills a column with: 0 or ""
          MaxVertices,  \* "A layer holds at most u32::MAX vertices"
          MaxFeatures, MaxParts   \* bounds of the instance

ASSUME WriterAssumption ==
    /\ IsFiniteSet(Names)
    /\ DOMAIN ValuesOf = Kinds
    /\ \A kind \in Kinds : NoValue \notin ValuesOf[kind]
    /\ \A cs \in CoordLists : cs \in Seq({cs[i] : i \in DOMAIN cs})
    /\ MaxVertices \in Nat /\ MaxFeatures \in Nat /\ MaxParts \in Nat

VARIABLES property,    \* property_names and property_kinds
          columns,     \* one column per property: kind, values, present
          spare,       \* spare_columns, the next one to pop last
          ids,         \* one id per feature
          types, feature_ends, group_ends, part_ends, coords,
          writer       \* the FeatureWriter: type, id, start; or NoDraft

geometry == <<types, feature_ends, group_ends, part_ends, coords>>
vars == <<property, columns, spare, ids, geometry, writer>>

-----------------------------------------------------------------------------
(* Columns.                                                                 *)

Column(kind) == [kind |-> kind, values |-> <<>>, present |-> <<>>]

\* A list cut or filled up to len entries.
Resized(s, len, fill) == [i \in 1..len |-> IF i <= Len(s) THEN s[i] ELSE fill]

Resize(column, len) ==
    [column EXCEPT !.values = Resized(@, len, Default),
                   !.present = Resized(@, len, FALSE)]

Truncated(s, len) == IF len < Len(s) THEN SubSeq(s, 1, len) ELSE s

Truncate(column, len) ==
    [column EXCEPT !.values = Truncated(@, len), !.present = Truncated(@, len)]

\* Mutant: a spare column keeps what the layer before it left.
RestartDirty(column, kind) == [column EXCEPT !.kind = kind]

Restart(column, kind) == [Truncate(column, 0) EXCEPT !.kind = kind]

Set(column, feature, value) ==
    LET column1 == IF feature > Len(column.present) THEN Resize(column, feature)
                   ELSE column
    IN [column1 EXCEPT !.values[feature] = value, !.present[feature] = TRUE]

Get(column, feature) ==
    IF column.present[feature] THEN column.values[feature] ELSE NoValue

\* Family::of: the kind of parts of a type, and whether it repeats them.
Family == [Point |-> "points", MultiPoint |-> "points",
           LineString |-> "lines", MultiLineString |-> "lines",
           Polygon |-> "polygons", MultiPolygon |-> "polygons"]

-----------------------------------------------------------------------------
(* Cumulative ends.                                                         *)

\* The range of item `index`, as the index before its first and its last.
ItemRange(ends, index) ==
    <<IF index = 1 THEN 0 ELSE ends[index - 1], ends[index]>>

Groups(feature) == ItemRange(feature_ends, feature)

\* The parts of consecutive groups.
Parts(groups) ==
    IF groups[1] = groups[2] THEN <<0, 0>>
    ELSE <<ItemRange(group_ends, groups[1] + 1)[1], group_ends[groups[2]]>>

Items(range) == [i \in 1..(range[2] - range[1]) |-> range[1] + i]

CoordsIn(range) == SubSeq(coords, range[1] + 1, range[2])

Part(part) == CoordsIn(ItemRange(part_ends, part))

RangeCoords(groups) ==
    LET parts == Parts(groups) IN
    IF parts[1] = parts[2] THEN <<>>
    ELSE CoordsIn(<<ItemRange(part_ends, parts[1] + 1)[1], part_ends[parts[2]]>>)

PartsOf(groups) ==
    LET parts == Items(Parts(groups)) IN [i \in DOMAIN parts |-> Part(parts[i])]

\* The geometry stored in consecutive groups, as push_geometry reads it.
GeometryOf(type, groups) ==
    CASE Family[type] = "points" -> RangeCoords(groups)
      [] Family[type] = "lines" -> PartsOf(groups)
      [] Family[type] = "polygons" ->
            LET gs == Items(groups)
            IN [i \in DOMAIN gs |-> PartsOf(<<gs[i] - 1, gs[i]>>)]

PushGeometry(feature) ==
    IF types[feature] = "Polygon" THEN <<PartsOf(Groups(feature))>>
    ELSE GeometryOf(types[feature], Groups(feature))

-----------------------------------------------------------------------------
Init ==
    /\ property = <<>> /\ columns = <<>> /\ spare = <<>> /\ ids = <<>>
    /\ types = <<>> /\ feature_ends = <<>> /\ group_ends = <<>>
    /\ part_ends = <<>> /\ coords = <<>>
    /\ writer = NoDraft

Idle == writer = NoDraft

Reset ==
    /\ Idle
    /\ property' = <<>> /\ columns' = <<>> /\ spare' = spare \o columns
    /\ ids' = <<>>
    /\ types' = <<>> /\ feature_ends' = <<>> /\ group_ends' = <<>>
    /\ part_ends' = <<>> /\ coords' = <<>>
    /\ UNCHANGED writer

\* Mutant: a new column does not cover the features written so far.
AddPropertyShort(name, kind) ==
    /\ Idle
    /\ \A k \in DOMAIN property : property[k].name # name
    /\ columns' = Append(columns, Column(kind))
    /\ property' = Append(property, [name |-> name, kind |-> kind])
    /\ UNCHANGED <<spare, ids, geometry, writer>>

AddProperty(name, kind) ==
    /\ Idle
    /\ \A k \in DOMAIN property : property[k].name # name
    /\ LET popped == IF spare = <<>> THEN Column(kind) ELSE spare[Len(spare)]
       IN columns' = Append(columns, Resize(Restart(popped, kind), Len(ids)))
    /\ spare' = Truncated(spare, IF spare = <<>> THEN 0 ELSE Len(spare) - 1)
    /\ property' = Append(property, [name |-> name, kind |-> kind])
    /\ UNCHANGED <<ids, geometry, writer>>

Feature(type) ==
    /\ Idle
    /\ Len(ids) < MaxFeatures
    /\ writer' = [type |-> type, id |-> NoId, groups |-> Len(group_ends),
                  parts |-> Len(part_ends), coords |-> Len(coords)]
    /\ UNCHANGED <<property, columns, spare, ids, geometry>>

SetId(id) ==
    /\ ~Idle
    /\ writer' = [writer EXCEPT !.id = id]
    /\ UNCHANGED <<property, columns, spare, ids, geometry>>

SetProperty(k, value) ==
    /\ ~Idle
    /\ value \in ValuesOf[property[k].kind]
    /\ columns' = [columns EXCEPT ![k] = Set(@, Len(ids) + 1, value)]
    /\ UNCHANGED <<property, spare, ids, geometry, writer>>

-----------------------------------------------------------------------------
(* Geometry of the feature being written.                                   *)

check_family(family) == ~Idle /\ Family[writer.type] = family

\* Mutant: the length is checked before the coordinates are added.
FitsBefore(cs) == Len(coords) <= MaxVertices

Fits(cs) == Len(coords) + Len(cs) <= MaxVertices

\* begin_group unless `joins`, begin_part and extend.
AddPart(cs, joins) ==
    /\ Fits(cs)
    /\ Len(part_ends) < MaxParts
    /\ coords' = coords \o cs
    /\ part_ends' = Append(part_ends, Len(coords) + Len(cs))
    /\ group_ends' = IF joins
                     THEN [group_ends EXCEPT ![Len(group_ends)] = @ + 1]
                     ELSE Append(group_ends, Len(part_ends) + 1)
    /\ UNCHANGED <<property, columns, spare, ids, types, feature_ends, writer>>

GroupBegun == Len(group_ends) > writer.groups

\* points: the first call begins the one part, every call extends it.
AddPoints(cs) ==
    /\ check_family("points")
    /\ \/ /\ ~GroupBegun
          /\ AddPart(cs, FALSE)
       \/ /\ GroupBegun
          /\ Fits(cs)
          /\ coords' = coords \o cs
          /\ part_ends' = [part_ends EXCEPT ![Len(part_ends)] = Len(coords')]
          /\ UNCHANGED <<property, columns, spare, ids, types, feature_ends,
                         group_ends, writer>>

AddLine(cs) ==
    /\ check_family("lines")
    /\ AddPart(cs, GroupBegun)

ExteriorRing(cs) ==
    /\ check_family("polygons")
    /\ AddPart(cs, FALSE)

Hole(cs) ==
    /\ check_family("polygons")
    /\ GroupBegun
    /\ AddPart(cs, TRUE)

-----------------------------------------------------------------------------
(* The end of a feature.                                                    *)

\* Mutant: dropping a feature forgets the flat coordinates.
RewindEndsOnly ==
    /\ columns' = [k \in DOMAIN columns |-> Truncate(columns[k], Len(ids))]
    /\ group_ends' = Truncated(group_ends, writer.groups)
    /\ part_ends' = Truncated(part_ends, writer.parts)
    /\ writer' = NoDraft
    /\ UNCHANGED <<property, spare, ids, types, feature_ends, coords>>

\* Drop of an unfinished FeatureWriter.
Rewind ==
    /\ columns' = [k \in DOMAIN columns |-> Truncate(columns[k], Len(ids))]
    /\ group_ends' = Truncated(group_ends, writer.groups)
    /\ part_ends' = Truncated(part_ends, writer.parts)
    /\ coords' = Truncated(coords, writer.coords)
    /\ writer' = NoDraft
    /\ UNCHANGED <<property, spare, ids, types, feature_ends>>

Discard == ~Idle /\ Rewind

\* len32 fails in extend: the caller returns the error, which drops the writer.
Overflow ==
    /\ ~Idle
    /\ \E cs \in CoordLists : Len(coords) + Len(cs) > MaxVertices
    /\ Rewind

Valid ==
    CASE writer.type = "Point" -> Len(coords) - writer.coords = 1
      [] writer.type = "LineString" -> Len(part_ends) - writer.parts = 1
      [] writer.type = "Polygon" -> Len(group_ends) - writer.groups = 1
      [] OTHER -> TRUE

Finish ==
    /\ ~Idle
    /\ \/ /\ Valid
          /\ feature_ends' = Append(feature_ends, Len(group_ends))
          /\ types' = Append(types, writer.type)
          /\ columns' = [k \in DOMAIN columns |-> Resize(columns[k], Len(ids) + 1)]
          /\ ids' = Append(ids, writer.id)
          /\ writer' = NoDraft
          /\ UNCHANGED <<property, spare, group_ends, part_ends, coords>>
       \/ /\ ~Valid
          /\ Rewind

Next ==
    \/ Reset
    \/ \E name \in Names, kind \in Kinds : AddProperty(name, kind)
    \/ \E type \in DOMAIN Family : Feature(type)
    \/ \E id \in Ids \cup {NoId} : SetId(id)
    \/ \E k \in DOMAIN property : \E value \in ValuesOf[property[k].kind] :
          SetProperty(k, value)
    \/ \E cs \in CoordLists : \/ AddPoints(cs) \/ AddLine(cs)
                              \/ ExteriorRing(cs) \/ Hole(cs)
    \/ Discard
    \/ Overflow
    \/ Finish

Spec == Init /\ [][Next]_vars

-----------------------------------------------------------------------------
(* Safety.                                                                  *)

Start == [type : DOMAIN Family, id : Ids \cup {NoId},
          groups : Nat, parts : Nat, coords : Nat]


TypeOK ==
    /\ property \in Seq([name : Names, kind : Kinds])
    /\ ids \in Seq(Ids \cup {NoId})
    /\ types \in Seq(DOMAIN Family)
    /\ feature_ends \in Seq(Nat) /\ group_ends \in Seq(Nat) /\ part_ends \in Seq(Nat)
    /\ Len(coords) \in 0..MaxVertices
    /\ writer \in Start \cup {NoDraft}

\* Cumulative ends that never decrease and cover exactly n items.
Cover(ends, n) ==
    /\ \A i \in 2..Len(ends) : ends[i - 1] <= ends[i]
    /\ n = IF ends = <<>> THEN 0 ELSE ends[Len(ends)]

\* The three levels tile the flat coordinates: no coordinate, part or group is
\* left over by a dropped feature or shared by two, and the place a dropped
\* feature is cut back to is where the last finished one ends.
EndsTile ==
    /\ Cover(part_ends, Len(coords))
    /\ Cover(group_ends, Len(part_ends))
    /\ Cover(feature_ends, IF Idle THEN Len(group_ends) ELSE writer.groups)
    /\ Len(feature_ends) = Len(ids) /\ Len(types) = Len(ids)
    /\ ~Idle => /\ Cover(SubSeq(group_ends, 1, writer.groups), writer.parts)
                /\ Cover(SubSeq(part_ends, 1, writer.parts), writer.coords)

\* Between features every column holds one entry per feature, whatever columns
\* were added late, reused from an earlier layer or left unset; while one is
\* written a column is at most one entry ahead.
ColumnsAligned ==
    /\ Len(columns) = Len(property)
    /\ \A k \in DOMAIN columns :
          LET column == columns[k] IN
          /\ column.kind = property[k].kind
          /\ Len(column.values) = Len(column.present)
          /\ Len(column.present) \in Len(ids)..(Len(ids) + IF Idle THEN 0 ELSE 1)
          /\ \A f \in DOMAIN column.present : column.present[f] =>
                column.values[f] \in ValuesOf[column.kind]

\* What the layer reads back as: the finished features, and the one being written.
Finished ==
    [f \in DOMAIN ids |->
        [type |-> types[f], id |-> ids[f], geometry |-> PushGeometry(f),
         values |-> [k \in DOMAIN columns |-> Get(columns[k], f)]]]

Drafted ==
    IF Idle THEN NoDraft
    ELSE [type |-> writer.type, id |-> writer.id,
          geometry |-> GeometryOf(writer.type, <<writer.groups, Len(group_ends)>>),
          values |-> [k \in DOMAIN columns |->
                        IF Len(columns[k].present) > Len(ids)
                        THEN Get(columns[k], Len(ids) + 1) ELSE NoValue]]

Coordinate == UNION {{cs[i] : i \in DOMAIN cs} : cs \in CoordLists}
Line == Seq(Coordinate)
Draft == [type : DOMAIN Family, id : Ids \cup {NoId},
          geometry : Line \cup Seq(Line) \cup Seq(Seq(Line)),
          values : Seq({NoValue} \cup UNION {ValuesOf[kind] : kind \in Kinds})]

ASSUME NoDraftAssumption == NoDraft \notin Start /\ NoDraft \notin Draft

\* The layer reads back as the table of the features that were finished, and an
\* unfinished feature leaves no trace ("It joins the layer when finish succeeds,
\* and is discarded otherwise", line 198).
Layer == INSTANCE FeatureLayer WITH
    columns <- property, features <- Finished, draft <- Drafted
LayerSpec == Layer!Spec
=============================================================================
