---------------------------- MODULE FeatureLayer ----------------------------
(***************************************************************************)
(* What a layer written feature by feature holds: a table of features,     *)
(* each with a type, an id, a geometry and a value or none per column, and *)
(* at most one feature being written, which joins the table as a whole or  *)
(* leaves no trace.  LayerWriter implements it.                            *)
(***************************************************************************)
EXTENDS Naturals, Sequences

CONSTANTS Names,     \* property names
          Kinds,     \* kinds of property values
          ValuesOf,  \* ValuesOf[kind]: the values of that kind
          NoValue,   \* a feature has no value in a column
          Ids,       \* feature ids
          NoId,      \* a feature has no id
          CoordLists, \* coordinate lists a caller passes, maybe empty
          NoDraft    \* no feature is being written

\* GeometryType. A geometry is a sequence of points, of lines or of polygons; a
\* polygon is a sequence of rings; lines and rings are sequences of coordinates.
Single == {"Point", "LineString", "Polygon"}
Multi == {"MultiPoint", "MultiLineString", "MultiPolygon"}

Points == {"Point", "MultiPoint"}
Lines == {"LineString", "MultiLineString"}
Polygons == {"Polygon", "MultiPolygon"}

VARIABLES columns,   \* the property columns, each a name and a kind
          features,  \* the features of the layer, in order
          draft      \* the feature being written

vars == <<columns, features, draft>>

Empty(type) == [type |-> type, id |-> NoId, geometry |-> <<>>,
                values |-> [k \in DOMAIN columns |-> NoValue]]

WellFormed(feature) == feature.type \in Single => Len(feature.geometry) = 1

Init == columns = <<>> /\ features = <<>> /\ draft = NoDraft

Reset ==
    /\ draft = NoDraft
    /\ columns' = <<>> /\ features' = <<>>
    /\ UNCHANGED draft

AddProperty(name, kind) ==
    /\ draft = NoDraft
    /\ \A k \in DOMAIN columns : columns[k].name # name
    /\ columns' = Append(columns, [name |-> name, kind |-> kind])
    /\ features' = [f \in DOMAIN features |->
                      [features[f] EXCEPT !.values = Append(@, NoValue)]]
    /\ UNCHANGED draft

Begin(type) ==
    /\ draft = NoDraft
    /\ draft' = Empty(type)
    /\ UNCHANGED <<columns, features>>

Writing == draft # NoDraft /\ UNCHANGED <<columns, features>>

SetId(id) == Writing /\ draft' = [draft EXCEPT !.id = id]

SetProperty(k, value) ==
    /\ Writing
    /\ value \in ValuesOf[columns[k].kind]
    /\ draft' = [draft EXCEPT !.values[k] = value]

AddPoints(coords) ==
    /\ Writing
    /\ draft.type \in Points
    /\ draft' = [draft EXCEPT !.geometry = @ \o coords]

AddLine(line) ==
    /\ Writing
    /\ draft.type \in Lines
    /\ draft' = [draft EXCEPT !.geometry = Append(@, line)]

AddPolygon(ring) ==
    /\ Writing
    /\ draft.type \in Polygons
    /\ draft' = [draft EXCEPT !.geometry = Append(@, <<ring>>)]

AddHole(ring) ==
    /\ Writing
    /\ draft.type \in Polygons
    /\ draft.geometry # <<>>
    /\ draft' = [draft EXCEPT !.geometry[Len(draft.geometry)] = Append(@, ring)]

Finish ==
    /\ draft # NoDraft
    /\ WellFormed(draft)
    /\ features' = Append(features, draft)
    /\ draft' = NoDraft
    /\ UNCHANGED columns

Discard ==
    /\ Writing
    /\ draft' = NoDraft

Next ==
    \/ Reset
    \/ \E name \in Names, kind \in Kinds : AddProperty(name, kind)
    \/ \E type \in Single \cup Multi : Begin(type)
    \/ \E id \in Ids \cup {NoId} : SetId(id)
    \/ \E k \in DOMAIN columns : \E value \in ValuesOf[columns[k].kind] :
          SetProperty(k, value)
    \/ \E coords \in CoordLists : \/ AddPoints(coords) \/ AddLine(coords)
                                  \/ AddPolygon(coords) \/ AddHole(coords)
    \/ Finish
    \/ Discard

Spec == Init /\ [][Next]_vars
=============================================================================
