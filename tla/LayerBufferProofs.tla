------------------------- MODULE LayerBufferProofs -------------------------
(***************************************************************************)
(* The safety of LayerBuffer for every stream of MVT commands, every value *)
(* and every order of calls.  See README.md for the argument.              *)
(***************************************************************************)
EXTENDS LayerBuffer, TLAPS, WellFoundedInduction, FiniteSetTheorems

-----------------------------------------------------------------------------
(* What is inductive.                                                       *)

GeoTypes == {"Point", "LineString", "Polygon", "MultiPoint", "MultiLineString", "MultiPolygon"}
MvtTypes == {"Point", "LineString", "Polygon"}
Roles == {"Points", "Line", "Exterior", "Hole"}

Span == Nat \X Nat
Place == Int \X Int
FeatureRow == [type : GeoTypes, id : Ids \cup {NoId}, parts : Span, values : Span]
PartRow == [role : Roles, coords : Span]
Stored == {raw \in Raws : raw.kind # "Str"} \cup [kind : {"Str"}, range : Span]
Texts == {raw \in Raws : raw.kind = "Str"}
Letters == UNION {{raw.value[i] : i \in DOMAIN raw.value} : raw \in Texts}
Promise == [input : Inputs, id : Ids \cup {NoId}, values : [Names -> Raws \cup {NoValue}]]

BufferTypes ==
    /\ names \in Seq(Names) /\ kinds \in Seq(PropKinds \cup {"Unknown"})
    /\ features \in Seq(FeatureRow) /\ parts \in Seq(PartRow) /\ points \in Seq(Place)
    /\ values \in Seq([key : Nat, value : Stored]) /\ strings \in Seq(Letters)
    /\ given \in Seq(Promise)

\* The kinds of the values set in a column.
KindsSet(key) == {values[v].value.kind : v \in {w \in DOMAIN values : values[w].key = key}}

\* The least kind that holds values of the kinds in the set.
Holds(kind, set) ==
    LET several == \E a, b \in set : a # b IN
    \/ set = {} /\ kind = "Unknown"
    \/ set = {kind}
    \/ several /\ set \subseteq Numbers /\ kind = "F64"
    \/ several /\ ~(set \subseteq Numbers) /\ kind = "Str"

KindsInv == \A key \in DOMAIN names : Holds(kinds[key], KindsSet(key))

\* The kind that merging one value after another infers for a column holds all of
\* them and does not depend on their order (store.rs:293, tile.rs:1345). The run
\* checks it of every encoded layer, within EncodesWhatWasGiven.
KindsHold == \A key \in DOMAIN names : PropKind(kinds[key]) = HoldingKind(key)

LInv == BufferTypes /\ BufferTypeOK /\ PartsFit /\ KindsInv

-----------------------------------------------------------------------------
(* Induction over the numbers, and lists.                                   *)

LEMMA Least ==
  ASSUME NEW S \in SUBSET Nat, S # {}
  PROVE  \E n \in S : \A m \in S : n <= m
<1>1. PICK n \in S : \A m \in S : <<m, n>> \notin OpToRel(<, Nat)
  BY NatLessThanWellFounded, WFMin
<1>2. \A m \in S : ~(m < n)
  BY <1>1 DEF OpToRel
<1> QED
  BY <1>2

LEMMA Induction ==
  ASSUME NEW S, 0 \in S, \A n \in Nat : n \in S => n + 1 \in S
  PROVE  Nat \subseteq S
<1>1. SUFFICES ASSUME Nat \ S # {} PROVE FALSE
  OBVIOUS
<1>2. PICK n \in Nat \ S : \A m \in Nat \ S : n <= m
  BY <1>1, Least
<1>3. n - 1 \in Nat /\ ~(n <= n - 1) /\ n = (n - 1) + 1
  OBVIOUS
<1>4. n - 1 \in S
  BY <1>2, <1>3
<1> QED
  BY <1>3, <1>4

LEMMA ItemOf ==
  ASSUME NEW S, NEW s \in Seq(S)
  PROVE  /\ Len(s) \in Nat /\ DOMAIN s = 1..Len(s)
         /\ \A i \in 1..Len(s) : s[i] \in S
  OBVIOUS

LEMMA Appended ==
  ASSUME NEW S, NEW s \in Seq(S), NEW x \in S
  PROVE  /\ Append(s, x) \in Seq(S) /\ Len(Append(s, x)) = Len(s) + 1
         /\ DOMAIN Append(s, x) = 1..(Len(s) + 1)
         /\ \A i \in 1..Len(s) : Append(s, x)[i] = s[i]
         /\ Append(s, x)[Len(s) + 1] = x
  OBVIOUS

LEMMA TypeFacts ==
  /\ DOMAIN Family = GeoTypes
  /\ \A type \in GeoTypes :
       /\ Family[type] = "points" <=> type \in {"Point", "MultiPoint"}
       /\ Family[type] = "lines" <=> type \in {"LineString", "MultiLineString"}
       /\ Family[type] = "polygons" <=> type \in {"Polygon", "MultiPolygon"}
  /\ \A type \in MvtTypes, single \in BOOLEAN :
       GeometryType(type, single) =
         IF single THEN type
         ELSE CASE type = "Point" -> "MultiPoint"
                [] type = "LineString" -> "MultiLineString"
                [] type = "Polygon" -> "MultiPolygon"
<1>1. DOMAIN Family = GeoTypes
  BY DEF Family, GeoTypes
<1>2. ASSUME NEW type \in GeoTypes
      PROVE  /\ Family[type] = "points" <=> type \in {"Point", "MultiPoint"}
             /\ Family[type] = "lines" <=> type \in {"LineString", "MultiLineString"}
             /\ Family[type] = "polygons" <=> type \in {"Polygon", "MultiPolygon"}
  BY DEF Family, GeoTypes
<1>3. ASSUME NEW type \in MvtTypes, NEW single \in BOOLEAN
      PROVE  GeometryType(type, single) =
               IF single THEN type
               ELSE CASE type = "Point" -> "MultiPoint"
                      [] type = "LineString" -> "MultiLineString"
                      [] type = "Polygon" -> "MultiPolygon"
  BY DEF GeometryType, Multi, MvtTypes
<1> QED
  BY <1>1, <1>2, <1>3

-----------------------------------------------------------------------------
(* What decode_mvt has read so far.                                         *)

State == [points : Seq(Place), parts : Seq(PartRow), start : Nat, ended : Nat,
          exteriors : Nat, cursor : Place, ok : BOOLEAN, single : BOOLEAN]

New(d) == (Len(parts) + 1)..Len(d.parts)

Grown(d) ==
    /\ d \in State
    /\ Len(points) <= Len(d.points)
    /\ \A i \in 1..Len(points) : d.points[i] = points[i]
    /\ Len(d.parts) = Len(parts) + d.ended
    /\ \A p \in 1..Len(parts) : d.parts[p] = parts[p]
    /\ \A p \in 1..Len(d.parts) : IsRange(d.parts[p].coords, d.points)

StartRead(d, type) ==
    /\ type = "Point" => /\ d.start = 0 => Len(d.points) = Len(points)
                         /\ d.start # 0 => d.start = Len(points) + 1
    /\ type # "Point" => d.start <= Len(d.points)

PartsRead(d, type) ==
    /\ type = "Point" => d.ended = 0
    /\ type = "LineString" => \A p \in New(d) : d.parts[p].role = "Line"
    /\ type = "Polygon" =>
         /\ \A p \in New(d) : d.parts[p].role \in {"Exterior", "Hole"}
         /\ d.exteriors = 0 <=> d.ended = 0
         /\ d.ended # 0 => d.parts[Len(parts) + 1].role = "Exterior"
         /\ d.exteriors = 1 <=>
              {p \in New(d) : d.parts[p].role = "Exterior"} = {Len(parts) + 1}

Reading(d, type) == Grown(d) /\ (d.ok => StartRead(d, type) /\ PartsRead(d, type))

LEMMA DecodingReads ==
  ASSUME BufferTypes, BufferTypeOK, NEW type \in MvtTypes
  PROVE  Reading(Decoding, type)
<1>1. Decoding \in State
  BY DEF Decoding, State, BufferTypes, Place
<1>2. /\ Decoding.points = points /\ Decoding.parts = parts /\ Decoding.start = 0
      /\ Decoding.ended = 0 /\ Decoding.exteriors = 0
  BY DEF Decoding
<1>3. Len(parts) \in Nat /\ Len(points) \in Nat /\ DOMAIN parts = 1..Len(parts)
  BY ItemOf DEF BufferTypes
<1>4. Grown(Decoding)
  BY <1>1, <1>2, <1>3 DEF Grown, BufferTypeOK
<1>5. New(Decoding) = {}
  BY <1>2, <1>3 DEF New
<1> QED
  BY <1>2, <1>3, <1>4, <1>5 DEF Reading, StartRead, PartsRead

LEMMA FailedReads ==
  ASSUME NEW d, NEW type, Grown(d)
  PROVE  Reading(Failed(d), type)
<1>1. PICK e : e = Failed(d)
  OBVIOUS
<1>2. /\ e \in State /\ e.points = d.points /\ e.parts = d.parts /\ e.ended = d.ended
      /\ e.ok = FALSE
  BY <1>1 DEF Failed, State, Grown
<1>3. Grown(e)
  BY <1>2 DEF Grown
<1> QED
  BY <1>1, <1>2, <1>3 DEF Reading, StartRead, PartsRead

\* The recursion of Along has a solution.
MovesUpTo(to, place, deltas, n) ==
    to = [m \in 0..n |-> IF m = 0 THEN place ELSE Moved(to[m - 1], deltas[m])]

LEMMA MovesExist ==
  ASSUME NEW place, NEW deltas
  PROVE  \A n \in Nat : \E to : MovesUpTo(to, place, deltas, n)
<1> DEFINE S == {n \in Nat : \E to : MovesUpTo(to, place, deltas, n)}
<1>1. 0 \in S
  <2>1. MovesUpTo([m \in 0..0 |-> place], place, deltas, 0)
    BY DEF MovesUpTo
  <2> QED
    BY <2>1
<1>2. ASSUME NEW n \in Nat, n \in S
      PROVE  n + 1 \in S
  <2>1. PICK g : MovesUpTo(g, place, deltas, n)
    BY <1>2
  <2> DEFINE h == [m \in 0..(n + 1) |->
                     IF m = n + 1 THEN Moved(g[n], deltas[n + 1]) ELSE g[m]]
  <2>2. ASSUME NEW m \in 0..(n + 1)
        PROVE  h[m] = IF m = 0 THEN place ELSE Moved(h[m - 1], deltas[m])
    <3>1. CASE m = n + 1
      <4>1. h[m] = Moved(g[n], deltas[n + 1])
        BY <3>1
      <4>2. m # 0 /\ h[m - 1] = g[n]
        BY <3>1
      <4> QED
        BY <3>1, <4>1, <4>2
    <3>2. CASE m # n + 1
      <4>1. m \in 0..n /\ h[m] = g[m] /\ (m # 0 => m - 1 \in 0..n /\ h[m - 1] = g[m - 1])
        BY <3>2
      <4>2. g[m] = IF m = 0 THEN place ELSE Moved(g[m - 1], deltas[m])
        BY <2>1, <4>1 DEF MovesUpTo
      <4> QED
        BY <4>1, <4>2
    <3> QED
      BY <3>1, <3>2
  <2>3. MovesUpTo(h, place, deltas, n + 1)
    BY <2>2 DEF MovesUpTo
  <2> QED
    BY <2>3
<1> HIDE DEF S
<1>3. Nat \subseteq S
  BY <1>1, <1>2, Induction
<1> QED
  BY <1>3 DEF S

LEMMA AlongFacts ==
  ASSUME NEW place \in Place, NEW deltas \in Seq(Place)
  PROVE  /\ Along(place, deltas) \in Seq(Place)
         /\ Len(Along(place, deltas)) = Len(deltas)
         /\ Arrived(place, Along(place, deltas)) \in Place
<1>1. PICK N \in Nat : N = Len(deltas) /\ DOMAIN deltas = 1..N /\ \A i \in 1..N : deltas[i] \in Place
  BY ItemOf
<1> DEFINE to == CHOOSE to : MovesUpTo(to, place, deltas, N)
<1>2. Along(place, deltas) = [n \in 1..N |-> to[n]]
  BY <1>1 DEF Along, MovesUpTo
<1>3. MovesUpTo(to, place, deltas, N)
  <2>1. \E g : MovesUpTo(g, place, deltas, N)
    BY <1>1, MovesExist
  <2> QED
    BY <2>1
<1> HIDE DEF to
<1> DEFINE S == {n \in Nat : n <= N => to[n] \in Place}
<1>4. 0 \in S
  BY <1>1, <1>3 DEF MovesUpTo
<1>5. ASSUME NEW n \in Nat, n \in S
      PROVE  n + 1 \in S
  <2> SUFFICES ASSUME n + 1 <= N PROVE to[n + 1] \in Place
    OBVIOUS
  <2>1. to[n + 1] = Moved(to[n], deltas[n + 1])
    <3>1. \A m \in 0..N : to[m] = IF m = 0 THEN place ELSE Moved(to[m - 1], deltas[m])
      BY <1>3 DEF MovesUpTo
    <3>2. n + 1 \in 0..N /\ n + 1 # 0 /\ (n + 1) - 1 = n
      BY <1>1
    <3> QED
      BY <3>1, <3>2
  <2>2. to[n] \in Place /\ deltas[n + 1] \in Place
    BY <1>1, <1>5
  <2>3. to[n][1] + deltas[n + 1][1] \in Int /\ to[n][2] + deltas[n + 1][2] \in Int
    BY <2>2, SMTT(40) DEF Place
  <2>4. \A x \in Int : Saturated(x) \in Int
    BY BufferAssumption DEF Saturated
  <2> QED
    BY <2>1, <2>3, <2>4 DEF Moved, Place
<1> HIDE DEF S
<1>6. \A n \in 1..N : to[n] \in Place
  <2>1. Nat \subseteq S
    BY <1>4, <1>5, Induction
  <2> QED
    BY <1>1, <2>1 DEF S
<1>7. PICK path \in Seq(Place) : path = Along(place, deltas) /\ Len(path) = N
  <2>1. [n \in 1..N |-> to[n]] \in [1..N -> Place]
    BY <1>6
  <2> QED
    BY <1>1, <1>2, <2>1
<1>8. Arrived(place, path) \in Place
  <2>1. CASE path = <<>>
    BY <2>1 DEF Arrived
  <2>2. CASE path # <<>>
    <3>1. Len(path) \in 1..Len(path)
      BY <1>7, <2>2
    <3> QED
      BY <2>2, <3>1, ItemOf DEF Arrived
  <2> QED
    BY <2>1, <2>2
<1> QED
  BY <1>1, <1>7, <1>8

\* d after the coordinates of one more path.
Extended(e, d, path) ==
    /\ e \in State /\ e.points = d.points \o path /\ e.cursor = Arrived(d.cursor, path)
    /\ e.parts = d.parts /\ e.start = d.start /\ e.ended = d.ended
    /\ e.exteriors = d.exteriors /\ e.ok = d.ok

LEMMA ReadCoordsExtends ==
  ASSUME NEW d \in State, NEW command \in Command
  PROVE  LET n == Len(command.deltas)
             path == Along(d.cursor, command.deltas)
             e == ReadCoords(d, command)
         IN /\ n \in Nat /\ path \in Seq(Place) /\ Len(path) = n
            /\ n >= command.count => Extended(e, d, path)
            /\ n < command.count => \E g : Extended(g, d, path) /\ e = Failed(g)
<1>1. PICK deltas \in Seq(Place) : deltas = command.deltas /\ command.count \in Nat
  BY DEF Command, Place
<1>2. d.cursor \in Place /\ d.points \in Seq(Place)
  BY DEF State
<1>3. PICK path \in Seq(Place), cursor \in Place :
        /\ path = Along(d.cursor, deltas) /\ Len(path) = Len(deltas)
        /\ cursor = Arrived(d.cursor, path)
  BY <1>1, <1>2, AlongFacts
<1>4. PICK points1 \in Seq(Place) : points1 = d.points \o path
  <2>1. \A a, b \in Seq(Place) : a \o b \in Seq(Place)
    OBVIOUS
  <2> QED
    BY <1>2, <1>3, <2>1
<1>5. PICK all : all = [d EXCEPT !.points = points1, !.cursor = cursor]
  OBVIOUS
<1>6. Extended(all, d, path)
  BY <1>3, <1>4, <1>5 DEF Extended, State
<1>7. ReadCoords(d, command) = IF Len(deltas) < command.count THEN Failed(all) ELSE all
  BY <1>1, <1>3, <1>4, <1>5 DEF ReadCoords
<1>8. Len(deltas) \in Nat
  BY <1>1
<1> QED
  BY <1>1, <1>3, <1>6, <1>7, <1>8

-----------------------------------------------------------------------------
(* The end of a part.                                                       *)

LEMMA EndPartReads ==
  ASSUME NEW d, NEW type \in {"LineString", "Polygon"}, Reading(d, type), d.ok,
         Len(points) \in Nat, Len(parts) \in Nat
  PROVE  LET e == EndPart(d, type) IN Reading(e, type) /\ e.ok /\ e.start = 0
<1>1. CASE d.start = 0
  BY <1>1 DEF EndPart
<1>2. CASE d.start # 0
  <2> DEFINE n == Len(parts) + d.ended + 1
  <2>1. /\ d \in State /\ d.start \in 1..Len(d.points) /\ Len(d.points) \in Nat
        /\ d.points \in Seq(Place) /\ d.parts \in Seq(PartRow)
        /\ Len(d.parts) \in Nat /\ d.ended \in Nat /\ d.exteriors \in Nat /\ Len(d.parts) = Len(parts) + d.ended
        /\ n = Len(d.parts) + 1 /\ n \in Nat /\ Len(points) <= Len(d.points)
    BY <1>2, ItemOf DEF Reading, StartRead, PartsRead, Grown, State
  <2> HIDE DEF n
  <2>2. PICK closed : closed = IF type = "Polygon" THEN RingClosed(d) ELSE d
    OBVIOUS
  <2>3. PICK ring \in Seq(Place) : ring = IF type = "Polygon" THEN Append(d.points, d.points[d.start]) ELSE d.points
    <3>1. d.points[d.start] \in Place
      BY <2>1, ItemOf
    <3> QED
      BY <2>1, <3>1, Appended
  <2>4. /\ closed \in State /\ closed.points = ring /\ closed.parts = d.parts /\ closed.start = d.start
        /\ closed.ended = d.ended /\ closed.exteriors = d.exteriors /\ closed.ok = d.ok
    <3>1. closed = [d EXCEPT !.points = ring]
      <4>1. CASE type = "Polygon"
        BY <2>2, <2>3, <4>1 DEF RingClosed
      <4>2. CASE type # "Polygon"
        BY <2>1, <2>2, <2>3, <4>2 DEF State
      <4> QED
        BY <4>1, <4>2
    <3> QED
      BY <2>1, <3>1 DEF State
  <2>5. Len(ring) \in Nat /\ Len(d.points) <= Len(ring)
    BY <2>1, <2>3
  <2>6. PICK role : role = Role(d, type)
    OBVIOUS
  <2>7. /\ type = "LineString" => role = "Line"
        /\ type = "Polygon" => role \in {"Exterior", "Hole"} /\ (d.exteriors = 0 => role = "Exterior")
    BY <2>6 DEF Role
  <2>8. PICK new : new = [role |-> role, coords |-> <<d.start - 1, Len(ring)>>]
    OBVIOUS
  <2>9. new \in PartRow /\ new.role = role /\ new.coords = <<d.start - 1, Len(ring)>>
    <3>1. PICK span \in Span : span = <<d.start - 1, Len(ring)>>
      <4>1. d.start - 1 \in Nat
        BY <2>1
      <4> QED
        BY <2>5, <4>1 DEF Span
    <3>2. role \in Roles
      BY <2>7 DEF Roles
    <3> QED
      BY <2>8, <3>1, <3>2 DEF PartRow
  <2>10. PICK more : more = Append(d.parts, new)
    OBVIOUS
  <2>11. /\ more \in Seq(PartRow) /\ Len(more) = n /\ more[n] = new
         /\ \A p \in 1..Len(d.parts) : more[p] = d.parts[p]
    <3>1. PICK old \in Seq(PartRow) : old = d.parts /\ n = Len(old) + 1
      BY <2>1
    <3>2. PICK row \in PartRow : row = new
      BY <2>9
    <3>3. /\ Append(old, row) \in Seq(PartRow) /\ Len(Append(old, row)) = Len(old) + 1
          /\ Append(old, row)[Len(old) + 1] = row
          /\ \A p \in 1..Len(old) : Append(old, row)[p] = old[p]
      BY Appended
    <3> QED
      BY <2>10, <3>1, <3>2, <3>3
  <2>12. PICK e : e = EndPart(d, type)
    OBVIOUS
  <2>13. PICK exteriors \in Nat : exteriors = d.exteriors + IF role = "Exterior" THEN 1 ELSE 0
    BY <2>1
  <2>14. PICK ended \in Nat : ended = d.ended + 1
    BY <2>1
  <2>15. e = [closed EXCEPT !.start = 0, !.ended = ended, !.exteriors = exteriors, !.parts = more]
    BY <1>2, <2>2, <2>4, <2>6, <2>8, <2>10, <2>12, <2>13, <2>14 DEF EndPart, AddedPart
  <2>16. /\ e \in State /\ e.points = ring /\ e.parts = more /\ e.start = 0 /\ e.ended = ended
         /\ e.exteriors = exteriors /\ e.ok
    BY <2>4, <2>11, <2>15 DEF State
  <2>17. Grown(e)
    <3>1. /\ \A p \in 1..Len(parts) : d.parts[p] = parts[p]
          /\ \A p \in 1..Len(d.parts) : IsRange(d.parts[p].coords, d.points) /\ d.parts[p].coords \in Span
      <4>1. \A p \in 1..Len(d.parts) : d.parts[p] \in PartRow
        BY <2>1, ItemOf
      <4> QED
        BY <4>1 DEF Reading, StartRead, PartsRead, Grown, PartRow
    <3>2. \A p \in 1..Len(more) : IsRange(more[p].coords, ring)
      <4> TAKE p \in 1..Len(more)
      <4>1. CASE p \in 1..Len(d.parts)
        <5>1. PICK low, high \in Nat : <<low, high>> = d.parts[p].coords
          <6>1. d.parts[p].coords \in Span
            BY <3>1, <4>1
          <6> QED
            BY <6>1 DEF Span
        <5>2. low <= high /\ high <= Len(d.points) /\ more[p].coords = <<low, high>>
          BY <2>11, <3>1, <4>1, <5>1 DEF IsRange
        <5> QED
          BY <2>1, <2>5, <5>2 DEF IsRange
      <4>2. CASE p = n
        <5>1. more[p].coords = <<d.start - 1, Len(ring)>>
          BY <2>9, <2>11, <4>2
        <5>2. 0 <= d.start - 1 /\ d.start - 1 <= Len(ring)
          BY <2>1, <2>5
        <5> QED
          BY <2>5, <5>1, <5>2 DEF IsRange
      <4> QED
        BY <2>1, <2>11, <4>1, <4>2
    <3> QED
      <4>1. Len(more) = Len(parts) + ended
        BY <2>1, <2>11, <2>14
      <4>2. \A p \in 1..Len(parts) : more[p] = parts[p]
        <5>1. \A p \in 1..Len(parts) : p \in 1..Len(d.parts)
          BY <2>1
        <5> QED
          BY <2>11, <3>1, <5>1
      <4>3. Len(points) <= Len(ring)
        BY <2>1, <2>5
      <4>4. \A i \in 1..Len(points) : ring[i] = points[i]
        <5>1. \A i \in 1..Len(d.points) : ring[i] = d.points[i]
          BY <2>1, <2>3, ItemOf, Appended
        <5>2. \A i \in 1..Len(points) : i \in 1..Len(d.points)
          BY <2>1
        <5> QED
          BY <5>1, <5>2 DEF Reading, Grown
      <4> QED
        BY <2>16, <3>2, <4>1, <4>2, <4>3, <4>4 DEF Grown
  <2>18. /\ New(e) = New(d) \cup {n} /\ n \notin New(d)
         /\ \A p \in New(d) : p \in 1..Len(d.parts)
    <3>1. PICK first, last \in Nat : first = Len(parts) + 1 /\ last = Len(d.parts)
      BY <2>1
    <3>2. n = last + 1 /\ first <= n /\ Len(e.parts) = n /\ 1 <= first
      <4>1. e.parts = more /\ Len(more) = n
        BY <2>11, <2>16
      <4>2. n = last + 1
        BY <2>1, <3>1
      <4>3. Len(d.parts) = Len(parts) + d.ended /\ d.ended \in Nat
        BY <2>1
      <4>4. first <= last + 1 /\ 1 <= first
        BY <3>1, <4>3
      <4> QED
        BY <4>1, <4>2, <4>4
    <3>3. first..n = (first..last) \cup {n} /\ n \notin first..last /\ \A p \in first..last : p \in 1..last
      BY <3>2
    <3> QED
      BY <3>1, <3>2, <3>3 DEF New
  <2>19. CASE type = "LineString"
    <3>1. \A p \in New(e) : e.parts[p].role = "Line"
      BY <2>7, <2>9, <2>11, <2>16, <2>18, <2>19 DEF Reading, StartRead, PartsRead
    <3> QED
      BY <2>5, <2>12, <2>16, <2>17, <2>19, <3>1 DEF Reading, StartRead, PartsRead
  <2>20. CASE type = "Polygon"
    <3>1. \A p \in New(e) : e.parts[p].role \in {"Exterior", "Hole"}
      BY <2>7, <2>9, <2>11, <2>16, <2>18, <2>20 DEF Reading, StartRead, PartsRead
    <3>2. e.exteriors # 0 /\ e.ended # 0
      <4>1. d.exteriors # 0 \/ role = "Exterior"
        BY <2>7, <2>20
      <4>2. d.exteriors \in Nat /\ d.ended \in Nat
        BY <2>1
      <4>3. exteriors # 0 /\ ended # 0
        BY <2>13, <2>14, <4>1, <4>2
      <4>4. e.exteriors = exteriors /\ e.ended = ended
        BY <2>16
      <4> QED
        BY <4>3, <4>4
    <3>3. e.parts[Len(parts) + 1].role = "Exterior"
      <4>1. CASE d.ended = 0
        <5>1. n = Len(parts) + 1 /\ d.exteriors = 0
          BY <2>20, <4>1 DEF n, Reading, StartRead, PartsRead
        <5> QED
          BY <2>7, <2>9, <2>11, <2>16, <2>20, <5>1
      <4>2. CASE d.ended # 0
        <5>1. Len(parts) + 1 \in 1..Len(d.parts) /\ d.parts[Len(parts) + 1].role = "Exterior"
          BY <2>1, <2>20, <4>2 DEF Reading, StartRead, PartsRead
        <5> QED
          BY <2>11, <2>16, <5>1
      <4> QED
        BY <4>1, <4>2
    <3>4. ASSUME e.exteriors = 1
          PROVE  {p \in New(e) : e.parts[p].role = "Exterior"} = {Len(parts) + 1}
      <4>1. CASE role = "Exterior"
        <5>1. d.exteriors = 0
          BY <2>1, <2>13, <2>16, <3>4, <4>1
        <5>2. d.ended = 0
          BY <2>20, <5>1 DEF Reading, StartRead, PartsRead
        <5>3. New(d) = {} /\ n = Len(parts) + 1
          BY <2>1, <5>2 DEF New, n
        <5> QED
          BY <2>9, <2>11, <2>16, <2>18, <4>1, <5>3
      <4>2. CASE role # "Exterior"
        <5>1. d.exteriors = 1
          BY <2>1, <2>13, <2>16, <3>4, <4>2
        <5>2. {p \in New(d) : d.parts[p].role = "Exterior"} = {Len(parts) + 1}
          BY <2>20, <5>1 DEF Reading, StartRead, PartsRead
        <5>3. \A p \in New(e) : e.parts[p].role = "Exterior" <=> p \in New(d) /\ d.parts[p].role = "Exterior"
          BY <2>9, <2>11, <2>16, <2>18, <4>2
        <5> QED
          BY <2>18, <5>2, <5>3
      <4> QED
        BY <4>1, <4>2
    <3>5. ASSUME {p \in New(e) : e.parts[p].role = "Exterior"} = {Len(parts) + 1}
          PROVE  e.exteriors = 1
      <4>1. CASE role = "Exterior"
        <5>1. n \in New(e) /\ e.parts[n].role = "Exterior"
          BY <2>9, <2>11, <2>16, <2>18, <4>1
        <5>2. n = Len(parts) + 1
          BY <3>5, <5>1
        <5>3. d.ended = 0
          BY <2>1, <5>2 DEF n
        <5>4. d.exteriors = 0
          BY <2>20, <5>3 DEF Reading, StartRead, PartsRead
        <5> QED
          BY <2>13, <2>16, <4>1, <5>4
      <4>2. CASE role # "Exterior"
        <5>1. d.exteriors # 0
          BY <2>7, <2>20, <4>2
        <5>2. \A p \in New(e) : e.parts[p].role = "Exterior" <=> p \in New(d) /\ d.parts[p].role = "Exterior"
          BY <2>9, <2>11, <2>16, <2>18, <4>2
        <5>3. {p \in New(d) : d.parts[p].role = "Exterior"} = {Len(parts) + 1}
          BY <2>18, <3>5, <5>2
        <5>4. d.exteriors = 1
          BY <2>20, <5>3 DEF Reading, StartRead, PartsRead
        <5> QED
          BY <2>13, <2>16, <4>2, <5>4
      <4> QED
        BY <4>1, <4>2
    <3> QED
      BY <2>5, <2>12, <2>16, <2>17, <2>20, <3>1, <3>2, <3>3, <3>4, <3>5 DEF Reading, StartRead, PartsRead
  <2> QED
    BY <2>19, <2>20, <2>12, <2>16
<1> QED
  BY <1>1, <1>2

-----------------------------------------------------------------------------
(* The commands, one after another.                                         *)

LEMMA ExtendedReads ==
  ASSUME NEW d, NEW type, NEW path \in Seq(Place), NEW e, Grown(d), Extended(e, d, path),
         d.ok => PartsRead(d, type)
  PROVE  /\ Grown(e) /\ (e.ok => PartsRead(e, type))
         /\ Len(path) \in Nat /\ Len(e.points) = Len(d.points) + Len(path)
<1>1. PICK n \in Nat :
        /\ n = Len(path) /\ Len(e.points) = Len(d.points) + n /\ Len(d.points) \in Nat
        /\ \A i \in 1..Len(d.points) : e.points[i] = d.points[i]
  <2>1. d.points \in Seq(Place) /\ e.points = d.points \o path
    BY DEF Extended, Grown, State
  <2> QED
    BY <2>1
<1>4. /\ e \in State /\ e.parts = d.parts /\ e.ended = d.ended
      /\ e.exteriors = d.exteriors /\ e.ok = d.ok
  BY DEF Extended
<1>2. Grown(e)
  <2>1. ASSUME NEW p \in 1..Len(d.parts)
        PROVE  IsRange(d.parts[p].coords, e.points)
    <3>1. d.parts[p] \in PartRow
      BY ItemOf DEF Grown, State
    <3>2. PICK low, high \in Nat : <<low, high>> = d.parts[p].coords
      BY <3>1 DEF PartRow, Span
    <3>3. low <= high /\ high <= Len(d.points)
      BY <3>2 DEF Grown, IsRange
    <3> QED
      BY <1>1, <3>2, <3>3 DEF IsRange
  <2>2. Len(points) <= Len(e.points)
    <3>1. Len(points) <= Len(d.points) /\ Len(points) \in Nat
      BY DEF Grown
    <3> QED
      BY <1>1, <3>1
  <2>3. \A i \in 1..Len(points) : i \in 1..Len(d.points)
    BY <1>1 DEF Grown
  <2> QED
    BY <1>1, <1>4, <2>1, <2>2, <2>3 DEF Grown
<1>3. New(e) = New(d)
  BY <1>4 DEF New
<1> QED
  BY <1>1, <1>2, <1>3, <1>4 DEF PartsRead

\* ReadCoords from a state whose part has started, maybe at the next coordinate.
LEMMA ReadCoordsReads ==
  ASSUME NEW d, NEW type \in MvtTypes, NEW command \in Command, Grown(d), d.ok, PartsRead(d, type),
         IF type = "Point" THEN d.start = Len(points) + 1
         ELSE d.start <= Len(d.points) + 1 /\ (d.start <= Len(d.points) \/ command.count = 1)
  PROVE  Reading(ReadCoords(d, command), type)
<1>1. d \in State /\ Len(d.points) \in Nat /\ command.count \in Nat /\ d.start \in Nat
  BY ItemOf DEF Grown, State, Command
<1>2. PICK n \in Nat, path \in Seq(Place) :
        n = Len(command.deltas) /\ n = Len(path) /\ path = Along(d.cursor, command.deltas)
  BY <1>1, ReadCoordsExtends
<1> DEFINE e == ReadCoords(d, command)
<1> SUFFICES Reading(e, type)
  OBVIOUS
<1>3. /\ n >= command.count => Extended(e, d, path)
      /\ n < command.count => \E g : Extended(g, d, path) /\ e = Failed(g)
  BY <1>1, <1>2, ReadCoordsExtends
<1> HIDE DEF e
<1>4. CASE n >= command.count
  <2>1. Extended(e, d, path)
    BY <1>3, <1>4
  <2>2. Grown(e) /\ PartsRead(e, type) /\ Len(e.points) = Len(d.points) + n /\ e.start = d.start
    <3>1. e.ok /\ e.start = d.start
      BY <2>1 DEF Extended
    <3>2. d.ok => PartsRead(d, type)
      OBVIOUS
    <3>3. Grown(e) /\ (e.ok => PartsRead(e, type)) /\ Len(e.points) = Len(d.points) + Len(path)
      BY <2>1, <3>2, ExtendedReads
    <3> QED
      BY <1>2, <3>1, <3>3
  <2>3. StartRead(e, type)
    <3>1. CASE type = "Point"
      BY <2>2, <3>1 DEF StartRead, Grown
    <3>2. CASE type # "Point"
      <4>1. d.start <= Len(d.points) + n
        BY <1>1, <1>4, <3>2
      <4> QED
        BY <2>2, <3>2, <4>1 DEF StartRead
    <3> QED
      BY <3>1, <3>2
  <2> QED
    BY <2>2, <2>3 DEF Reading
<1>5. CASE n < command.count
  <2>1. PICK g : Extended(g, d, path) /\ e = Failed(g)
    BY <1>3, <1>5
  <2>2. Grown(g)
    BY <2>1, ExtendedReads
  <2> QED
    BY <2>1, <2>2, FailedReads
<1> QED
  BY <1>1, <1>2, <1>4, <1>5

LEMMA StartedFacts ==
  ASSUME NEW d, NEW type, Grown(d), d.ok, PartsRead(d, type)
  PROVE  LET e == Started(d) IN
         /\ Grown(e) /\ e.ok /\ PartsRead(e, type) /\ e.points = d.points
         /\ e.start = IF d.start = 0 THEN Len(d.points) + 1 ELSE d.start
<1>1. CASE d.start # 0
  BY <1>1 DEF Started
<1>2. CASE d.start = 0
  <2>1. PICK e : e = Started(d)
    OBVIOUS
  <2>2. PICK start \in Nat : start = Len(d.points) + 1
    BY ItemOf DEF Grown, State
  <2>3. e = [d EXCEPT !.start = start]
    BY <1>2, <2>1, <2>2 DEF Started
  <2>4. /\ e \in State /\ e.points = d.points /\ e.parts = d.parts /\ e.ended = d.ended
        /\ e.exteriors = d.exteriors /\ e.ok /\ e.start = start
    BY <2>3 DEF Grown, State
  <2>5. Grown(e) /\ New(e) = New(d)
    BY <2>4 DEF Grown, New
  <2> QED
    BY <1>2, <2>1, <2>2, <2>4, <2>5 DEF PartsRead
<1> QED
  BY <1>1, <1>2

LEMMA StepReads ==
  ASSUME BufferTypes, NEW type \in MvtTypes, NEW d, Reading(d, type), NEW command \in Command
  PROVE  Reading(Step(type, d, command), type)
<1>1. Len(points) \in Nat /\ Len(parts) \in Nat
  BY ItemOf DEF BufferTypes
<1>2. Grown(d) /\ d \in State /\ d.ok \in BOOLEAN /\ Len(d.points) \in Nat /\ d.start \in Nat
  BY ItemOf DEF Reading, Grown, State
<1>3. Reading(Failed(d), type)
  BY <1>2, FailedReads
<1>4. CASE ~d.ok
  BY <1>4 DEF Step
<1>5. CASE d.ok /\ command.op = "MoveTo" /\ type = "Point"
  <2>1. /\ PartsRead(d, type) /\ (d.start = 0 => Len(d.points) = Len(points))
        /\ (d.start # 0 => d.start = Len(points) + 1)
    BY <1>5 DEF Reading, StartRead
  <2>2. PICK e : e = Started(d)
    OBVIOUS
  <2>3. Grown(e) /\ e.ok /\ PartsRead(e, type) /\ e.start = Len(points) + 1
    BY <1>2, <1>5, <2>1, <2>2, StartedFacts
  <2>4. Reading(ReadCoords(e, command), type)
    BY <1>5, <2>3, ReadCoordsReads
  <2> QED
    BY <1>5, <2>2, <2>4 DEF Step
<1>6. CASE d.ok /\ command.op = "MoveTo" /\ type # "Point"
  <2>1. CASE command.count # 1
    BY <1>3, <1>6, <2>1 DEF Step
  <2>2. CASE command.count = 1
    <3>1. PICK e : e = EndPart(d, type)
      OBVIOUS
    <3>2. Reading(e, type) /\ e.ok /\ e.start = 0
      BY <1>1, <1>6, <3>1, EndPartReads DEF MvtTypes
    <3>3. PICK g : g = Started(e)
      OBVIOUS
    <3>4. /\ Grown(g) /\ g.ok /\ PartsRead(g, type) /\ g.points = e.points
          /\ g.start = Len(e.points) + 1
      BY <3>2, <3>3, StartedFacts DEF Reading
    <3>5. Len(e.points) \in Nat
      BY <3>2, ItemOf DEF Reading, Grown, State
    <3>6. Reading(ReadCoords(g, command), type)
      BY <1>6, <2>2, <3>4, <3>5, ReadCoordsReads
    <3> QED
      BY <1>6, <2>2, <3>1, <3>3, <3>6 DEF Step
  <2> QED
    BY <2>1, <2>2
<1>7. CASE d.ok /\ command.op = "LineTo"
  <2>1. CASE type = "Point" \/ d.start = 0
    BY <1>3, <1>7, <2>1 DEF Step
  <2>2. CASE ~(type = "Point" \/ d.start = 0)
    <3>1. PartsRead(d, type) /\ d.start <= Len(d.points)
      BY <1>7, <2>2 DEF Reading, StartRead
    <3>2. Reading(ReadCoords(d, command), type)
      BY <1>2, <1>7, <2>2, <3>1, ReadCoordsReads
    <3> QED
      BY <1>7, <2>2, <3>2 DEF Step
  <2> QED
    BY <2>1, <2>2
<1>8. CASE d.ok /\ command.op = "ClosePath"
  BY <1>3, <1>8 DEF Step
<1>9. CASE d.ok /\ command.op \notin {"MoveTo", "LineTo", "ClosePath"}
  BY <1>3, <1>9 DEF Step
<1> QED
  BY <1>2, <1>4, <1>5, <1>6, <1>7, <1>8, <1>9

\* The recursion of Decoded has a solution.
StepsUpTo(after, type, commands, n) ==
    after = [m \in 0..n |-> IF m = 0 THEN Decoding ELSE Step(type, after[m - 1], commands[m])]

LEMMA StepsExist ==
  ASSUME NEW type, NEW commands
  PROVE  \A n \in Nat : \E after : StepsUpTo(after, type, commands, n)
<1> DEFINE S == {n \in Nat : \E after : StepsUpTo(after, type, commands, n)}
<1>1. 0 \in S
  <2>1. StepsUpTo([m \in 0..0 |-> Decoding], type, commands, 0)
    BY DEF StepsUpTo
  <2> QED
    BY <2>1
<1>2. ASSUME NEW n \in Nat, n \in S
      PROVE  n + 1 \in S
  <2>1. PICK g : StepsUpTo(g, type, commands, n)
    BY <1>2
  <2> DEFINE h == [m \in 0..(n + 1) |->
                     IF m = n + 1 THEN Step(type, g[n], commands[n + 1]) ELSE g[m]]
  <2>2. ASSUME NEW m \in 0..(n + 1)
        PROVE  h[m] = IF m = 0 THEN Decoding ELSE Step(type, h[m - 1], commands[m])
    <3>1. CASE m = n + 1
      <4>1. h[m] = Step(type, g[n], commands[n + 1])
        BY <3>1
      <4>2. m # 0 /\ h[m - 1] = g[n]
        BY <3>1
      <4> QED
        BY <3>1, <4>1, <4>2
    <3>2. CASE m # n + 1
      <4>1. m \in 0..n /\ h[m] = g[m] /\ (m # 0 => m - 1 \in 0..n /\ h[m - 1] = g[m - 1])
        BY <3>2
      <4>2. g[m] = IF m = 0 THEN Decoding ELSE Step(type, g[m - 1], commands[m])
        BY <2>1, <4>1 DEF StepsUpTo
      <4> QED
        BY <4>1, <4>2
    <3> QED
      BY <3>1, <3>2
  <2>3. StepsUpTo(h, type, commands, n + 1)
    BY <2>2 DEF StepsUpTo
  <2> QED
    BY <2>3
<1> HIDE DEF S
<1>3. Nat \subseteq S
  BY <1>1, <1>2, Induction
<1> QED
  BY <1>3 DEF S

\* What Decoded makes of the list before it decides on the type.
Ended(d, type) == IF d.ok THEN EndPart(d, type) ELSE d

Count(end, type) ==
    CASE type = "Point" -> Len(end.points) - Len(points)
      [] type = "LineString" -> end.ended
      [] type = "Polygon" -> end.exteriors

Decided(end, type) ==
    [end EXCEPT !.ok = @ /\ Count(end, type) > 0, !.single = (Count(end, type) = 1)]

LEMMA CommandsRead ==
  ASSUME BufferTypes, BufferTypeOK, NEW input \in Inputs
  PROVE  \E d : Reading(d, input.type) /\ Decoded(input) = Decided(Ended(d, input.type), input.type)
<1>1. PICK type \in MvtTypes, commands \in Seq(Command) : type = input.type /\ commands = input.commands
  BY BufferAssumption DEF MvtTypes
<1>2. PICK N \in Nat : N = Len(commands) /\ \A i \in 1..N : commands[i] \in Command
  BY ItemOf
<1> DEFINE after == CHOOSE after : StepsUpTo(after, type, commands, N)
<1>3. Decoded(input) = Decided(Ended(after[N], type), type)
  BY <1>1, <1>2 DEF Decoded, Decided, StepsUpTo, Ended, Count
<1>4. StepsUpTo(after, type, commands, N)
  <2>1. \E g : StepsUpTo(g, type, commands, N)
    BY <1>2, StepsExist
  <2> QED
    BY <2>1
<1> HIDE DEF after
<1> DEFINE S == {n \in Nat : n <= N => Reading(after[n], type)}
<1>5. 0 \in S
  <2>1. after[0] = Decoding
    BY <1>2, <1>4 DEF StepsUpTo
  <2> QED
    BY <2>1, DecodingReads
<1>6. ASSUME NEW n \in Nat, n \in S
      PROVE  n + 1 \in S
  <2> SUFFICES ASSUME n + 1 <= N PROVE Reading(after[n + 1], type)
    OBVIOUS
  <2>1. after[n + 1] = Step(type, after[n], commands[n + 1])
    <3>1. \A m \in 0..N : after[m] = IF m = 0 THEN Decoding ELSE Step(type, after[m - 1], commands[m])
      BY <1>4 DEF StepsUpTo
    <3>2. n + 1 \in 0..N /\ n + 1 # 0 /\ (n + 1) - 1 = n
      BY <1>2
    <3> QED
      BY <3>1, <3>2
  <2>2. Reading(after[n], type) /\ commands[n + 1] \in Command
    BY <1>2, <1>6
  <2> QED
    BY <2>1, <2>2, StepReads
<1> HIDE DEF S
<1>7. Reading(after[N], type)
  <2>1. N \in S
    BY <1>2, <1>5, <1>6, Induction
  <2> QED
    BY <2>1 DEF S
<1> QED
  BY <1>1, <1>3, <1>7

\* What decode_mvt leaves: the list it was given with parts that fit behind it, if the
\* commands were well-formed.
DecodedFits(d, type) ==
    /\ d.ok \in BOOLEAN /\ d.single \in BOOLEAN
    /\ d.points \in Seq(Place) /\ Len(points) <= Len(d.points)
    /\ \A i \in 1..Len(points) : d.points[i] = points[i]
    /\ d.parts \in Seq(PartRow) /\ Len(parts) <= Len(d.parts)
    /\ \A p \in 1..Len(parts) : d.parts[p] = parts[p]
    /\ \A p \in 1..Len(d.parts) : IsRange(d.parts[p].coords, d.points)
    /\ d.ok => Fit(d.parts, <<Len(parts), Len(d.parts)>>, GeometryType(type, d.single))

LEMMA DecidedFits ==
  ASSUME NEW type, NEW end, Grown(end), Len(parts) \in Nat,
         end.ok /\ Count(end, type) > 0 =>
           Fit(end.parts, <<Len(parts), Len(end.parts)>>, GeometryType(type, Count(end, type) = 1))
  PROVE  DecodedFits(Decided(end, type), type)
<1> DEFINE decided == Decided(end, type)
           ok == end.ok /\ Count(end, type) > 0
           single == Count(end, type) = 1
<1>1. ok \in BOOLEAN /\ single \in BOOLEAN
  OBVIOUS
<1>2. decided = [end EXCEPT !.ok = ok, !.single = single]
  BY DEF Decided
<1>3. (ok <=> end.ok /\ Count(end, type) > 0) /\ (single <=> Count(end, type) = 1)
  OBVIOUS
<1> HIDE DEF decided, ok, single
<1>4. /\ decided \in State /\ decided.points = end.points /\ decided.parts = end.parts
      /\ decided.ok = ok /\ decided.single = single
  BY <1>1, <1>2 DEF Grown, State
<1>5. Len(parts) <= Len(end.parts)
  <2>1. end.ended \in Nat /\ Len(end.parts) = Len(parts) + end.ended
    BY DEF Grown, State
  <2> QED
    BY <2>1
<1>6. ok => Fit(end.parts, <<Len(parts), Len(end.parts)>>, GeometryType(type, single))
  BY <1>3 DEF ok, single
<1>7. DecodedFits(decided, type)
  BY <1>1, <1>4, <1>5, <1>6 DEF DecodedFits, Grown, State
<1> QED
  BY <1>7 DEF decided

LEMMA DecodedIsFit ==
  ASSUME BufferTypes, BufferTypeOK, NEW input \in Inputs
  PROVE  DecodedFits(Decoded(input), input.type)
<1>1. PICK type \in MvtTypes : type = input.type
  BY BufferAssumption DEF MvtTypes
<1>2. PICK P, Q \in Nat : P = Len(points) /\ Q = Len(parts)
  BY ItemOf DEF BufferTypes
<1>3. PICK d : Reading(d, type) /\ Decoded(input) = Decided(Ended(d, type), type)
  BY <1>1, CommandsRead
<1>4. PICK end : end = Ended(d, type)
  OBVIOUS
<1>5. d \in State /\ Grown(d) /\ Len(d.points) \in Nat /\ Len(d.parts) \in Nat
  BY <1>3, ItemOf DEF Reading, Grown, State
<1>6. CASE ~d.ok
  <2>1. end = d
    BY <1>4, <1>6 DEF Ended
  <2> QED
    BY <1>1, <1>2, <1>3, <1>4, <1>5, <1>6, <2>1, DecidedFits
<1>7. CASE d.ok /\ type # "Point"
  <2>1. Reading(end, type) /\ end.ok
    BY <1>2, <1>3, <1>4, <1>7, EndPartReads DEF Ended, MvtTypes
  <2>2. /\ Grown(end) /\ end.ended \in Nat /\ end.exteriors \in Nat /\ Len(end.parts) = Q + end.ended
        /\ Len(end.parts) \in Nat
    BY <1>2, <2>1, ItemOf DEF Reading, Grown, State
  <2>3. PICK count \in Nat : count = Count(end, type)
    BY <1>7, <2>2 DEF Count, MvtTypes
  <2>4. ASSUME count > 0
        PROVE  Fit(end.parts, <<Q, Len(end.parts)>>, GeometryType(type, count = 1))
    <3>1. PICK shape \in GeoTypes : shape = GeometryType(type, count = 1)
      BY <1>7, TypeFacts DEF MvtTypes, GeoTypes
    <3>2. CASE type = "LineString"
      <4>1. count = end.ended /\ \A p \in (Q + 1)..Len(end.parts) : end.parts[p].role = "Line"
        BY <1>2, <2>1, <2>3, <3>2 DEF Count, Reading, PartsRead, New
      <4>2. Q + 1 \in (Q + 1)..Len(end.parts) /\ (count = 1 => (Q + 1)..Len(end.parts) = {Q + 1})
        BY <1>2, <2>2, <2>4, <4>1
      <4>3. shape = IF count = 1 THEN "LineString" ELSE "MultiLineString"
        BY <3>1, <3>2, TypeFacts DEF MvtTypes
      <4> QED
        BY <3>1, <4>1, <4>2, <4>3, TypeFacts DEF Fit
    <3>3. CASE type = "Polygon"
      <4>1. /\ count = end.exteriors /\ end.ended # 0
            /\ \A p \in (Q + 1)..Len(end.parts) : end.parts[p].role \in {"Exterior", "Hole"}
            /\ end.parts[Q + 1].role = "Exterior"
            /\ count = 1 => {p \in (Q + 1)..Len(end.parts) : end.parts[p].role = "Exterior"} = {Q + 1}
        BY <1>2, <2>1, <2>2, <2>3, <2>4, <3>3 DEF Count, Reading, PartsRead, New
      <4>2. Q + 1 \in (Q + 1)..Len(end.parts)
        BY <1>2, <2>2, <4>1
      <4>3. shape = IF count = 1 THEN "Polygon" ELSE "MultiPolygon"
        BY <3>1, <3>3, TypeFacts DEF MvtTypes
      <4> QED
        BY <3>1, <4>1, <4>2, <4>3, TypeFacts DEF Fit
    <3> QED
      BY <1>7, <3>2, <3>3 DEF MvtTypes
  <2> QED
    BY <1>1, <1>2, <1>3, <1>4, <2>2, <2>3, <2>4, DecidedFits
<1>8. CASE d.ok /\ type = "Point"
  <2>1. /\ d.ended = 0 /\ (d.start = 0 => Len(d.points) = P) /\ (d.start # 0 => d.start = P + 1)
        /\ Len(d.parts) = Q /\ P <= Len(d.points)
    BY <1>2, <1>3, <1>5, <1>8 DEF Reading, StartRead, PartsRead, Grown
  <2>2. CASE d.start = 0
    <3>1. end = d
      BY <1>4, <1>8, <2>2 DEF Ended, EndPart
    <3>2. Count(end, type) = 0
      BY <1>2, <1>8, <2>1, <2>2, <3>1 DEF Count
    <3> QED
      <4>1. ~(Count(end, type) > 0)
        BY <3>2
      <4> QED
        BY <1>1, <1>2, <1>3, <1>4, <1>5, <3>1, <4>1, DecidedFits
  <2>3. CASE d.start # 0
    <3>1. PICK new \in PartRow : new = [role |-> "Points", coords |-> <<P, Len(d.points)>>]
      BY <1>2, <1>5 DEF PartRow, Roles, Span
    <3>2. PICK more : more = Append(d.parts, new)
      OBVIOUS
    <3>3. /\ more \in Seq(PartRow) /\ Len(more) = Q + 1 /\ more[Q + 1] = new
          /\ \A p \in 1..Q : more[p] = d.parts[p]
      BY <1>5, <2>1, <3>1, <3>2, Appended DEF State
    <3>4. end = [d EXCEPT !.start = 0, !.ended = 1, !.exteriors = @ + 0, !.parts = more]
      <4>1. Role(d, type) = "Points"
        BY <1>8 DEF Role
      <4>2. d.start - 1 = P /\ d.ended + 1 = 1
        BY <1>2, <2>1, <2>3
      <4> QED
        BY <1>4, <1>8, <2>3, <3>1, <3>2, <4>1, <4>2 DEF Ended, EndPart, AddedPart
    <3>5. /\ end \in State /\ end.points = d.points /\ end.parts = more /\ end.ended = 1 /\ end.ok
      <4>1. PICK exteriors \in Nat : exteriors = d.exteriors + 0
        BY <1>5 DEF State
      <4>2. end = [d EXCEPT !.start = 0, !.ended = 1, !.exteriors = exteriors, !.parts = more]
        BY <3>4, <4>1
      <4> QED
        BY <1>5, <1>8, <3>3, <4>1, <4>2 DEF State
    <3>6. Grown(end)
      <4>1. \A p \in 1..(Q + 1) : IsRange(more[p].coords, d.points)
        <5>1. IsRange(new.coords, d.points)
          BY <1>2, <1>5, <2>1, <3>1 DEF IsRange
        <5>2. \A p \in 1..Q : IsRange(d.parts[p].coords, d.points)
          BY <1>5, <2>1 DEF Grown
        <5>3. \A p \in 1..(Q + 1) : p \in 1..Q \/ p = Q + 1
          BY <1>2
        <5> QED
          BY <3>3, <5>1, <5>2, <5>3
      <4>2. \A p \in 1..Q : more[p] = parts[p]
        BY <1>2, <1>5, <3>3 DEF Grown
      <4>3. \A i \in 1..P : d.points[i] = points[i]
        BY <1>2, <1>5 DEF Grown
      <4> QED
        BY <1>2, <2>1, <3>3, <3>5, <4>1, <4>2, <4>3 DEF Grown
    <3>7. PICK count \in Nat : count = Len(d.points) - P
      <4>1. Len(d.points) - P \in Nat
        BY <1>2, <1>5, <2>1
      <4> QED
        BY <4>1
    <3>8. Count(end, type) = count
      BY <1>2, <1>8, <3>5, <3>7 DEF Count
    <3>9. Fit(end.parts, <<Q, Len(end.parts)>>, GeometryType(type, count = 1))
      <4>1. (Q + 1)..Len(end.parts) = {Q + 1}
        BY <1>2, <3>3, <3>5
      <4>2. end.parts[Q + 1].role = "Points" /\ end.parts[Q + 1].coords = <<P, Len(d.points)>>
        BY <3>1, <3>3, <3>5
      <4>3. PICK shape \in GeoTypes : /\ shape = GeometryType(type, count = 1)
                                        /\ shape = IF count = 1 THEN "Point" ELSE "MultiPoint"
        BY <1>8, TypeFacts DEF MvtTypes, GeoTypes
      <4>4. count = 1 => end.parts[Q + 1].coords[2] - end.parts[Q + 1].coords[1] = 1
        BY <3>7, <4>2
      <4> QED
        BY <4>1, <4>2, <4>3, <4>4, TypeFacts DEF Fit
    <3> QED
      BY <1>1, <1>2, <1>3, <1>4, <3>6, <3>8, <3>9, DecidedFits
  <2> QED
    BY <2>2, <2>3
<1> QED
  BY <1>5, <1>6, <1>7, <1>8 DEF State

-----------------------------------------------------------------------------
(* The calls of the builder.                                                *)

LEMMA RangeKept ==
  ASSUME NEW range \in Span, NEW a, NEW b, Len(a) \in Nat, Len(b) \in Nat, Len(a) <= Len(b),
         IsRange(range, a)
  PROVE  IsRange(range, b)
<1>1. PICK low, high \in Nat : range = <<low, high>>
  BY DEF Span
<1>2. low <= high /\ high <= Len(b)
  BY <1>1 DEF IsRange
<1> QED
  BY <1>1, <1>2 DEF IsRange

LEMMA FitKept ==
  ASSUME NEW old, NEW new, NEW range, NEW type, Fit(old, range, type),
         \A p \in (range[1] + 1)..range[2] : new[p] = old[p]
  PROVE  Fit(new, range, type)
<1> DEFINE own == (range[1] + 1)..range[2]
<1>1. {p \in own : new[p].role = "Exterior"} = {p \in own : old[p].role = "Exterior"}
  OBVIOUS
<1>2. range[1] + 1 \in own /\ new[range[1] + 1] = old[range[1] + 1]
  BY DEF Fit
<1> QED
  BY <1>1, <1>2 DEF Fit

\* What the ranges of the lists say, row by row.
LEMMA RowFacts ==
  ASSUME LInv
  PROVE  /\ Len(parts) \in Nat /\ Len(points) \in Nat /\ Len(values) \in Nat /\ Len(strings) \in Nat
         /\ Len(names) \in Nat /\ Len(features) \in Nat
         /\ DOMAIN features = 1..Len(features) /\ DOMAIN names = 1..Len(names)
         /\ DOMAIN values = 1..Len(values) /\ DOMAIN parts = 1..Len(parts)
         /\ \A f \in DOMAIN features :
              /\ features[f] \in FeatureRow
              /\ IsRange(features[f].parts, parts) /\ IsRange(features[f].values, values)
              /\ Fit(parts, features[f].parts, features[f].type)
         /\ \A p \in DOMAIN parts : parts[p] \in PartRow /\ IsRange(parts[p].coords, points)
         /\ \A v \in DOMAIN values :
              /\ values[v] \in [key : Nat, value : Stored]
              /\ values[v].key \in DOMAIN names
              /\ values[v].value.kind = "Str" => IsRange(values[v].value.range, strings)
<1>1. BufferTypes /\ BufferTypeOK /\ PartsFit
  BY DEF LInv
<1>2. /\ DOMAIN features = 1..Len(features) /\ Len(features) \in Nat
      /\ \A f \in DOMAIN features : features[f] \in FeatureRow
  BY <1>1, ItemOf DEF BufferTypes
<1>3. /\ DOMAIN parts = 1..Len(parts) /\ Len(parts) \in Nat
      /\ \A p \in DOMAIN parts : parts[p] \in PartRow
  BY <1>1, ItemOf DEF BufferTypes
<1>4. /\ DOMAIN values = 1..Len(values) /\ Len(values) \in Nat
      /\ \A v \in DOMAIN values : values[v] \in [key : Nat, value : Stored]
  BY <1>1, ItemOf DEF BufferTypes
<1>5. /\ DOMAIN names = 1..Len(names) /\ Len(names) \in Nat /\ Len(points) \in Nat /\ Len(strings) \in Nat
  BY <1>1, ItemOf DEF BufferTypes
<1> QED
  BY <1>1, <1>2, <1>3, <1>4, <1>5 DEF BufferTypeOK, PartsFit

LEMMA PromisedIsPromise ==
  ASSUME NEW input \in Inputs, NEW id \in Ids \cup {NoId}
  PROVE  Promised(input, id) \in Promise
<1>1. PICK unset \in [Names -> Raws \cup {NoValue}] : unset = [name \in Names |-> NoValue]
  OBVIOUS
<1>2. Promised(input, id) = [input |-> input, id |-> id, values |-> unset]
  BY <1>1 DEF Promised
<1> QED
  BY <1>2 DEF Promise

LEMMA BeginHolds ==
  ASSUME LInv, NEW input \in Inputs, NEW id \in Ids \cup {NoId}, Begin(input, id)
  PROVE  LInv'
<1>1. PICK d : d = Decoded(input)
  OBVIOUS
<1>2. DecodedFits(d, input.type)
  BY <1>1, DecodedIsFit DEF LInv
<1>3. PICK P, Q, V \in Nat : P = Len(points) /\ Q = Len(parts) /\ V = Len(values)
  BY RowFacts
<1>4. BufferTypes /\ UNCHANGED <<names, kinds, values, strings>>
  BY DEF LInv, Begin
<1>5. Len(d.points) \in Nat /\ Len(d.parts) \in Nat /\ P <= Len(d.points) /\ Q <= Len(d.parts)
  BY <1>2, <1>3, ItemOf DEF DecodedFits
<1>6. KindsInv'
  BY <1>4 DEF LInv, KindsInv, KindsSet
<1>7. CASE d.ok
  <2>1. PICK shape \in GeoTypes : shape = GeometryType(input.type, d.single)
    BY <1>2, BufferAssumption, TypeFacts DEF MvtTypes, GeoTypes, DecodedFits
  <2>2. PICK new \in FeatureRow : new = [type |-> shape, id |-> id, parts |-> <<Q, Len(d.parts)>>,
                                         values |-> <<V, V>>]
    BY <1>5 DEF FeatureRow, Span
  <2>3. /\ points' = d.points /\ parts' = d.parts /\ features' = Append(features, new)
        /\ given' = Append(given, Promised(input, id))
    BY <1>1, <1>3, <1>7, <2>1, <2>2 DEF Begin
  <2>4. PICK N \in Nat : /\ N = Len(features) /\ features' \in Seq(FeatureRow) /\ Len(features') = N + 1
                         /\ DOMAIN features' = 1..(N + 1) /\ features'[N + 1] = new
                         /\ \A f \in 1..N : features'[f] = features[f]
    <3>1. features \in Seq(FeatureRow)
      BY <1>4 DEF BufferTypes
    <3> QED
      BY <2>3, <3>1, Appended, ItemOf
  <2>5. given' \in Seq(Promise) /\ Len(given') = N + 1
    <3>1. given \in Seq(Promise) /\ Len(given) = N
      BY <1>4, <2>4 DEF BufferTypes, LInv, BufferTypeOK
    <3> QED
      BY <2>3, <3>1, PromisedIsPromise, Appended
  <2>6. BufferTypes'
    BY <1>2, <1>4, <2>3, <2>4, <2>5 DEF BufferTypes, DecodedFits
  <2>7. \A f \in 1..(N + 1) : f \in 1..N \/ f = N + 1
    OBVIOUS
  <2>8. \A f \in DOMAIN features' :
          /\ features'[f].type \in GeoTypes
          /\ IsRange(features'[f].parts, d.parts) /\ IsRange(features'[f].values, values)
          /\ Fit(d.parts, features'[f].parts, features'[f].type)
    <3> TAKE f \in DOMAIN features'
    <3>1. CASE f \in 1..N
      <4>1. /\ features[f] \in FeatureRow /\ IsRange(features[f].parts, parts)
            /\ IsRange(features[f].values, values) /\ Fit(parts, features[f].parts, features[f].type)
        BY <2>4, <3>1, RowFacts
      <4>2. PICK low, high \in Nat : features[f].parts = <<low, high>>
        BY <4>1 DEF FeatureRow, Span
      <4>3. \A p \in (low + 1)..high : p \in 1..Q /\ d.parts[p] = parts[p]
        <5>1. high <= Q
          BY <1>3, <4>1, <4>2 DEF IsRange
        <5>2. \A p \in (low + 1)..high : p \in 1..Q
          BY <5>1
        <5> QED
          BY <1>2, <1>3, <5>2 DEF DecodedFits
      <4>4. Fit(d.parts, features[f].parts, features[f].type)
        BY <4>1, <4>2, <4>3, FitKept
      <4>5. IsRange(features[f].parts, d.parts)
        BY <1>3, <1>5, <4>1, RangeKept DEF FeatureRow
      <4> QED
        BY <2>4, <3>1, <4>1, <4>4, <4>5 DEF FeatureRow
    <3>2. CASE f = N + 1
      <4>1. IsRange(<<Q, Len(d.parts)>>, d.parts) /\ IsRange(<<V, V>>, values)
        BY <1>3, <1>5 DEF IsRange
      <4>2. Fit(d.parts, <<Q, Len(d.parts)>>, shape)
        BY <1>2, <1>3, <1>7, <2>1 DEF DecodedFits
      <4>3. /\ features'[f].type = shape /\ features'[f].parts = <<Q, Len(d.parts)>>
            /\ features'[f].values = <<V, V>>
        <5>1. features'[f] = new
          BY <2>4, <3>2
        <5> QED
          BY <2>2, <5>1
      <4> QED
        BY <4>1, <4>2, <4>3
    <3> QED
      BY <2>4, <2>7, <3>1, <3>2
  <2>9. \A p \in DOMAIN parts' : IsRange(parts'[p].coords, points')
    <3>1. DOMAIN d.parts = 1..Len(d.parts)
      BY <1>2, ItemOf DEF DecodedFits
    <3> QED
      BY <1>2, <2>3, <3>1 DEF DecodedFits
  <2>10. BufferTypeOK' /\ PartsFit'
    BY <1>4, <2>3, <2>4, <2>5, <2>8, <2>9, TypeFacts DEF LInv, BufferTypeOK, PartsFit, IsRange
  <2> QED
    BY <1>6, <2>6, <2>10 DEF LInv
<1>8. CASE ~d.ok
  <2>1. /\ points' = SubSeq(d.points, 1, P) /\ parts' = SubSeq(d.parts, 1, Q)
        /\ UNCHANGED <<features, given>>
    BY <1>1, <1>3, <1>8 DEF Begin
  <2>2. points' \in Seq(Place) /\ Len(points') = P
    BY <1>2, <1>3, <1>5, <2>1 DEF DecodedFits
  <2>3. parts' = parts
    <3>1. parts \in Seq(PartRow) /\ d.parts \in Seq(PartRow) /\ \A p \in 1..Q : d.parts[p] = parts[p]
      BY <1>2, <1>3, <1>4 DEF BufferTypes, DecodedFits
    <3> QED
      BY <1>3, <1>5, <2>1, <3>1
  <2>4. BufferTypes'
    BY <1>4, <2>1, <2>2, <2>3 DEF BufferTypes
  <2>5. BufferTypeOK' /\ PartsFit'
    BY <1>3, <1>4, <2>1, <2>2, <2>3 DEF LInv, BufferTypeOK, PartsFit, IsRange
  <2> QED
    BY <1>6, <2>4, <2>5 DEF LInv
<1> QED
  BY <1>2, <1>7, <1>8 DEF DecodedFits

-----------------------------------------------------------------------------
(* Values and kinds.                                                        *)

LEMMA MergeHolds ==
  ASSUME NEW set \in SUBSET PropKinds, NEW kind, Holds(kind, set), NEW new \in PropKinds
  PROVE  Holds(Merge(kind, new), set \cup {new}) /\ Merge(kind, new) \in PropKinds
<1>1. CASE set = {}
  <2>1. ~(\E a, b \in set : a # b) /\ set # {kind}
    BY <1>1
  <2>2. kind = "Unknown"
    BY <2>1 DEF Holds
  <2>3. Merge(kind, new) = new
    BY <2>2 DEF Merge, Numbers
  <2>4. set \cup {new} = {new}
    BY <1>1
  <2> QED
    BY <2>3, <2>4 DEF Holds
<1>2. CASE set = {kind}
  <2>1. CASE kind = new
    <3>1. Merge(kind, new) = new
      BY <2>1 DEF Merge
    <3> QED
      BY <1>2, <2>1, <3>1 DEF Holds
  <2>2. CASE kind # new
    <3>1. kind \in PropKinds /\ kind # "Unknown"
      BY <1>2 DEF PropKinds
    <3>2. Merge(kind, new) = IF {kind, new} \subseteq Numbers THEN "F64" ELSE "Str"
      BY <2>2, <3>1 DEF Merge
    <3>3. set \cup {new} = {kind, new}
      BY <1>2
    <3> QED
      BY <2>2, <3>2, <3>3 DEF Holds, PropKinds
  <2> QED
    BY <2>1, <2>2
<1>3. CASE \E a, b \in set : a # b
  <2>1. PICK a, b \in set : a # b
    BY <1>3
  <2>2. set # {} /\ set # {kind}
    BY <2>1
  <2>3. CASE set \subseteq Numbers
    <3>1. kind = "F64"
      BY <2>2, <2>3 DEF Holds
    <3>2. CASE new \in Numbers
      <4>1. Merge(kind, new) = "F64"
        BY <3>1, <3>2 DEF Merge, Numbers
      <4> QED
        BY <2>1, <2>3, <3>2, <4>1 DEF Holds, PropKinds
    <3>3. CASE new \notin Numbers
      <4>1. Merge(kind, new) = "Str"
        BY <3>1, <3>3 DEF Merge, Numbers
      <4>2. ~(set \cup {new} \subseteq Numbers)
        BY <3>3
      <4> QED
        BY <2>1, <4>1, <4>2 DEF Holds, PropKinds
    <3> QED
      BY <3>2, <3>3
  <2>4. CASE ~(set \subseteq Numbers)
    <3>1. kind = "Str"
      BY <2>2, <2>4 DEF Holds
    <3>2. Merge(kind, new) = "Str"
      BY <3>1 DEF Merge, Numbers
    <3>3. ~(set \cup {new} \subseteq Numbers)
      BY <2>4
    <3> QED
      BY <2>1, <3>2, <3>3 DEF Holds, PropKinds
  <2> QED
    BY <2>3, <2>4
<1> QED
  BY <1>1, <1>2, <1>3 DEF Holds

LEMMA KindsAreKinds ==
  ASSUME LInv, NEW key
  PROVE  KindsSet(key) \in SUBSET PropKinds
<1> SUFFICES ASSUME NEW v \in DOMAIN values PROVE values[v].value.kind \in PropKinds
  BY DEF KindsSet
<1>1. values[v].value \in Stored
  BY RowFacts
<1> QED
  BY <1>1, BufferAssumption DEF Stored, PropKinds

\* A value stored last, whose range, if it is a text, is in the strings.
LEMMA StoreHolds ==
  ASSUME LInv, NEW key \in DOMAIN names, NEW stored \in Stored, NEW raw \in Raws,
         stored.kind = raw.kind, features # <<>>, Store(key, stored, raw),
         UNCHANGED <<names, parts, points>>,
         strings' \in Seq(Letters), Len(strings) <= Len(strings'),
         stored.kind = "Str" => IsRange(stored.range, strings')
  PROVE  LInv'
<1>1. PICK N, V, M \in Nat : N = Len(features) /\ V = Len(values) /\ M = Len(names)
  BY RowFacts
<1>2. BufferTypes
  BY DEF LInv
<1>3. N \in 1..N
  BY <1>1, <1>2 DEF BufferTypes
<1>4. PICK new \in [key : Nat, value : Stored] : new = [key |-> key, value |-> stored]
  <2>1. key \in Nat
    BY RowFacts
  <2> QED
    BY <2>1
<1>5. /\ values' \in Seq([key : Nat, value : Stored]) /\ Len(values') = V + 1
      /\ DOMAIN values' = 1..(V + 1) /\ values'[V + 1] = new
      /\ \A v \in 1..V : values'[v] = values[v]
  <2>1. values' = Append(values, new) /\ values \in Seq([key : Nat, value : Stored])
    BY <1>2, <1>4 DEF Store, BufferTypes
  <2> QED
    BY <1>1, <2>1, Appended
<1>6. PICK feature \in FeatureRow : feature = features[N]
  BY <1>1, <1>3, RowFacts
<1>7. PICK low, high \in Nat : feature.values = <<low, high>> /\ low <= high /\ high <= V
  <2>1. feature.values \in Span /\ IsRange(feature.values, values)
    BY <1>1, <1>3, <1>6, RowFacts DEF FeatureRow
  <2> QED
    BY <1>1, <2>1 DEF Span, IsRange
<1>8. PICK more \in FeatureRow : /\ more = [feature EXCEPT !.values = <<low, V + 1>>]
                                 /\ more.values = <<low, V + 1>>
                                 /\ more.parts = feature.parts /\ more.type = feature.type
  <2>1. PICK span \in Span : span = <<low, V + 1>>
    <3>1. V + 1 \in Nat
      OBVIOUS
    <3>2. <<low, V + 1>> \in Span
      BY <3>1 DEF Span
    <3> QED
      BY <3>2
  <2>2. /\ [feature EXCEPT !.values = span] \in FeatureRow
        /\ [feature EXCEPT !.values = span].values = span
        /\ [feature EXCEPT !.values = span].parts = feature.parts
        /\ [feature EXCEPT !.values = span].type = feature.type
    BY DEF FeatureRow
  <2> QED
    BY <2>1, <2>2
<1>9. features' = [features EXCEPT ![N] = more]
  BY <1>1, <1>5, <1>6, <1>7, <1>8 DEF Store
<1>10. /\ features' \in Seq(FeatureRow) /\ Len(features') = N /\ DOMAIN features' = 1..N
       /\ features'[N] = more /\ \A f \in 1..N : f # N => features'[f] = features[f]
  BY <1>1, <1>2, <1>3, <1>9 DEF BufferTypes
<1>11. given' \in Seq(Promise) /\ Len(given') = N
  <2>1. given \in Seq(Promise) /\ Len(given) = N
    BY <1>1, <1>2 DEF LInv, BufferTypeOK, BufferTypes
  <2>2. PICK promise \in Promise : promise = given[N]
    BY <1>3, <2>1
  <2>3. names[key] \in Names
    BY <1>2 DEF BufferTypes
  <2>4. PICK unset \in [Names -> Raws \cup {NoValue}] : unset = promise.values
    BY DEF Promise
  <2>5. PICK set \in [Names -> Raws \cup {NoValue}] : set = [unset EXCEPT ![names[key]] = raw]
    BY <2>3
  <2>6. PICK changed \in Promise : changed = [promise EXCEPT !.values = set]
    BY DEF Promise
  <2>7. given' = [given EXCEPT ![N] = changed]
    BY <2>1, <2>2, <2>4, <2>5, <2>6 DEF Store
  <2> QED
    BY <1>3, <2>1, <2>7
<1>12. KindsInv' /\ kinds' \in Seq(PropKinds \cup {"Unknown"}) /\ Len(kinds') = M
  <2>1. kinds \in Seq(PropKinds \cup {"Unknown"}) /\ Len(kinds) = M /\ key \in 1..M /\ DOMAIN names = 1..M
    BY <1>1, <1>2, RowFacts DEF BufferTypes, LInv, BufferTypeOK
  <2>2. Holds(kinds[key], KindsSet(key))
    BY DEF LInv, KindsInv
  <2>3. raw.kind \in PropKinds
    BY BufferAssumption
  <2>4. PICK kind \in PropKinds : kind = Merge(kinds[key], raw.kind) /\ Holds(kind, KindsSet(key) \cup {raw.kind})
    BY <2>2, <2>3, KindsAreKinds, MergeHolds
  <2>5. kinds' = [kinds EXCEPT ![key] = kind]
    BY <2>4 DEF Store
  <2>6. /\ kinds' \in Seq(PropKinds \cup {"Unknown"}) /\ Len(kinds') = M
        /\ kinds'[key] = kind /\ \A k \in 1..M : k # key => kinds'[k] = kinds[k]
    BY <2>1, <2>5
  <2>7. ASSUME NEW k \in 1..M
        PROVE  KindsSet(k)' = IF k = key THEN KindsSet(k) \cup {raw.kind} ELSE KindsSet(k)
    <3>1. \A v \in 1..(V + 1) : v \in 1..V \/ v = V + 1
      OBVIOUS
    <3>2. DOMAIN values = 1..V /\ V + 1 \in 1..(V + 1) /\ \A v \in 1..V : v \in 1..(V + 1)
      BY <1>1, RowFacts
    <3>3. values'[V + 1].key = key /\ values'[V + 1].value.kind = raw.kind
      BY <1>4, <1>5
    <3> QED
      BY <1>5, <3>1, <3>2, <3>3 DEF KindsSet
  <2>8. KindsInv'
    <3> SUFFICES ASSUME NEW k \in DOMAIN names PROVE Holds(kinds'[k], KindsSet(k)')
      BY DEF KindsInv
    <3>1. CASE k = key
      BY <2>1, <2>4, <2>6, <2>7, <3>1
    <3>2. CASE k # key
      <4>1. Holds(kinds[k], KindsSet(k))
        BY DEF LInv, KindsInv
      <4> QED
        BY <2>1, <2>6, <2>7, <3>2, <4>1
    <3> QED
      BY <3>1, <3>2
  <2> QED
    BY <2>6, <2>8
<1>13. BufferTypes'
  BY <1>2, <1>5, <1>10, <1>11, <1>12 DEF BufferTypes
<1>14. \A f \in 1..N : /\ features'[f].type \in GeoTypes
                       /\ features'[f].parts = features[f].parts /\ features'[f].type = features[f].type
                       /\ IsRange(features'[f].values, values')
  <2> TAKE f \in 1..N
  <2>1. features[f] \in FeatureRow /\ IsRange(features[f].values, values)
    BY <1>1, RowFacts
  <2>2. CASE f = N
    <3>1. IsRange(<<low, V + 1>>, values')
      BY <1>5, <1>7 DEF IsRange
    <3> QED
      BY <1>6, <1>8, <1>10, <2>2, <3>1 DEF FeatureRow
  <2>3. CASE f # N
    <3>1. IsRange(features[f].values, values')
      BY <1>1, <1>5, <2>1, RangeKept DEF FeatureRow
    <3> QED
      BY <1>10, <2>1, <2>3, <3>1 DEF FeatureRow
  <2> QED
    BY <2>2, <2>3
<1>15. \A v \in 1..(V + 1) : /\ values'[v].key \in DOMAIN names
                             /\ values'[v].value.kind = "Str" => IsRange(values'[v].value.range, strings')
  <2> TAKE v \in 1..(V + 1)
  <2>1. CASE v \in 1..V
    <3>1. /\ values[v] \in [key : Nat, value : Stored] /\ values[v].key \in DOMAIN names
          /\ values[v].value.kind = "Str" => IsRange(values[v].value.range, strings)
      BY <1>1, <2>1, RowFacts
    <3>2. values[v].value.kind = "Str" => values[v].value.range \in Span
      BY <3>1 DEF Stored
    <3>3. Len(strings) \in Nat /\ Len(strings') \in Nat
      BY RowFacts
    <3>4. values[v].value.kind = "Str" => IsRange(values[v].value.range, strings')
      BY <3>1, <3>2, <3>3, RangeKept
    <3> QED
      BY <1>5, <2>1, <3>1, <3>4
  <2>2. CASE v = V + 1
    BY <1>4, <1>5, <2>2
  <2> QED
    BY <2>1, <2>2
<1>16. BufferTypeOK'
  <2>1. \A f \in DOMAIN features' : IsRange(features'[f].parts, parts')
    BY <1>1, <1>10, <1>14, RowFacts
  <2>2. \A p \in DOMAIN parts' : IsRange(parts'[p].coords, points')
    BY RowFacts DEF IsRange
  <2> QED
    BY <1>1, <1>5, <1>10, <1>11, <1>12, <1>14, <1>15, <2>1, <2>2, TypeFacts DEF BufferTypeOK
<1>17. PartsFit'
  BY <1>1, <1>10, <1>14, RowFacts DEF PartsFit
<1> QED
  BY <1>12, <1>13, <1>16, <1>17 DEF LInv

-----------------------------------------------------------------------------
(* Every call of the builder, and the theorems.                             *)

LEMMA EmptyHolds ==
  ASSUME names = <<>>, kinds = <<>>, features = <<>>, parts = <<>>, points = <<>>,
         values = <<>>, strings = <<>>, given = <<>>
  PROVE  LInv
<1>1. BufferTypes
  BY DEF BufferTypes
<1>2. BufferTypeOK /\ PartsFit /\ KindsInv
  BY DEF BufferTypeOK, PartsFit, KindsInv
<1> QED
  BY <1>1, <1>2 DEF LInv

LEMMA SameHolds ==
  ASSUME LInv, UNCHANGED buffer
  PROVE  LInv'
BY DEF LInv, BufferTypes, BufferTypeOK, PartsFit, KindsInv, KindsSet, IsRange, buffer

LEMMA AddPropertyHolds ==
  ASSUME LInv, NEW name \in Names, BufferAddProperty(name)
  PROVE  LInv'
<1>1. PICK M \in Nat : M = Len(names) /\ DOMAIN names = 1..M
  BY RowFacts
<1>2. /\ BufferTypes /\ Len(kinds) = M /\ names' = Append(names, name) /\ kinds' = Append(kinds, "Unknown")
      /\ UNCHANGED <<features, parts, points, values, strings, given>>
  BY <1>1 DEF LInv, BufferTypeOK, BufferAddProperty
<1>3. names' \in Seq(Names) /\ Len(names') = M + 1 /\ DOMAIN names' = 1..(M + 1)
  <2>1. names \in Seq(Names)
    BY <1>2 DEF BufferTypes
  <2> QED
    BY <1>1, <1>2, <2>1, Appended
<1>4. /\ kinds' \in Seq(PropKinds \cup {"Unknown"}) /\ Len(kinds') = M + 1
      /\ kinds'[M + 1] = "Unknown" /\ \A k \in 1..M : kinds'[k] = kinds[k]
  <2>1. kinds \in Seq(PropKinds \cup {"Unknown"})
    BY <1>2 DEF BufferTypes
  <2> QED
    BY <1>2, <2>1, Appended
<1>5. BufferTypes'
  BY <1>2, <1>3, <1>4 DEF BufferTypes
<1>6. \A v \in DOMAIN values : values[v].key \in 1..M
  BY <1>1, RowFacts
<1>7. \A k \in 1..M : k \in 1..(M + 1)
  OBVIOUS
<1>8. BufferTypeOK' /\ PartsFit'
  BY <1>2, <1>3, <1>4, <1>6, <1>7 DEF LInv, BufferTypeOK, PartsFit, IsRange
<1>9. KindsInv'
  <2> SUFFICES ASSUME NEW k \in 1..(M + 1) PROVE Holds(kinds'[k], KindsSet(k)')
    BY <1>3 DEF KindsInv
  <2>1. KindsSet(k)' = KindsSet(k)
    BY <1>2 DEF KindsSet
  <2>2. CASE k \in 1..M
    <3>1. Holds(kinds[k], KindsSet(k))
      BY <1>1, <2>2 DEF LInv, KindsInv
    <3> QED
      BY <1>4, <2>1, <2>2, <3>1
  <2>3. CASE k = M + 1
    <3>1. \A v \in DOMAIN values : values[v].key # M + 1
      BY <1>6
    <3>2. KindsSet(k) = {}
      BY <2>3, <3>1 DEF KindsSet
    <3> QED
      BY <1>4, <2>1, <2>3, <3>2 DEF Holds
  <2> QED
    BY <2>2, <2>3
<1> QED
  BY <1>5, <1>8, <1>9 DEF LInv

LEMMA SetValueHolds ==
  ASSUME LInv, NEW key \in Keys, NEW raw \in Raws, SetValue(key, raw)
  PROVE  LInv'
<1>1. CASE features # <<>> /\ key \in DOMAIN names
  <2>1. /\ raw \in Stored /\ raw.kind # "Str" /\ Store(key, raw, raw)
        /\ UNCHANGED <<names, parts, points, strings>>
    BY <1>1 DEF SetValue, BufferSet, Stored
  <2>2. strings' \in Seq(Letters) /\ Len(strings) <= Len(strings')
    BY <2>1, RowFacts DEF LInv, BufferTypes
  <2> QED
    BY <1>1, <2>1, <2>2, StoreHolds
<1>2. CASE ~(features # <<>> /\ key \in DOMAIN names)
  <2>1. UNCHANGED buffer
    BY <1>2 DEF SetValue, BufferSet, buffer
  <2> QED
    BY <2>1, SameHolds
<1> QED
  BY <1>1, <1>2

LEMMA SetStrHolds ==
  ASSUME LInv, NEW key \in Keys, NEW raw \in Raws, SetStr(key, raw)
  PROVE  LInv'
<1>1. PICK text \in Seq(Letters) : text = raw.value
  <2>1. raw \in Texts /\ raw.value \in Seq({raw.value[i] : i \in DOMAIN raw.value})
    BY BufferAssumption DEF SetStr, Texts
  <2>2. {raw.value[i] : i \in DOMAIN raw.value} \subseteq Letters
    BY <2>1 DEF Letters
  <2> QED
    BY <2>1, <2>2
<1>2. PICK S, T \in Nat : S = Len(strings) /\ T = Len(strings') /\ S <= T /\ strings' \in Seq(Letters)
  <2>1. strings \in Seq(Letters) /\ strings' = strings \o text
    BY <1>1 DEF LInv, BufferTypes, SetStr
  <2>2. strings' \in Seq(Letters) /\ Len(strings') = Len(strings) + Len(text)
    BY <2>1
  <2> QED
    BY <2>1, <2>2, ItemOf
<1>3. UNCHANGED <<names, parts, points>>
  BY DEF SetStr
<1>4. CASE features # <<>> /\ key \in DOMAIN names
  <2>1. PICK range \in Span : range = <<S, T>>
    BY DEF Span
  <2>2. PICK stored \in Stored : stored = [kind |-> "Str", range |-> range]
    BY DEF Stored
  <2>3. stored.kind = "Str" /\ raw.kind = "Str" /\ IsRange(stored.range, strings')
    BY <1>2, <2>1, <2>2 DEF SetStr, IsRange
  <2>4. Store(key, stored, raw)
    BY <1>2, <1>4, <2>1, <2>2 DEF SetStr, BufferSet
  <2> QED
    BY <1>2, <1>3, <1>4, <2>3, <2>4, StoreHolds
<1>5. CASE ~(features # <<>> /\ key \in DOMAIN names)
  <2>1. UNCHANGED <<names, kinds, features, parts, points, values, given>>
    BY <1>5 DEF SetStr, BufferSet
  <2>2. BufferTypes' /\ PartsFit' /\ KindsInv'
    BY <1>2, <2>1 DEF LInv, BufferTypes, PartsFit, KindsInv, KindsSet
  <2>3. \A v \in DOMAIN values : values[v].value.kind = "Str" => IsRange(values[v].value.range, strings')
    <3> SUFFICES ASSUME NEW v \in DOMAIN values, values[v].value.kind = "Str"
                 PROVE  IsRange(values[v].value.range, strings')
      OBVIOUS
    <3>1. values[v].value \in Stored /\ IsRange(values[v].value.range, strings)
      BY RowFacts
    <3>2. values[v].value.range \in Span
      BY <3>1 DEF Stored
    <3> QED
      BY <1>2, <3>1, <3>2, RangeKept
  <2>4. BufferTypeOK'
    BY <2>1, <2>3 DEF LInv, BufferTypeOK, IsRange
  <2> QED
    BY <2>2, <2>4 DEF LInv
<1> QED
  BY <1>4, <1>5

LEMMA LInvAlways == BufferSpec => []LInv
<1>1. BufferInit => LInv
  BY EmptyHolds DEF BufferInit
<1>2. LInv /\ [BufferNext]_bufferVars => LInv'
  <2> SUFFICES ASSUME LInv, [BufferNext]_bufferVars PROVE LInv'
    OBVIOUS
  <2>1. CASE BufferReset
    <3>1. /\ names' = <<>> /\ kinds' = <<>> /\ features' = <<>> /\ parts' = <<>> /\ points' = <<>>
          /\ values' = <<>> /\ strings' = <<>> /\ given' = <<>>
      BY <2>1 DEF BufferReset
    <3>2. BufferTypes'
      BY <3>1 DEF BufferTypes
    <3>3. BufferTypeOK' /\ PartsFit' /\ KindsInv'
      BY <3>1 DEF BufferTypeOK, PartsFit, KindsInv
    <3> QED
      BY <3>2, <3>3 DEF LInv
  <2>2. CASE \E name \in Names : BufferAddProperty(name)
    BY <2>2, AddPropertyHolds
  <2>3. CASE \E input \in Inputs, id \in Ids \cup {NoId} : Begin(input, id)
    BY <2>3, BeginHolds
  <2>4. CASE \E key \in Keys, raw \in Raws : SetValue(key, raw) \/ SetStr(key, raw)
    BY <2>4, SetValueHolds, SetStrHolds
  <2>5. CASE Encode \/ Replay \/ Drop \/ UNCHANGED bufferVars
    <3>1. UNCHANGED buffer
      BY <2>5 DEF Encode, Replay, Drop, bufferVars
    <3> QED
      BY <3>1, SameHolds
  <2> QED
    BY <2>1, <2>2, <2>3, <2>4, <2>5 DEF BufferNext
<1> QED
  BY <1>1, <1>2, PTL DEF BufferSpec

\* The kind that holds a set of values is the one HoldingKind names.
LEMMA HoldsIsHolding ==
  ASSUME NEW key, NEW kind, KindsSet(key) \in SUBSET PropKinds, Holds(kind, KindsSet(key))
  PROVE  PropKind(kind) = HoldingKind(key)
<1>1. PICK set \in SUBSET PropKinds : set = KindsSet(key)
  OBVIOUS
<1>2. IsFiniteSet(set)
  <2>1. IsFiniteSet(PropKinds)
    <3>1. IsFiniteSet({"Bool"})
      BY FS_Singleton
    <3>2. \A S, x : IsFiniteSet(S) => IsFiniteSet(S \cup {x})
      BY FS_AddElement
    <3>3. IsFiniteSet((({"Bool"} \cup {"I64"}) \cup {"F32"}) \cup {"F64"})
      BY <3>1, <3>2
    <3>4. IsFiniteSet(((({"Bool"} \cup {"I64"}) \cup {"F32"}) \cup {"F64"}) \cup {"Str"})
      BY <3>2, <3>3
    <3>5. (((({"Bool"} \cup {"I64"}) \cup {"F32"}) \cup {"F64"}) \cup {"Str"}) = PropKinds
      BY DEF PropKinds
    <3> QED
      BY <3>4, <3>5
  <2> QED
    BY <2>1, FS_Subset
<1>3. PICK size \in Nat : size = Cardinality(set)
  BY <1>2, FS_CardinalityType
<1>4. (size = 0 <=> set = {}) /\ (size = 1 <=> \E x : set = {x})
  BY <1>2, <1>3, FS_EmptySet, FS_Singleton
<1>5. HoldingKind(key) = CASE set = {} -> "Str"
                           [] size = 1 -> CHOOSE k \in set : TRUE
                           [] size > 1 /\ set \subseteq Numbers -> "F64"
                           [] OTHER -> "Str"
  BY <1>1, <1>3 DEF HoldingKind, KindsSet
<1>6. CASE set = {} /\ kind = "Unknown"
  <2>1. HoldingKind(key) = "Str"
    <3>1. ~(size > 1) /\ size # 1
      BY <1>3, <1>4, <1>6
    <3> QED
      BY <1>5, <1>6, <3>1
  <2> QED
    BY <1>6, <2>1 DEF PropKind
<1>7. CASE set = {kind}
  <2>1. size = 1 /\ set # {} /\ ~(size > 1)
    BY <1>4, <1>7
  <2>2. (CHOOSE k \in set : TRUE) = kind
    BY <1>7
  <2>3. HoldingKind(key) = kind
    BY <1>5, <2>1, <2>2
  <2>4. kind # "Unknown"
    BY <1>7 DEF PropKinds
  <2> QED
    BY <2>3, <2>4 DEF PropKind
<1>8. CASE \E a, b \in set : a # b
  <2>1. set # {} /\ ~(\E x : set = {x})
    BY <1>8
  <2>2. size # 0 /\ size # 1
    BY <1>4, <2>1
  <2>3. size > 1
    BY <1>3, <2>2
  <2>4. kind = IF set \subseteq Numbers THEN "F64" ELSE "Str"
    BY <1>1, <1>8, <2>1 DEF Holds
  <2>5. HoldingKind(key) = kind
    BY <1>5, <2>1, <2>2, <2>3, <2>4
  <2> QED
    BY <2>4, <2>5 DEF PropKind
<1> QED
  BY <1>1, <1>6, <1>7, <1>8 DEF Holds

LEMMA KindsAreHeld == LInv => KindsHold
<1> SUFFICES ASSUME LInv, NEW key \in DOMAIN names
             PROVE  PropKind(kinds[key]) = HoldingKind(key)
  BY DEF KindsHold
<1>1. Holds(kinds[key], KindsSet(key)) /\ KindsSet(key) \in SUBSET PropKinds
  BY KindsAreKinds DEF LInv, KindsInv
<1> QED
  BY <1>1, HoldsIsHolding

\* Whatever stream of commands a caller passes to mlt_tile_begin_mvt_feature, and
\* however calls that fail are mixed with calls that succeed, the ranges of features,
\* parts and texts stay inside the lists they index and every value's key is declared:
\* encode_layer indexes without a panic (store.rs:337).
THEOREM BufferTypesHold == BufferSpec => []BufferTypeOK
<1>1. LInv => BufferTypeOK
  BY DEF LInv
<1> QED
  BY <1>1, LInvAlways, PTL

\* decode_mvt gives every feature it accepts the parts its geometry type asks for: a
\* hole never comes before an exterior, a type that is not a multi one has one part or
\* exterior, and a feature that is refused leaves no part behind (store.rs:182).
THEOREM PartsCorrect == BufferSpec => []PartsFit
<1>1. LInv => PartsFit
  BY DEF LInv
<1> QED
  BY <1>1, LInvAlways, PTL

\* Merging the kinds of values one after another gives each column the kind that holds
\* all of them, in whatever order they were set (store.rs:293, tile.rs:1345).
THEOREM KindsCorrect == BufferSpec => []KindsHold
  BY KindsAreHeld, LInvAlways, PTL
=============================================================================
