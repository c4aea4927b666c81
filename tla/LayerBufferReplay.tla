------------------------- MODULE LayerBufferReplay -------------------------
(***************************************************************************)
(* The layer that encode writes is the one the caller described, for every *)
(* set of inputs, values and names: EncodesWhatWasGiven, as a theorem of   *)
(* BufferSpec.  And no call that encode makes is refused by the writer for *)
(* what it is.  See README.md.                                             *)
(***************************************************************************)
EXTENDS LayerBufferProofs, LayerWriterRefinement

-----------------------------------------------------------------------------
(* What decode_mvt has read is what was drawn.                              *)

\* The rings that signed_area takes for outer ones.
Coded(rings) == {n \in DOMAIN rings : SignedArea(rings[n]) > 0}

StartsPolygon(rings, n) == n = 1 \/ SignedArea(rings[n]) > 0

\* Polygons and geometries of these.
GroupedAs(polygons, rings, n) == Grouped(polygons, rings, Coded(rings), n)
PolygonsAs(rings) == Polygons(rings, Coded(rings))
ShapeAs(input) == Shape(input, Coded(Paths(input)))

Coords(type, path) == IF type = "Polygon" THEN Closed(path) ELSE path

RoleIn(type, paths, n) ==
    CASE type = "Point" -> "Points"
      [] type = "LineString" -> "Line"
      [] type = "Polygon" -> IF StartsPolygon(paths, n) THEN "Exterior" ELSE "Hole"

\* A part in a list of parts stands for the n-th path.
Stands(part, list, type, paths, n) ==
    part.role = RoleIn(type, paths, n) /\ ItemsIn(list, part.coords) = Coords(type, paths[n])

\* Every part ended so far stands for its path.
Drew(d, paths, type) ==
    \A n \in 1..d.ended : Stands(d.parts[Len(parts) + n], d.points, type, paths, n)

\* What is read follows what is drawn; the last path is the part being read.
Follows(d, drawing, type) ==
    /\ drawing.place = d.cursor /\ drawing.paths \in Seq(Seq(Place))
    /\ d.start = 0 => drawing.paths = <<>> /\ d.ended = 0
    /\ d.start # 0 => /\ Len(drawing.paths) = d.ended + 1
                      /\ drawing.paths[d.ended + 1] = SubSeq(d.points, d.start, Len(d.points))
    /\ Drew(d, drawing.paths, type)

LEMMA ItemsStay ==
  ASSUME NEW S, NEW s \in Seq(S), NEW t \in Seq(S), NEW range \in Span, IsRange(range, s),
         Len(s) <= Len(t), \A i \in 1..Len(s) : t[i] = s[i]
  PROVE  ItemsIn(t, range) = ItemsIn(s, range)
<1>1. PICK low, high \in Nat : range = <<low, high>>
  BY DEF Span
<1>2. high <= Len(s) /\ Len(s) \in Nat /\ Len(t) \in Nat
  BY <1>1 DEF IsRange
<1>3. high <= Len(t) /\ \A i \in 1..high : i \in 1..Len(s)
  BY <1>2
<1>4. SubSeq(t, low + 1, high) = SubSeq(s, low + 1, high)
  BY <1>2, <1>3, SliceStays
<1> QED
  BY <1>1, <1>4 DEF ItemsIn

LEMMA ClosedSlice ==
  ASSUME NEW S, NEW s \in Seq(S), NEW start \in 1..Len(s)
  PROVE  SubSeq(Append(s, s[start]), start, Len(s) + 1) = Closed(SubSeq(s, start, Len(s)))
<1>1. PICK x \in S : x = s[start]
  OBVIOUS
<1>2. PICK path \in Seq(S) : path = SubSeq(s, start, Len(s)) /\ Len(path) # 0 /\ path[1] = x
  <2>1. PICK n \in Nat : n = Len(s) /\ start \in 1..n
    OBVIOUS
  <2>2. SubSeq(s, start, n) \in Seq(S) /\ Len(SubSeq(s, start, n)) = (n - start) + 1
    BY <2>1
  <2>3. (n - start) + 1 # 0 /\ 1 \in 1..((n - start) + 1)
    BY <2>1
  <2>4. SubSeq(s, start, n)[1] = s[start]
    BY <2>1, <2>3
  <2> QED
    BY <1>1, <2>1, <2>2, <2>3, <2>4
<1>3. Append(s, x) = s \o <<x>> /\ <<x>> \in Seq(S) /\ Len(<<x>>) = 1
  OBVIOUS
<1>4. start - 1 \in 0..Len(s) /\ (start - 1) + 1 = start
  OBVIOUS
<1>5. SubSeq(s \o <<x>>, start, Len(s) + 1) = path \o <<x>>
  BY <1>2, <1>3, <1>4, JoinedSlice
<1>6. SubSeq(path, 1, 1) = <<x>>
  <2>1. SubSeq(path, 1, 1) \in Seq(S) /\ Len(SubSeq(path, 1, 1)) = 1 /\ SubSeq(path, 1, 1)[1] = x
    BY <1>2
  <2>2. <<x>>[1] = x /\ \A i \in 1..1 : i = 1
    OBVIOUS
  <2> QED
    BY <1>3, <2>1, <2>2, SeqEqual
<1> QED
  BY <1>1, <1>2, <1>3, <1>5, <1>6 DEF Closed

\* A part that has ended keeps what it stands for.
LEMMA StandsStill ==
  ASSUME NEW d, Grown(d), Len(parts) \in Nat, NEW type, NEW paths, Drew(d, paths, type),
         NEW e, e.points \in Seq(Place), Len(d.points) <= Len(e.points),
         \A i \in 1..Len(d.points) : e.points[i] = d.points[i],
         \A p \in 1..Len(d.parts) : e.parts[p] = d.parts[p],
         NEW more, \A n \in 1..d.ended : more[n] = paths[n]
  PROVE  \A n \in 1..d.ended : Stands(e.parts[Len(parts) + n], e.points, type, more, n)
<1> TAKE n \in 1..d.ended
<1>1. Len(parts) + n \in 1..Len(d.parts)
  <2>1. d.ended \in Nat /\ Len(d.parts) = Len(parts) + d.ended
    BY DEF Grown, State
  <2> QED
    BY <2>1
<1>2. PICK part \in PartRow : part = d.parts[Len(parts) + n] /\ IsRange(part.coords, d.points)
  BY <1>1, ItemOf DEF Grown, State
<1>3. ItemsIn(e.points, part.coords) = ItemsIn(d.points, part.coords)
  <2>1. d.points \in Seq(Place) /\ part.coords \in Span
    BY DEF Grown, State, PartRow
  <2> QED
    BY <1>2, <2>1, ItemsStay
<1>4. RoleIn(type, more, n) = RoleIn(type, paths, n) /\ Coords(type, more[n]) = Coords(type, paths[n])
  BY DEF RoleIn, StartsPolygon, Coords
<1>5. Stands(part, d.points, type, paths, n)
  BY <1>2 DEF Drew
<1> QED
  BY <1>1, <1>2, <1>3, <1>4, <1>5 DEF Stands

\* The fields of a state whose part has been ended.
LEMMA EndPartFields ==
  ASSUME NEW type \in MvtTypes, NEW d \in State, d.start # 0, type = "Polygon" => d.start \in 1..Len(d.points)
  PROVE  LET e == EndPart(d, type) IN
         /\ e.points = IF type = "Polygon" THEN Append(d.points, d.points[d.start]) ELSE d.points
         /\ e \in State /\ e.points \in Seq(Place)
         /\ e.parts = Append(d.parts, [role |-> Role(d, type), coords |-> <<d.start - 1, Len(e.points)>>])
         /\ e.start = 0 /\ e.ended = d.ended + 1 /\ e.cursor = d.cursor /\ e.ok = d.ok
<1>1. PICK ring \in Seq(Place) : ring = IF type = "Polygon" THEN Append(d.points, d.points[d.start]) ELSE d.points
  <2>1. d.points \in Seq(Place)
    BY DEF State
  <2>2. type = "Polygon" => d.points[d.start] \in Place
    BY <2>1, ItemOf
  <2> QED
    BY <2>1, <2>2, Appended
<1>2. PICK closed : closed = IF type = "Polygon" THEN RingClosed(d) ELSE d
  OBVIOUS
<1>3. closed = [d EXCEPT !.points = ring]
  <2>1. CASE type = "Polygon"
    BY <1>1, <1>2, <2>1 DEF RingClosed
  <2>2. CASE type # "Polygon"
    BY <1>1, <1>2, <2>2 DEF State
  <2> QED
    BY <2>1, <2>2
<1>4. /\ closed \in State /\ closed.points = ring /\ closed.parts = d.parts /\ closed.start = d.start
      /\ closed.ended = d.ended /\ closed.exteriors = d.exteriors /\ closed.ok = d.ok /\ closed.cursor = d.cursor
  BY <1>3 DEF State
<1>5. PICK more \in Seq(PartRow) :
        more = Append(d.parts, [role |-> Role(d, type), coords |-> <<d.start - 1, Len(ring)>>])
  <2>1. PICK role \in Roles : role = Role(d, type)
    BY DEF Role, Roles, MvtTypes
  <2>2. PICK span \in Span : span = <<d.start - 1, Len(ring)>>
    <3>1. d.start - 1 \in Nat /\ Len(ring) \in Nat
      BY DEF State
    <3> QED
      BY <3>1 DEF Span
  <2>3. [role |-> role, coords |-> span] \in PartRow
    BY DEF PartRow
  <2>4. d.parts \in Seq(PartRow)
    BY DEF State
  <2> QED
    BY <2>1, <2>2, <2>3, <2>4, Appended
<1>6. PICK ended, exteriors \in Nat :
        /\ ended = d.ended + 1
        /\ exteriors = d.exteriors + IF Role(d, type) = "Exterior" THEN 1 ELSE 0
  <2>1. d.ended \in Nat /\ d.exteriors \in Nat
    BY DEF State
  <2>2. d.ended + 1 \in Nat /\ d.exteriors + 1 \in Nat /\ d.exteriors + 0 \in Nat
    BY <2>1
  <2> QED
    BY <2>2
<1>7. PICK e : e = EndPart(d, type)
  OBVIOUS
<1>8. e = [closed EXCEPT !.start = 0, !.ended = ended, !.exteriors = exteriors, !.parts = more]
  BY <1>2, <1>4, <1>5, <1>6, <1>7 DEF EndPart, AddedPart
<1>9. /\ e \in State /\ e.points = ring /\ e.parts = more /\ e.start = 0 /\ e.ended = ended
      /\ e.cursor = d.cursor /\ e.ok = d.ok
  BY <1>4, <1>8 DEF State
<1> QED
  BY <1>1, <1>5, <1>6, <1>7, <1>9

\* The role of a part being ended is the one of its path.
LEMMA RoleFollows ==
  ASSUME NEW type \in MvtTypes, NEW d, Reading(d, type), d.ok, NEW paths, NEW n, n = d.ended + 1,
         paths[n] = Ring(d)
  PROVE  Role(d, type) = RoleIn(type, paths, n)
<1>1. d.ended \in Nat /\ (n = 1 <=> d.ended = 0)
  BY DEF Reading, Grown, State
<1>2. type = "Polygon" => (d.exteriors = 0 <=> d.ended = 0)
  BY DEF Reading, PartsRead
<1> QED
  BY <1>1, <1>2 DEF Role, RoleIn, StartsPolygon, MvtTypes

LEMMA EndPartFollows ==
  ASSUME BufferTypes, NEW type \in MvtTypes, NEW d, Reading(d, type), d.ok,
         NEW drawing, Follows(d, drawing, type)
  PROVE  LET e == EndPart(d, type) IN
         /\ e.ok /\ e.start = 0 /\ e.cursor = d.cursor /\ e.ended = Len(drawing.paths)
         /\ Drew(e, drawing.paths, type) /\ e \in State
<1>1. PICK P, Q \in Nat : P = Len(points) /\ Q = Len(parts)
  BY ItemOf DEF BufferTypes
<1>2. PICK paths \in Seq(Seq(Place)) : paths = drawing.paths /\ Drew(d, paths, type)
  BY DEF Follows
<1>3. CASE d.start = 0
  <2>1. EndPart(d, type) = d /\ paths = <<>> /\ d.ended = 0
    BY <1>2, <1>3 DEF EndPart, Follows
  <2> QED
    BY <1>2, <1>3, <2>1 DEF Reading, Grown
<1>4. CASE d.start # 0
  <2>1. /\ d \in State /\ Grown(d) /\ d.points \in Seq(Place) /\ d.parts \in Seq(PartRow)
        /\ d.start \in Nat /\ d.ended \in Nat /\ Len(d.points) \in Nat /\ Len(d.parts) = Q + d.ended
    BY <1>1, ItemOf DEF Reading, Grown, State
  <2>2. d.start \in 1..Len(d.points) \/ (type = "Point" /\ d.start = P + 1 /\ P <= Len(d.points))
    BY <1>1, <1>4, <2>1 DEF Reading, StartRead, Grown
  <2>3. PICK n \in Nat : n = d.ended + 1 /\ Len(paths) = n /\ paths[n] = Ring(d)
    BY <1>2, <1>4, <2>1, SMTT(40) DEF Follows, Ring
  <2>4. PICK e : e = EndPart(d, type)
    OBVIOUS
  <2>5. PICK new : new = [role |-> Role(d, type), coords |-> <<d.start - 1, Len(e.points)>>]
    OBVIOUS
  <2>6. /\ e.points = IF type = "Polygon" THEN Append(d.points, d.points[d.start]) ELSE d.points
        /\ e \in State /\ e.points \in Seq(Place) /\ e.parts = Append(d.parts, new)
        /\ e.start = 0 /\ e.ended = n /\ e.cursor = d.cursor /\ e.ok
    <3>1. type = "Polygon" => d.start \in 1..Len(d.points)
      BY <2>2
    <3> QED
      BY <1>4, <2>1, <2>3, <2>4, <2>5, <3>1, EndPartFields
  <2>7. /\ \A p \in 1..Len(d.parts) : e.parts[p] = d.parts[p]
        /\ e.parts[Q + n] = new
    <3>1. Len(d.parts) + 1 = Q + n
      BY <2>1, <2>3
    <3>2. /\ \A p \in 1..Len(d.parts) : Append(d.parts, new)[p] = d.parts[p]
          /\ Append(d.parts, new)[Len(d.parts) + 1] = new
      BY <2>1
    <3> QED
      BY <2>6, <3>1, <3>2
  <2>8. /\ Len(d.points) <= Len(e.points) /\ \A i \in 1..Len(d.points) : e.points[i] = d.points[i]
    <3>1. CASE type = "Polygon"
      <4>1. PICK x \in Place : x = d.points[d.start] /\ e.points = Append(d.points, x)
        BY <2>1, <2>2, <2>6, <3>1, ItemOf
      <4> QED
        BY <2>1, <4>1, Appended
    <3>2. CASE type # "Polygon"
      BY <2>1, <2>6, <3>2
    <3> QED
      BY <3>1, <3>2
  <2>9. ItemsIn(e.points, new.coords) = Coords(type, paths[n])
    <3>1. PICK low, high : /\ new.coords = <<low, high>> /\ low = d.start - 1 /\ high = Len(e.points)
                           /\ low + 1 = d.start
      BY <2>1, <2>5
    <3>2. ItemsIn(e.points, new.coords) = SubSeq(e.points, d.start, Len(e.points))
      <4>1. <<low, high>>[1] = low /\ <<low, high>>[2] = high
        OBVIOUS
      <4> QED
        BY <3>1, <4>1 DEF ItemsIn
    <3>3. CASE type = "Polygon"
      <4>1. d.start \in 1..Len(d.points) /\ e.points = Append(d.points, d.points[d.start])
        BY <2>2, <2>6, <3>3
      <4>2. Len(e.points) = Len(d.points) + 1
        BY <2>1, <4>1
      <4>3. SubSeq(e.points, d.start, Len(e.points)) = Closed(SubSeq(d.points, d.start, Len(d.points)))
        BY <2>1, <4>1, <4>2, ClosedSlice
      <4> QED
        BY <2>3, <3>2, <3>3, <4>3 DEF Coords, Ring
    <3>4. CASE type # "Polygon"
      BY <2>3, <2>6, <3>2, <3>4 DEF Coords, Ring
    <3> QED
      BY <3>3, <3>4
  <2>10. Stands(new, e.points, type, paths, n)
    <3>1. Role(d, type) = RoleIn(type, paths, n)
      BY <2>3, RoleFollows
    <3> QED
      BY <2>5, <2>9, <3>1 DEF Stands
  <2>11. Drew(e, paths, type)
    <3>1. \A m \in 1..d.ended : Stands(e.parts[Q + m], e.points, type, paths, m)
      BY <1>1, <1>2, <2>1, <2>6, <2>7, <2>8, StandsStill
    <3>2. \A m \in 1..e.ended : m \in 1..d.ended \/ m = n
      BY <2>1, <2>3, <2>6
    <3> QED
      BY <1>1, <2>7, <2>10, <3>1, <3>2 DEF Drew
  <2> QED
    BY <1>2, <2>3, <2>4, <2>6, <2>11
<1> QED
  BY <1>3, <1>4

LEMMA FailedFails == \A d \in State : Failed(d).ok = FALSE
<1> TAKE d \in State
<1>1. PICK e : e = Failed(d)
  OBVIOUS
<1>2. e.ok = FALSE
  BY <1>1 DEF Failed, State
<1> QED
  BY <1>1, <1>2

\* The coordinates of a command go on with the last path, maybe one just started.
LEMMA ReadFollows ==
  ASSUME NEW type \in MvtTypes, NEW d, Grown(d), Len(parts) \in Nat, d.start \in 1..(Len(d.points) + 1),
         NEW command \in Command, ReadCoords(d, command).ok,
         NEW paths, Drew(d, paths, type),
         NEW path, path = Along(d.cursor, command.deltas),
         NEW more \in Seq(Seq(Place)), Len(more) = d.ended + 1,
         \A n \in 1..d.ended : more[n] = paths[n],
         more[d.ended + 1] = SubSeq(d.points, d.start, Len(d.points)) \o path,
         NEW drawing, drawing = [place |-> Arrived(d.cursor, path), paths |-> more]
  PROVE  Follows(ReadCoords(d, command), drawing, type)
<1>1. /\ d \in State /\ d.points \in Seq(Place) /\ d.parts \in Seq(PartRow) /\ d.start \in Nat
      /\ d.ended \in Nat /\ command.count \in Nat
  BY DEF Grown, State, Command
<1>2. PICK e : e = ReadCoords(d, command)
  OBVIOUS
<1>3. path \in Seq(Place) /\ Len(path) \in Nat /\ Extended(e, d, path)
  <2>1. /\ Len(command.deltas) \in Nat /\ path \in Seq(Place) /\ Len(path) = Len(command.deltas)
        /\ Len(command.deltas) >= command.count => Extended(e, d, path)
        /\ Len(command.deltas) < command.count => \E g : Extended(g, d, path) /\ e = Failed(g)
    BY <1>1, <1>2, ReadCoordsExtends
  <2>2. ~(Len(command.deltas) < command.count)
    BY <1>2, <2>1, FailedFails DEF Extended
  <2> QED
    BY <1>1, <2>1, <2>2
<1>4. /\ e.points = d.points \o path /\ e.cursor = Arrived(d.cursor, path) /\ e.parts = d.parts
      /\ e.start = d.start /\ e.ended = d.ended
  BY <1>3 DEF Extended
<1>5. PICK L, M \in Nat : L = Len(d.points) /\ M = Len(path)
  BY <1>1, <1>3, ItemOf
<1>6. /\ e.points \in Seq(Place) /\ Len(e.points) = L + M
      /\ \A i \in 1..L : e.points[i] = d.points[i]
  <2>1. PICK old \in Seq(Place) : old = d.points
    BY <1>1
  <2>2. path \in Seq(Place)
    BY <1>3
  <2>3. /\ old \o path \in Seq(Place) /\ Len(old \o path) = Len(old) + Len(path)
        /\ \A i \in 1..Len(old) : (old \o path)[i] = old[i]
    BY <2>2, JoinedFacts
  <2> QED
    BY <1>4, <1>5, <2>1, <2>3
<1>7. SubSeq(e.points, e.start, Len(e.points)) = more[e.ended + 1]
  <2>1. PICK m \in 0..L : d.start = m + 1
    <3>1. PICK start : start = d.start /\ start \in 1..(L + 1)
      BY <1>5
    <3>2. start \in Int /\ start - 1 \in 0..L /\ start = (start - 1) + 1
      <4>1. \A s \in 1..(L + 1) : s \in Int /\ s - 1 \in 0..L /\ s = (s - 1) + 1
        OBVIOUS
      <4> QED
        BY <3>1, <4>1
    <3> QED
      BY <3>1, <3>2
  <2>2. SubSeq(d.points \o path, m + 1, L + M) = SubSeq(d.points, m + 1, L) \o path
    BY <1>1, <1>3, <1>5, JoinedSlice
  <2> QED
    BY <1>4, <1>5, <1>6, <2>1, <2>2
<1>8. Drew(e, more, type)
  <2>1. L <= L + M
    OBVIOUS
  <2>2. /\ e.points \in Seq(Place) /\ Len(d.points) <= Len(e.points)
        /\ \A i \in 1..Len(d.points) : e.points[i] = d.points[i]
    BY <1>5, <1>6, <2>1
  <2>3. \A p \in 1..Len(d.parts) : e.parts[p] = d.parts[p]
    BY <1>4
  <2>4. Grown(d) /\ Len(parts) \in Nat /\ Drew(d, paths, type) /\ \A n \in 1..d.ended : more[n] = paths[n]
    OBVIOUS
  <2>5. \A n \in 1..d.ended : Stands(e.parts[Len(parts) + n], e.points, type, more, n)
    BY <2>2, <2>3, <2>4, StandsStill
  <2> QED
    BY <1>4, <2>5 DEF Drew
<1>9. drawing.place = e.cursor /\ drawing.paths = more /\ e.start # 0
  BY <1>4
<1> QED
  BY <1>2, <1>4, <1>7, <1>8, <1>9 DEF Follows

LEMMA StepFollows ==
  ASSUME BufferTypes, NEW type \in MvtTypes, NEW d, Reading(d, type), d.ok,
         NEW drawing, Follows(d, drawing, type),
         NEW command \in Command, Step(type, d, command).ok
  PROVE  Follows(Step(type, d, command), Drawn(type, drawing, command), type)
<1>1. PICK P, Q \in Nat : P = Len(points) /\ Q = Len(parts)
  BY ItemOf DEF BufferTypes
<1>2. /\ Grown(d) /\ d \in State /\ d.points \in Seq(Place) /\ Len(d.points) \in Nat /\ d.start \in Nat
      /\ d.ended \in Nat /\ PartsRead(d, type) /\ StartRead(d, type)
  BY ItemOf DEF Reading, Grown, State
<1>3. ~Failed(d).ok
  BY <1>2, FailedFails
<1>4. PICK paths \in Seq(Seq(Place)) :
        /\ paths = drawing.paths /\ drawing.place = d.cursor /\ Drew(d, paths, type)
        /\ d.start = 0 => paths = <<>> /\ d.ended = 0
        /\ d.start # 0 => /\ Len(paths) = d.ended + 1
                          /\ paths[d.ended + 1] = SubSeq(d.points, d.start, Len(d.points))
  BY DEF Follows
<1>5. PICK path \in Seq(Place) : path = Along(d.cursor, command.deltas)
  BY <1>2, ReadCoordsExtends
<1>6. PICK place : place = Arrived(d.cursor, path)
  OBVIOUS
<1>7. CASE command.op = "MoveTo" /\ (type # "Point" \/ paths = <<>>)
  <2>1. PICK more : more = Append(paths, path)
    OBVIOUS
  <2>2. Drawn(type, drawing, command) = [place |-> place, paths |-> more]
    BY <1>4, <1>5, <1>6, <1>7, <2>1 DEF Drawn
  <2>3. PICK N \in Nat : /\ N = Len(paths) /\ more \in Seq(Seq(Place)) /\ Len(more) = N + 1
                         /\ more[N + 1] = path /\ \A n \in 1..N : more[n] = paths[n]
    <3>1. PICK N \in Nat : N = Len(paths)
      BY ItemOf
    <3>2. /\ Append(paths, path) \in Seq(Seq(Place)) /\ Len(Append(paths, path)) = Len(paths) + 1
          /\ Append(paths, path)[Len(paths) + 1] = path
          /\ \A n \in 1..Len(paths) : Append(paths, path)[n] = paths[n]
      BY Appended
    <3> QED
      BY <2>1, <3>1, <3>2
  <2>4. PICK ending : ending = IF type = "Point" THEN d ELSE EndPart(d, type)
    OBVIOUS
  <2>5. PICK g : g = Started(ending)
    OBVIOUS
  <2>6. /\ Grown(ending) /\ ending.ok /\ PartsRead(ending, type) /\ ending.start = 0
        /\ ending.cursor = d.cursor /\ ending.ended = N /\ Drew(ending, paths, type)
    <3>1. CASE type = "Point"
      <4>1. d.start = 0
        <5>1. d.ended + 1 # 0 /\ Len(<<>>) = 0
          BY <1>2
        <5> QED
          BY <1>4, <1>7, <3>1, <5>1
      <4> QED
        BY <1>2, <1>4, <2>3, <2>4, <3>1, <4>1
    <3>2. CASE type # "Point"
      <4>1. Reading(ending, type) /\ ending.ok /\ ending.start = 0
        BY <1>1, <2>4, <3>2, EndPartReads DEF MvtTypes
      <4>2. ending.cursor = d.cursor /\ ending.ended = Len(paths) /\ Drew(ending, paths, type)
        BY <1>4, <2>4, <3>2, EndPartFollows
      <4> QED
        BY <2>3, <4>1, <4>2 DEF Reading
    <3> QED
      BY <3>1, <3>2
  <2>7. PICK start \in Nat : start = Len(ending.points) + 1 /\ ending.points \in Seq(Place)
    BY <2>6, ItemOf DEF Grown, State
  <2>8. /\ g.parts = ending.parts /\ g.points = ending.points /\ g.start = start
        /\ g.ended = N /\ g.cursor = d.cursor
    <3>1. g = [ending EXCEPT !.start = start]
      BY <2>5, <2>6, <2>7 DEF Started
    <3> QED
      BY <2>6, <3>1 DEF Grown, State
  <2>9. Grown(g) /\ Drew(g, paths, type)
    BY <2>5, <2>6, <2>8, StartedFacts DEF Drew
  <2>10. Step(type, d, command) = ReadCoords(g, command)
    <3>1. CASE type = "Point"
      BY <1>7, <2>4, <2>5, <3>1 DEF Step
    <3>2. CASE type # "Point"
      <4>1. command.count = 1
        BY <1>3, <1>7, <3>2 DEF Step
      <4> QED
        BY <1>7, <2>4, <2>5, <3>2, <4>1 DEF Step
    <3> QED
      BY <3>1, <3>2
  <2>11. SubSeq(g.points, g.start, Len(g.points)) \o path = path
    <3>1. SubSeq(g.points, g.start, Len(g.points)) = <<>>
      BY <2>7, <2>8
    <3> QED
      BY <3>1
  <2>12. g.start \in 1..(Len(g.points) + 1)
    <3>1. Len(ending.points) \in Nat
      BY <2>7
    <3> QED
      BY <2>7, <2>8, <3>1
  <2>13. /\ path = Along(g.cursor, command.deltas) /\ Len(more) = g.ended + 1
         /\ \A n \in 1..g.ended : more[n] = paths[n]
         /\ more[g.ended + 1] = SubSeq(g.points, g.start, Len(g.points)) \o path
         /\ ReadCoords(g, command).ok /\ Len(parts) \in Nat
    BY <1>1, <1>5, <2>3, <2>8, <2>10, <2>11
  <2>14. PICK drawn : drawn = [place |-> place, paths |-> more] /\ place = Arrived(g.cursor, path)
    BY <1>6, <2>8
  <2>15. Follows(ReadCoords(g, command), drawn, type)
    BY <2>3, <2>9, <2>12, <2>13, <2>14, ReadFollows
  <2> QED
    BY <2>2, <2>10, <2>14, <2>15
<1>8. CASE command.op \in {"MoveTo", "LineTo"} /\ ~(command.op = "MoveTo" /\ (type # "Point" \/ paths = <<>>))
  <2>1. d.start # 0 /\ Step(type, d, command) = ReadCoords(d, command)
    <3>1. CASE command.op = "MoveTo"
      <4>1. type = "Point" /\ d.start # 0
        BY <1>4, <1>8, <3>1
      <4>2. Started(d) = d
        BY <4>1 DEF Started
      <4> QED
        BY <3>1, <4>1, <4>2 DEF Step
    <3>2. CASE command.op = "LineTo"
      <4>1. type # "Point" /\ d.start # 0
        BY <1>3, <3>2 DEF Step
      <4> QED
        BY <3>2, <4>1 DEF Step
    <3> QED
      BY <1>8, <3>1, <3>2
  <2>2. PICK N \in Nat : /\ N = d.ended + 1 /\ Len(paths) = N
                         /\ paths[N] = SubSeq(d.points, d.start, Len(d.points))
    <3>1. d.ended + 1 \in Nat
      BY <1>2
    <3> QED
      BY <1>4, <2>1, <3>1
  <2>3. PICK last \in Seq(Place) : last = paths[N] \o path
    <3>1. paths[N] \in Seq(Place)
      <4>1. N \in 1..Len(paths)
        BY <1>2, <2>2
      <4> QED
        BY <4>1, ItemOf
    <3>2. \A a, b \in Seq(Place) : a \o b \in Seq(Place)
      OBVIOUS
    <3> QED
      BY <1>5, <3>1, <3>2
  <2>4. PICK more : more = [paths EXCEPT ![N] = last]
    OBVIOUS
  <2>5. /\ more \in Seq(Seq(Place)) /\ Len(more) = N /\ more[N] = last
        /\ \A n \in 1..d.ended : more[n] = paths[n]
    <3>1. N \in 1..Len(paths) /\ \A n \in 1..d.ended : n \in 1..Len(paths) /\ n # N
      BY <1>2, <2>2, SMTT(40)
    <3>2. /\ more \in Seq(Seq(Place)) /\ Len(more) = Len(paths) /\ more[N] = last
          /\ \A n \in 1..Len(paths) : n # N => more[n] = paths[n]
      BY <2>4, <3>1
    <3> QED
      BY <2>2, <3>1, <3>2
  <2>6. Drawn(type, drawing, command) = [place |-> place, paths |-> more]
    <3>1. paths # <<>>
      BY <2>2, <1>2
    <3>2. ~(command.op = "MoveTo" /\ (type # "Point" \/ drawing.paths = <<>>))
      BY <1>4, <1>8
    <3>3. [drawing.paths EXCEPT ![Len(drawing.paths)] = @ \o path] = more
      BY <1>4, <2>2, <2>3, <2>4
    <3> QED
      BY <1>4, <1>5, <1>6, <1>8, <3>1, <3>2, <3>3 DEF Drawn
  <2>7. d.start \in 1..(Len(d.points) + 1)
    BY <1>1, <1>2, <2>1 DEF StartRead, Grown
  <2>8. /\ Len(more) = d.ended + 1
        /\ more[d.ended + 1] = SubSeq(d.points, d.start, Len(d.points)) \o path
        /\ ReadCoords(d, command).ok /\ Len(parts) \in Nat
    BY <1>1, <2>1, <2>2, <2>3, <2>5
  <2>9. PICK drawn : drawn = [place |-> place, paths |-> more] /\ place = Arrived(d.cursor, path)
    BY <1>6
  <2>10. Follows(ReadCoords(d, command), drawn, type)
    BY <1>2, <1>4, <1>5, <2>5, <2>7, <2>8, <2>9, ReadFollows, ZenonT(40)
  <2> QED
    BY <2>1, <2>6, <2>9, <2>10
<1>9. CASE command.op \notin {"MoveTo", "LineTo"}
  <2>1. Drawn(type, drawing, command) = drawing
    BY <1>9 DEF Drawn
  <2>2. Step(type, d, command) = d
    BY <1>3, <1>9 DEF Step
  <2> QED
    BY <2>1, <2>2
<1> QED
  BY <1>7, <1>8, <1>9

\* The recursion of Paths has a solution.
DrawnUpTo(after, type, commands, n) ==
    after = [m \in 0..n |-> IF m = 0 THEN [place |-> <<0, 0>>, paths |-> <<>>]
                            ELSE Drawn(type, after[m - 1], commands[m])]

LEMMA DrawingsExist ==
  ASSUME NEW type, NEW commands
  PROVE  \A n \in Nat : \E after : DrawnUpTo(after, type, commands, n)
<1> DEFINE Blank == [place |-> <<0, 0>>, paths |-> <<>>]
           S == {n \in Nat : \E after : DrawnUpTo(after, type, commands, n)}
<1>1. 0 \in S
  <2>1. DrawnUpTo([m \in 0..0 |-> Blank], type, commands, 0)
    BY DEF DrawnUpTo
  <2> QED
    BY <2>1
<1>2. ASSUME NEW n \in Nat, n \in S
      PROVE  n + 1 \in S
  <2>1. PICK g : DrawnUpTo(g, type, commands, n)
    BY <1>2
  <2> DEFINE h == [m \in 0..(n + 1) |->
                     IF m = n + 1 THEN Drawn(type, g[n], commands[n + 1]) ELSE g[m]]
  <2>2. ASSUME NEW m \in 0..(n + 1)
        PROVE  h[m] = IF m = 0 THEN Blank ELSE Drawn(type, h[m - 1], commands[m])
    <3>1. CASE m = n + 1
      <4>1. h[m] = Drawn(type, g[n], commands[n + 1])
        BY <3>1
      <4>2. m # 0 /\ h[m - 1] = g[n]
        BY <3>1
      <4> QED
        BY <3>1, <4>1, <4>2
    <3>2. CASE m # n + 1
      <4>1. m \in 0..n /\ h[m] = g[m] /\ (m # 0 => m - 1 \in 0..n /\ h[m - 1] = g[m - 1])
        BY <3>2
      <4>2. g[m] = IF m = 0 THEN Blank ELSE Drawn(type, g[m - 1], commands[m])
        BY <2>1, <4>1 DEF DrawnUpTo
      <4> QED
        BY <4>1, <4>2
    <3> QED
      BY <3>1, <3>2
  <2>3. DrawnUpTo(h, type, commands, n + 1)
    BY <2>2 DEF DrawnUpTo
  <2> QED
    BY <2>3
<1> HIDE DEF S
<1>3. Nat \subseteq S
  BY <1>1, <1>2, Induction
<1> QED
  BY <1>3 DEF S

\* What decode_mvt has read when the commands end, and what was drawn by then.
LEMMA CommandsFollow ==
  ASSUME BufferTypes, BufferTypeOK, NEW input \in Inputs
  PROVE  \E d, drawing :
           /\ Reading(d, input.type) /\ Decoded(input) = Decided(Ended(d, input.type), input.type)
           /\ Paths(input) = drawing.paths
           /\ d.ok => Follows(d, drawing, input.type)
<1>1. PICK type \in MvtTypes, commands \in Seq(Command) : type = input.type /\ commands = input.commands
  BY BufferAssumption DEF MvtTypes
<1>2. PICK N \in Nat : N = Len(commands) /\ \A i \in 1..N : commands[i] \in Command
  BY ItemOf
<1> DEFINE after == CHOOSE after : StepsUpTo(after, type, commands, N)
           drawn == CHOOSE drawn : DrawnUpTo(drawn, type, commands, N)
<1>3. Decoded(input) = Decided(Ended(after[N], type), type)
  BY <1>1, <1>2 DEF Decoded, Decided, StepsUpTo, Ended, Count
<1>4. Paths(input) = drawn[N].paths
  BY <1>1, <1>2 DEF Paths, DrawnUpTo
<1>5. StepsUpTo(after, type, commands, N) /\ DrawnUpTo(drawn, type, commands, N)
  <2>1. (\E g : StepsUpTo(g, type, commands, N)) /\ (\E g : DrawnUpTo(g, type, commands, N))
    BY <1>2, StepsExist, DrawingsExist
  <2> QED
    BY <2>1
<1> HIDE DEF after, drawn
<1> DEFINE S == {n \in Nat : n <= N =>
                   Reading(after[n], type) /\ (after[n].ok => Follows(after[n], drawn[n], type))}
<1>6. 0 \in S
  <2>1. after[0] = Decoding /\ drawn[0] = [place |-> <<0, 0>>, paths |-> <<>>]
    BY <1>2, <1>5 DEF StepsUpTo, DrawnUpTo
  <2>2. Decoding.start = 0 /\ Decoding.ended = 0 /\ Decoding.cursor = <<0, 0>>
    BY DEF Decoding
  <2>3. <<>> \in Seq(Seq(Place))
    OBVIOUS
  <2>4. Follows(Decoding, [place |-> <<0, 0>>, paths |-> <<>>], type)
    BY <2>2, <2>3 DEF Follows, Drew
  <2> QED
    BY <2>1, <2>4, DecodingReads
<1>7. ASSUME NEW n \in Nat, n \in S
      PROVE  n + 1 \in S
  <2> SUFFICES ASSUME n + 1 <= N
               PROVE  /\ Reading(after[n + 1], type)
                      /\ after[n + 1].ok => Follows(after[n + 1], drawn[n + 1], type)
    OBVIOUS
  <2>1. /\ after[n + 1] = Step(type, after[n], commands[n + 1])
        /\ drawn[n + 1] = Drawn(type, drawn[n], commands[n + 1])
    <3>1. /\ \A m \in 0..N : after[m] = IF m = 0 THEN Decoding ELSE Step(type, after[m - 1], commands[m])
          /\ \A m \in 0..N : drawn[m] = IF m = 0 THEN [place |-> <<0, 0>>, paths |-> <<>>]
                                        ELSE Drawn(type, drawn[m - 1], commands[m])
      BY <1>5 DEF StepsUpTo, DrawnUpTo
    <3>2. n + 1 \in 0..N /\ n + 1 # 0 /\ (n + 1) - 1 = n
      BY <1>2
    <3> QED
      BY <3>1, <3>2
  <2>2. /\ Reading(after[n], type) /\ (after[n].ok => Follows(after[n], drawn[n], type))
        /\ commands[n + 1] \in Command
    BY <1>2, <1>7
  <2>3. ~after[n].ok => after[n + 1] = after[n]
    BY <2>1 DEF Step
  <2> QED
    BY <2>1, <2>2, <2>3, StepReads, StepFollows
<1> HIDE DEF S
<1>8. Reading(after[N], type) /\ (after[N].ok => Follows(after[N], drawn[N], type))
  <2>1. N \in S
    BY <1>2, <1>6, <1>7, Induction
  <2> QED
    BY <2>1 DEF S
<1> QED
  BY <1>1, <1>3, <1>4, <1>8

-----------------------------------------------------------------------------
(* Rings as polygons.                                                       *)

\* The recursion of Polygons has a solution.
GroupedUpTo(upto, rings, n) ==
    upto = [m \in 0..n |-> IF m = 0 THEN <<>> ELSE GroupedAs(upto[m - 1], rings, m)]

LEMMA GroupingsExist ==
  ASSUME NEW rings
  PROVE  \A n \in Nat : \E upto : GroupedUpTo(upto, rings, n)
<1> DEFINE S == {n \in Nat : \E upto : GroupedUpTo(upto, rings, n)}
<1>1. 0 \in S
  <2>1. GroupedUpTo([m \in 0..0 |-> <<>>], rings, 0)
    BY DEF GroupedUpTo
  <2> QED
    BY <2>1
<1>2. ASSUME NEW n \in Nat, n \in S
      PROVE  n + 1 \in S
  <2>1. PICK g : GroupedUpTo(g, rings, n)
    BY <1>2
  <2> DEFINE h == [m \in 0..(n + 1) |-> IF m = n + 1 THEN GroupedAs(g[n], rings, n + 1) ELSE g[m]]
  <2>2. ASSUME NEW m \in 0..(n + 1)
        PROVE  h[m] = IF m = 0 THEN <<>> ELSE GroupedAs(h[m - 1], rings, m)
    <3>1. CASE m = n + 1
      <4>1. h[m] = GroupedAs(g[n], rings, n + 1)
        BY <3>1
      <4>2. m # 0 /\ h[m - 1] = g[n]
        BY <3>1
      <4> QED
        BY <3>1, <4>1, <4>2
    <3>2. CASE m # n + 1
      <4>1. m \in 0..n /\ h[m] = g[m] /\ (m # 0 => m - 1 \in 0..n /\ h[m - 1] = g[m - 1])
        BY <3>2
      <4>2. g[m] = IF m = 0 THEN <<>> ELSE GroupedAs(g[m - 1], rings, m)
        BY <2>1, <4>1 DEF GroupedUpTo
      <4> QED
        BY <4>1, <4>2
    <3> QED
      BY <3>1, <3>2
  <2>3. GroupedUpTo(h, rings, n + 1)
    BY <2>2 DEF GroupedUpTo
  <2> QED
    BY <2>3
<1> HIDE DEF S
<1>3. Nat \subseteq S
  BY <1>1, <1>2, Induction
<1> QED
  BY <1>3 DEF S

Upto(rings) == CHOOSE upto : GroupedUpTo(upto, rings, Len(rings))

LEMMA UptoFacts ==
  ASSUME NEW rings, Len(rings) \in Nat
  PROVE  /\ PolygonsAs(rings) = Upto(rings)[Len(rings)] /\ Upto(rings)[0] = <<>>
         /\ \A n \in 0..Len(rings) : n # 0 => Upto(rings)[n] = GroupedAs(Upto(rings)[n - 1], rings, n)
<1>1. PolygonsAs(rings) = Upto(rings)[Len(rings)]
  BY DEF PolygonsAs, Polygons, Upto, GroupedUpTo, GroupedAs
<1>2. GroupedUpTo(Upto(rings), rings, Len(rings))
  <2>1. \E g : GroupedUpTo(g, rings, Len(rings))
    BY GroupingsExist
  <2> QED
    BY <2>1 DEF Upto
<1>3. \A m \in 0..Len(rings) : Upto(rings)[m] = IF m = 0 THEN <<>> ELSE GroupedAs(Upto(rings)[m - 1], rings, m)
  BY <1>2 DEF GroupedUpTo
<1> QED
  BY <1>1, <1>3

LEMMA ClosedType ==
  ASSUME NEW ring \in Seq(Place)
  PROVE  Closed(ring) \in Seq(Place)
<1>1. SubSeq(ring, 1, 1) = <<>> \/ SubSeq(ring, 1, 1) \in Seq(Place)
  <2>1. CASE ring = <<>>
    BY <2>1
  <2>2. CASE ring # <<>>
    <3>1. 1 \in 1..Len(ring)
      BY <2>2
    <3> QED
      BY <3>1
  <2> QED
    BY <2>1, <2>2
<1>2. \A a, b \in Seq(Place) : a \o b \in Seq(Place)
  OBVIOUS
<1>3. <<>> \in Seq(Place)
  OBVIOUS
<1> QED
  BY <1>1, <1>2, <1>3 DEF Closed

LEMMA GroupedIs ==
  ASSUME NEW rings \in Seq(Seq(Place)), NEW n \in 1..Len(rings), NEW polygons
  PROVE  /\ StartsPolygon(rings, n) => GroupedAs(polygons, rings, n) = Append(polygons, <<Closed(rings[n])>>)
         /\ ~StartsPolygon(rings, n) =>
              GroupedAs(polygons, rings, n) = [polygons EXCEPT ![Len(polygons)] = Append(@, Closed(rings[n]))]
<1>1. StartsPolygon(rings, n) <=> n = 1 \/ n \in Coded(rings)
  BY DEF StartsPolygon, Coded
<1> QED
  BY <1>1 DEF GroupedAs, Grouped

LEMMA GroupedFacts ==
  ASSUME NEW rings \in Seq(Seq(Place)), NEW n \in 1..Len(rings),
         NEW polygons \in Seq(Seq(Seq(Place))), n = 1 \/ Len(polygons) # 0
  PROVE  /\ GroupedAs(polygons, rings, n) \in Seq(Seq(Seq(Place)))
         /\ Len(GroupedAs(polygons, rings, n)) = Len(polygons) + IF StartsPolygon(rings, n) THEN 1 ELSE 0
<1>1. PICK ring \in Seq(Place) : ring = Closed(rings[n])
  BY ItemOf, ClosedType
<1>2. CASE StartsPolygon(rings, n)
  <2>1. PICK one \in Seq(Seq(Place)) : one = <<ring>>
    <3>1. <<>> \in Seq(Seq(Place)) /\ <<ring>> = Append(<<>>, ring)
      OBVIOUS
    <3>2. Append(<<>>, ring) \in Seq(Seq(Place))
      BY <3>1, Appended
    <3> QED
      BY <3>1, <3>2
  <2>2. GroupedAs(polygons, rings, n) = Append(polygons, one)
    BY <1>1, <1>2, <2>1, GroupedIs
  <2>3. Append(polygons, one) \in Seq(Seq(Seq(Place))) /\ Len(Append(polygons, one)) = Len(polygons) + 1
    BY Appended
  <2> QED
    BY <1>2, <2>2, <2>3
<1>3. CASE ~StartsPolygon(rings, n)
  <2>1. PICK last \in Nat : last = Len(polygons) /\ last \in 1..last
    <3>1. Len(polygons) # 0 /\ Len(polygons) \in Nat
      BY <1>3 DEF StartsPolygon
    <3> QED
      BY <3>1
  <2>2. PICK joined \in Seq(Seq(Place)) : joined = Append(polygons[last], ring)
    <3>1. polygons[last] \in Seq(Seq(Place))
      BY <2>1, ItemOf
    <3> QED
      BY <3>1, Appended
  <2>3. GroupedAs(polygons, rings, n) = [polygons EXCEPT ![last] = joined]
    BY <1>1, <1>3, <2>1, <2>2, GroupedIs, SMTT(40)
  <2>4. [polygons EXCEPT ![last] = joined] \in Seq(Seq(Seq(Place))) /\ Len([polygons EXCEPT ![last] = joined]) = last
    BY <2>1
  <2> QED
    BY <1>3, <2>1, <2>3, <2>4
<1> QED
  BY <1>2, <1>3

\* Rings are one polygon if no ring after the first starts one.
LEMMA OnePolygon ==
  ASSUME NEW rings \in Seq(Seq(Place)), Len(rings) # 0
  PROVE  /\ Len(PolygonsAs(rings)) \in Nat
         /\ Len(PolygonsAs(rings)) = 1 <=> \A m \in 2..Len(rings) : ~StartsPolygon(rings, m)
         /\ \A n \in 1..Len(rings) : Upto(rings)[n] # <<>>
<1>1. PICK N \in Nat : N = Len(rings) /\ N # 0
  BY ItemOf
<1> DEFINE Known(n) ==
             /\ Upto(rings)[n] \in Seq(Seq(Seq(Place)))
             /\ n = 0 => Len(Upto(rings)[n]) = 0
             /\ n # 0 => /\ Len(Upto(rings)[n]) # 0
                         /\ Len(Upto(rings)[n]) = 1 <=> \A m \in 2..n : ~StartsPolygon(rings, m)
           S == {n \in Nat : n <= N => Known(n)}
<1>2. 0 \in S
  <2>1. Upto(rings)[0] = <<>> /\ <<>> \in Seq(Seq(Seq(Place))) /\ Len(<<>>) = 0
    BY <1>1, UptoFacts
  <2> QED
    BY <2>1
<1>3. ASSUME NEW n \in Nat, n \in S
      PROVE  n + 1 \in S
  <2> SUFFICES ASSUME n + 1 <= N PROVE Known(n + 1)
    OBVIOUS
  <2>1. n <= N
    BY <1>1
  <2>2. Known(n)
    BY <1>3, <2>1
  <2>3. PICK old \in Seq(Seq(Seq(Place))) : old = Upto(rings)[n]
    BY <2>2
  <2>4. PICK k \in Nat : /\ k = Len(old) /\ (n = 0 => k = 0)
                         /\ (n # 0 => k # 0 /\ (k = 1 <=> \A m \in 2..n : ~StartsPolygon(rings, m)))
    <3>1. PICK k \in Nat : k = Len(old)
      BY ItemOf
    <3> QED
      BY <2>3, <2>2, <3>1
  <2>5. PICK new : new = Upto(rings)[n + 1]
    OBVIOUS
  <2>6. new = GroupedAs(old, rings, n + 1)
    <3>1. n + 1 \in 0..Len(rings) /\ n + 1 # 0 /\ (n + 1) - 1 = n
      BY <1>1
    <3>2. \A i \in 0..Len(rings) : i # 0 => Upto(rings)[i] = GroupedAs(Upto(rings)[i - 1], rings, i)
      BY <1>1, UptoFacts
    <3> QED
      BY <2>3, <2>5, <3>1, <3>2
  <2>7. /\ new \in Seq(Seq(Seq(Place)))
        /\ Len(new) = k + IF StartsPolygon(rings, n + 1) THEN 1 ELSE 0
    <3>1. n + 1 \in 1..Len(rings) /\ (n + 1 = 1 \/ Len(old) # 0)
      BY <1>1, <2>4
    <3> QED
      BY <2>4, <2>6, <3>1, GroupedFacts
  <2>8. Len(new) # 0 /\ (Len(new) = 1 <=> \A m \in 2..(n + 1) : ~StartsPolygon(rings, m))
    <3>1. CASE n = 0
      <4>1. k = 0 /\ StartsPolygon(rings, n + 1) /\ \A m \in 2..(n + 1) : FALSE
        BY <2>4, <3>1 DEF StartsPolygon
      <4>2. Len(new) = 1 /\ 1 # 0
        BY <2>7, <4>1
      <4>3. \A m \in 2..(n + 1) : ~StartsPolygon(rings, m)
        BY <4>1
      <4> QED
        BY <4>2, <4>3
    <3>2. CASE n # 0
      <4>1. k # 0 /\ (k = 1 <=> \A m \in 2..n : ~StartsPolygon(rings, m))
        BY <2>4, <3>2
      <4>2. n + 1 \in 2..(n + 1) /\ \A m \in 2..(n + 1) : m \in 2..n \/ m = n + 1
        BY <3>2
      <4>3. \A m \in 2..n : m \in 2..(n + 1)
        OBVIOUS
      <4>4. CASE StartsPolygon(rings, n + 1)
        <5>1. Len(new) # 0 /\ Len(new) # 1
          BY <2>7, <4>1, <4>4
        <5> QED
          BY <4>2, <4>4, <5>1
      <4>5. CASE ~StartsPolygon(rings, n + 1)
        <5>1. Len(new) = k
          BY <2>7, <4>5
        <5> QED
          BY <4>1, <4>2, <4>3, <4>5, <5>1
      <4> QED
        BY <4>4, <4>5
    <3> QED
      BY <3>1, <3>2
  <2> QED
    BY <2>5, <2>7, <2>8
<1> HIDE DEF S
<1>4. Nat \subseteq S
  BY <1>2, <1>3, Induction
<1>5. PolygonsAs(rings) = Upto(rings)[N]
  BY <1>1, UptoFacts
<1>6. \A n \in 0..N : Known(n)
  BY <1>1, <1>4 DEF S
<1>7. \A n \in 1..N : Upto(rings)[n] # <<>>
  <2>1. Len(<<>>) = 0
    OBVIOUS
  <2> QED
    BY <1>6, <2>1
<1> QED
  BY <1>1, <1>5, <1>6, <1>7, ItemOf

-----------------------------------------------------------------------------
(* What is decoded is what the input describes.                             *)

\* Parts of a list, with their coordinates in another, stand for the paths of an input.
Describe(rows, low, high, list, input) ==
    /\ Paths(input) \in Seq(Seq(Place)) /\ low + Len(Paths(input)) = high
    /\ Len(Paths(input)) # 0 /\ (input.type = "Point" => Len(Paths(input)) = 1)
    /\ \A n \in 1..Len(Paths(input)) : Stands(rows[low + n], list, input.type, Paths(input), n)

LEMMA DecodedDescribes ==
  ASSUME BufferTypes, BufferTypeOK, NEW input \in Inputs, Decoded(input).ok
  PROVE  LET d == Decoded(input) IN
         /\ Describe(d.parts, Len(parts), Len(d.parts), d.points, input)
         /\ d.single <=> Len(ShapeAs(input)) = 1
<1>1. PICK type \in MvtTypes : type = input.type
  BY BufferAssumption DEF MvtTypes
<1>2. PICK P, Q \in Nat : P = Len(points) /\ Q = Len(parts)
  BY ItemOf DEF BufferTypes
<1>3. PICK c, drawing :
        /\ Reading(c, type) /\ Decoded(input) = Decided(Ended(c, type), type)
        /\ Paths(input) = drawing.paths /\ (c.ok => Follows(c, drawing, type))
  BY <1>1, CommandsFollow
<1>4. PICK e : e = Ended(c, type)
  OBVIOUS
<1>5. PICK count : count = Count(e, type)
  OBVIOUS
<1>6. PICK d : d = Decoded(input) /\ d = [e EXCEPT !.ok = @ /\ count > 0, !.single = (count = 1)]
  BY <1>3, <1>4, <1>5 DEF Decided
<1>7. c.ok /\ e = EndPart(c, type)
  <2>1. ASSUME ~c.ok PROVE FALSE
    <3>1. e = c /\ c \in State
      BY <1>3, <1>4, <2>1 DEF Ended, Reading, Grown
    <3>2. ~d.ok
      BY <1>6, <2>1, <3>1 DEF State
    <3> QED
      BY <1>6, <3>2
  <2> QED
    BY <1>4, <2>1 DEF Ended
<1>8. PICK paths \in Seq(Seq(Place)) :
        /\ paths = Paths(input) /\ Follows(c, drawing, type) /\ paths = drawing.paths
        /\ Len(paths) \in Nat
  BY <1>3, <1>7, ItemOf DEF Follows
<1>9. e \in State /\ e.ok /\ e.ended = Len(paths) /\ Drew(e, paths, type)
  BY <1>3, <1>7, <1>8, EndPartFollows
<1>10. /\ d.points = e.points /\ d.parts = e.parts /\ count > 0 /\ (d.single <=> count = 1)
  <2>1. PICK good, single \in BOOLEAN : good = (e.ok /\ count > 0) /\ single = (count = 1)
    OBVIOUS
  <2>2. d = [e EXCEPT !.ok = good, !.single = single]
    BY <1>6, <2>1
  <2>3. d.points = e.points /\ d.parts = e.parts /\ d.ok = good /\ d.single = single
    BY <1>9, <2>2 DEF State
  <2> QED
    BY <1>6, <2>1, <2>3
<1>11. CASE type = "Point"
  <2>1. c \in State /\ c.points \in Seq(Place) /\ Len(c.points) \in Nat /\ c.ended = 0 /\ Len(c.parts) = Q + 0
    BY <1>2, <1>3, <1>7, <1>11, ItemOf DEF Reading, Grown, PartsRead, State
  <2>2. c.start # 0 /\ c.start = P + 1 /\ P <= Len(c.points)
    <3>1. /\ (c.start = 0 => Len(c.points) = P) /\ (c.start # 0 => c.start = P + 1)
          /\ P <= Len(c.points)
      BY <1>2, <1>3, <1>7, <1>11 DEF Reading, Grown, StartRead
    <3>2. ASSUME c.start = 0 PROVE FALSE
      <4>1. e = c
        BY <1>7, <3>2 DEF EndPart
      <4>2. count = P - P
        BY <1>2, <1>5, <1>11, <3>1, <3>2, <4>1 DEF Count
      <4> QED
        BY <1>10, <4>2
    <3> QED
      BY <3>1, <3>2
  <2>3. Len(paths) = 1 /\ paths[1] = SubSeq(c.points, P + 1, Len(c.points))
    BY <1>8, <2>1, <2>2 DEF Follows
  <2>4. e.points = c.points /\ Len(e.parts) = Q + 1
    <3>1. /\ e.points = c.points
          /\ e.parts = Append(c.parts, [role |-> Role(c, type), coords |-> <<c.start - 1, Len(e.points)>>])
      BY <1>7, <1>11, <2>1, <2>2, EndPartFields
    <3>2. c.parts \in Seq(PartRow)
      BY <2>1 DEF State
    <3>3. \A new : Len(Append(c.parts, new)) = Len(c.parts) + 1
      BY <3>2
    <3> QED
      BY <2>1, <3>1, <3>3
  <2>5. Describe(d.parts, Q, Len(d.parts), d.points, input)
    BY <1>1, <1>2, <1>8, <1>9, <1>10, <1>11, <2>3, <2>4 DEF Describe, Drew
  <2>6. ShapeAs(input) = paths[1]
    <3>1. paths # <<>>
      <4>1. Len(<<>>) = 0 /\ 1 # 0
        OBVIOUS
      <4>2. Len(paths) = 1
        BY <2>3
      <4> QED
        BY <4>1, <4>2
    <3> QED
      BY <1>1, <1>8, <1>11, <3>1 DEF ShapeAs, Shape
  <2>7. Len(paths[1]) = Len(c.points) - P
    BY <2>1, <2>2, <2>3
  <2>8. count = Len(c.points) - P
    BY <1>2, <1>5, <1>11, <2>4 DEF Count
  <2> QED
    BY <1>2, <1>6, <1>10, <2>5, <2>6, <2>7, <2>8
<1>12. CASE type # "Point"
  <2>1. Reading(e, type)
    BY <1>2, <1>3, <1>7, <1>12, EndPartReads DEF MvtTypes
  <2>2. PICK N \in Nat : N = e.ended /\ N = Len(paths) /\ Len(e.parts) = Q + N
    BY <1>2, <1>8, <1>9, <2>1 DEF Reading, Grown
  <2>3. N # 0
    <3>1. type = "Polygon" => (e.exteriors = 0 <=> e.ended = 0)
      BY <1>9, <2>1 DEF Reading, PartsRead
    <3>2. type = "LineString" => count = e.ended
      BY <1>5 DEF Count
    <3>3. type = "Polygon" => count = e.exteriors
      BY <1>5 DEF Count
    <3>4. count # 0
      BY <1>10
    <3> QED
      BY <1>12, <2>2, <3>1, <3>2, <3>3, <3>4 DEF MvtTypes
  <2>4. Describe(d.parts, Q, Len(d.parts), d.points, input)
    BY <1>1, <1>2, <1>8, <1>9, <1>10, <1>12, <2>2, <2>3 DEF Describe, Drew
  <2>5. CASE type = "LineString"
    <3>1. count = Len(paths) /\ ShapeAs(input) = paths
      BY <1>1, <1>5, <1>8, <1>9, <2>5 DEF Count, ShapeAs, Shape, PolygonsAs
    <3> QED
      BY <1>2, <1>6, <1>10, <2>4, <3>1
  <2>6. CASE type = "Polygon"
    <3>1. count = e.exteriors /\ ShapeAs(input) = PolygonsAs(paths)
      BY <1>1, <1>5, <1>8, <2>6 DEF Count, ShapeAs, Shape, PolygonsAs
    <3>2. Len(PolygonsAs(paths)) = 1 <=> \A m \in 2..N : ~StartsPolygon(paths, m)
      BY <2>2, <2>3, OnePolygon
    <3>3. \A n \in 1..N : e.parts[Q + n].role = IF StartsPolygon(paths, n) THEN "Exterior" ELSE "Hole"
      BY <1>2, <1>9, <2>2, <2>6 DEF Drew, Stands, RoleIn
    <3>4. e.exteriors = 1 <=> {p \in (Q + 1)..(Q + N) : e.parts[p].role = "Exterior"} = {Q + 1}
      BY <1>2, <1>9, <2>1, <2>2, <2>6 DEF Reading, PartsRead, New
    <3>5. ASSUME \A m \in 2..N : ~StartsPolygon(paths, m)
          PROVE  {p \in (Q + 1)..(Q + N) : e.parts[p].role = "Exterior"} = {Q + 1}
      <4>1. \A p \in (Q + 1)..(Q + N) : p = Q + 1 \/ (p - Q \in 2..N /\ p = Q + (p - Q))
        OBVIOUS
      <4>2. \A m \in 2..N : e.parts[Q + m].role = "Hole"
        <5>1. \A m \in 2..N : m \in 1..N
          OBVIOUS
        <5> QED
          BY <3>3, <3>5, <5>1
      <4>3. e.parts[Q + 1].role = "Exterior" /\ Q + 1 \in (Q + 1)..(Q + N)
        <5>1. 1 \in 1..N /\ Q + 1 \in (Q + 1)..(Q + N)
          BY <2>3
        <5>2. StartsPolygon(paths, 1)
          BY DEF StartsPolygon
        <5> QED
          BY <3>3, <5>1, <5>2
      <4>4. \A p \in (Q + 1)..(Q + N) : e.parts[p].role = "Exterior" => p = Q + 1
        <5> SUFFICES ASSUME NEW p \in (Q + 1)..(Q + N), p # Q + 1 PROVE e.parts[p].role = "Hole"
          OBVIOUS
        <5>1. PICK m \in 2..N : p = Q + m
          BY <4>1
        <5> QED
          BY <4>2, <5>1
      <4> QED
        BY <4>3, <4>4
    <3>6. ASSUME {p \in (Q + 1)..(Q + N) : e.parts[p].role = "Exterior"} = {Q + 1}, NEW m \in 2..N
          PROVE  ~StartsPolygon(paths, m)
      <4>1. m \in 1..N /\ Q + m \in (Q + 1)..(Q + N) /\ Q + m # Q + 1
        OBVIOUS
      <4>2. e.parts[Q + m].role # "Exterior"
        BY <3>6, <4>1
      <4> QED
        BY <3>3, <4>1, <4>2
    <3> QED
      BY <1>2, <1>6, <1>10, <2>4, <3>1, <3>2, <3>4, <3>5, <3>6
  <2> QED
    BY <1>12, <2>5, <2>6 DEF MvtTypes
<1> QED
  BY <1>11, <1>12

-----------------------------------------------------------------------------
(* What the builder keeps of what it was given.                             *)

Distinct == \A j, k \in DOMAIN names : names[j] = names[k] => j = k

\* A feature shows the input it was begun with.
Shows(f, input) ==
    /\ given[f].input = input /\ given[f].id = features[f].id
    /\ features[f].type = GeometryType(input.type, Len(ShapeAs(input)) = 1)
    /\ Describe(parts, features[f].parts[1], features[f].parts[2], points, input)

\* A cell is the last value of the range that was set in its column, if any was.
SetLast(cell, k, range) ==
    \/ /\ cell = NoValue
       /\ \A v \in (range[1] + 1)..range[2] : values[v].key # k
    \/ \E v \in (range[1] + 1)..range[2] :
          /\ values[v].key = k /\ \A w \in (v + 1)..range[2] : values[w].key # k
          /\ cell = Raw(values[v].value)

Valued(f) == \A k \in DOMAIN names : SetLast(given[f].values[names[k]], k, features[f].values)

Unset(f) ==
    \A name \in Names :
        (\A k \in DOMAIN names : names[k] # name) => given[f].values[name] = NoValue

\* The values of the last feature are the last ones.
Current == features # <<>> => features[Len(features)].values[2] = Len(values)

Told ==
    \A v \in DOMAIN values :
        Raw(values[v].value) \in Raws /\ Raw(values[v].value).kind = values[v].value.kind

GInv ==
    /\ Distinct /\ Current /\ Told
    /\ \A f \in DOMAIN features : (\E input \in Inputs : Shows(f, input)) /\ Valued(f) /\ Unset(f)

Blank ==
    /\ names = <<>> /\ kinds = <<>> /\ features = <<>> /\ parts = <<>> /\ points = <<>>
    /\ values = <<>> /\ strings = <<>> /\ given = <<>>

LEMMA BlankGiven == Blank => GInv
  BY DEF Blank, GInv, Distinct, Current, Told

LEMMA BlankGivenNext == Blank' => GInv'
  BY BlankGiven, PTL

LEMMA SameGiven ==
  ASSUME GInv, UNCHANGED buffer
  PROVE  GInv'
<1>1. Distinct' /\ Current' /\ Told'
  BY DEF GInv, buffer, Distinct, Current, Told, Raw
<1>2. \A f \in DOMAIN features : (\E input \in Inputs : Shows(f, input)') /\ Valued(f)' /\ Unset(f)'
  BY DEF GInv, buffer, Shows, Valued, Unset, SetLast, Raw
<1> QED
  BY <1>1, <1>2 DEF GInv, buffer

LEMMA AddPropertyGiven ==
  ASSUME LInv, GInv, NEW name \in Names, BufferAddProperty(name)
  PROVE  GInv'
<1>1. PICK M \in Nat : M = Len(names) /\ DOMAIN names = 1..M
  BY RowFacts
<1>2. /\ names' = Append(names, name) /\ \A k \in 1..M : names[k] # name
      /\ UNCHANGED <<features, parts, points, values, strings, given>>
  BY <1>1 DEF BufferAddProperty
<1>3. /\ DOMAIN names' = 1..(M + 1) /\ names'[M + 1] = name /\ \A k \in 1..M : names'[k] = names[k]
  <2>1. names \in Seq(Names)
    BY DEF LInv, BufferTypes
  <2> QED
    BY <1>1, <1>2, <2>1, Appended
<1>4. /\ \A k \in 1..(M + 1) : k \in 1..M \/ k = M + 1
      /\ \A k \in 1..M : k \in 1..(M + 1)
  OBVIOUS
<1>5. Distinct'
  BY <1>1, <1>2, <1>3, <1>4 DEF Distinct, GInv
<1>6. Current' /\ Told'
  BY <1>2 DEF GInv, Current, Told, Raw
<1>7. ASSUME NEW f \in DOMAIN features
      PROVE  (\E input \in Inputs : Shows(f, input)') /\ Valued(f)' /\ Unset(f)'
  <2>1. \E input \in Inputs : Shows(f, input)'
    BY <1>2 DEF GInv, Shows
  <2>2. Unset(f)'
    <3> SUFFICES ASSUME NEW other \in Names, \A k \in DOMAIN names' : names'[k] # other
                 PROVE  given[f].values[other] = NoValue
      BY <1>2 DEF Unset
    <3>1. \A k \in DOMAIN names : names[k] # other
      BY <1>1, <1>3, <1>4
    <3> QED
      BY <3>1 DEF GInv, Unset
  <2>3. ASSUME NEW k \in 1..(M + 1)
        PROVE  SetLast(given[f].values[names'[k]], k, features[f].values)
    <3>1. CASE k \in 1..M
      BY <1>1, <1>3, <3>1 DEF GInv, Valued
    <3>2. CASE k = M + 1
      <4>1. given[f].values[name] = NoValue
        BY <1>1, <1>2 DEF GInv, Unset
      <4>2. PICK low, high \in Nat : features[f].values = <<low, high>> /\ high <= Len(values)
        <5>1. features[f].values \in Span /\ IsRange(features[f].values, values)
          BY RowFacts DEF FeatureRow
        <5> QED
          BY <5>1 DEF Span, IsRange
      <4>3. \A v \in (low + 1)..high : values[v].key # M + 1
        <5>1. \A v \in (low + 1)..high : v \in DOMAIN values
          BY <4>2, RowFacts
        <5>2. \A v \in DOMAIN values : values[v].key \in 1..M
          BY <1>1, RowFacts
        <5>3. M + 1 \notin 1..M
          OBVIOUS
        <5> QED
          BY <5>1, <5>2, <5>3
      <4> QED
        BY <1>3, <3>2, <4>1, <4>2, <4>3 DEF SetLast
    <3> QED
      BY <3>1, <3>2
  <2>4. Valued(f)'
    <3> SUFFICES ASSUME NEW k \in 1..(M + 1)
                 PROVE  SetLast(given[f].values[names[k]], k, features[f].values)'
      BY <1>3 DEF Valued
    <3>1. SetLast(given[f].values[names'[k]], k, features[f].values)
      BY <2>3
    <3> QED
      BY <1>2, <3>1 DEF SetLast, Raw
  <2> QED
    BY <2>1, <2>2, <2>4
<1> QED
  BY <1>2, <1>5, <1>6, <1>7 DEF GInv

\* Lists that only grow show what they showed.
LEMMA DescribeKept ==
  ASSUME NEW rows \in Seq(PartRow), NEW low \in Nat, NEW high \in Nat, high <= Len(rows),
         NEW list \in Seq(Place), \A p \in 1..Len(rows) : IsRange(rows[p].coords, list),
         NEW input, Describe(rows, low, high, list, input),
         NEW more, \A p \in 1..Len(rows) : more[p] = rows[p],
         NEW longer \in Seq(Place), Len(list) <= Len(longer), \A i \in 1..Len(list) : longer[i] = list[i]
  PROVE  Describe(more, low, high, longer, input)
<1>1. PICK paths \in Seq(Seq(Place)) : paths = Paths(input) /\ low + Len(paths) = high /\ Len(paths) \in Nat
  BY ItemOf DEF Describe
<1>2. ASSUME NEW n \in 1..Len(paths)
      PROVE  Stands(more[low + n], longer, input.type, paths, n)
  <2>1. low + n \in 1..Len(rows)
    BY <1>1
  <2>2. PICK part \in PartRow : part = rows[low + n] /\ more[low + n] = part /\ IsRange(part.coords, list)
    BY <2>1, ItemOf
  <2>3. ItemsIn(longer, part.coords) = ItemsIn(list, part.coords)
    <3>1. part.coords \in Span
      BY DEF PartRow
    <3> QED
      BY <2>2, <3>1, ItemsStay
  <2>4. Stands(part, list, input.type, paths, n)
    BY <1>1, <2>2 DEF Describe
  <2> QED
    BY <2>2, <2>3, <2>4 DEF Stands
<1> QED
  BY <1>1, <1>2 DEF Describe

LEMMA BeginGiven ==
  ASSUME LInv, GInv, NEW input \in Inputs, NEW id \in Ids \cup {NoId}, Begin(input, id)
  PROVE  GInv'
<1>1. PICK d : d = Decoded(input)
  OBVIOUS
<1>2. DecodedFits(d, input.type)
  BY <1>1, DecodedIsFit DEF LInv
<1>3. PICK P, Q, V, N \in Nat : /\ P = Len(points) /\ Q = Len(parts) /\ V = Len(values) /\ N = Len(features)
                                /\ DOMAIN features = 1..N /\ Len(given) = N
  BY RowFacts DEF LInv, BufferTypeOK
<1>4. BufferTypes /\ BufferTypeOK /\ UNCHANGED <<names, kinds, values, strings>>
  BY DEF LInv, Begin
<1>5. Len(d.points) \in Nat /\ Len(d.parts) \in Nat /\ P <= Len(d.points) /\ Q <= Len(d.parts)
  BY <1>2, <1>3, ItemOf DEF DecodedFits
<1>6. Distinct' /\ Told'
  BY <1>4 DEF GInv, Distinct, Told, Raw
<1>7. CASE d.ok
  <2>1. PICK type : type = GeometryType(input.type, d.single)
    OBVIOUS
  <2>2. PICK new : new = [type |-> type, id |-> id, parts |-> <<Q, Len(d.parts)>>, values |-> <<V, V>>]
    OBVIOUS
  <2>3. /\ points' = d.points /\ parts' = d.parts /\ features' = Append(features, new)
        /\ given' = Append(given, Promised(input, id))
    BY <1>1, <1>3, <1>7, <2>1, <2>2 DEF Begin
  <2>4. PICK promise : promise = Promised(input, id)
    OBVIOUS
  <2>5. /\ Len(features') = N + 1 /\ DOMAIN features' = 1..(N + 1)
        /\ features'[N + 1] = new /\ \A f \in 1..N : features'[f] = features[f]
        /\ given'[N + 1] = promise /\ \A f \in 1..N : given'[f] = given[f]
    <3>1. features \in Seq(FeatureRow) /\ given \in Seq(Promise)
      BY <1>4 DEF BufferTypes
    <3>2. \A x : /\ Len(Append(features, x)) = N + 1 /\ DOMAIN Append(features, x) = 1..(N + 1)
                 /\ Append(features, x)[N + 1] = x /\ \A f \in 1..N : Append(features, x)[f] = features[f]
      BY <1>3, <3>1
    <3>3. \A x : Append(given, x)[N + 1] = x /\ \A f \in 1..N : Append(given, x)[f] = given[f]
      BY <1>3, <3>1
    <3> QED
      BY <2>3, <2>4, <3>2, <3>3
  <2>6. /\ promise.input = input /\ promise.id = id
        /\ promise.values = [name \in Names |-> NoValue]
    BY <2>4 DEF Promised
  <2>7. new.type = type /\ new.id = id /\ new.parts = <<Q, Len(d.parts)>> /\ new.values = <<V, V>>
    BY <2>2
  <2>8. /\ Describe(d.parts, Q, Len(d.parts), d.points, input)
        /\ type = GeometryType(input.type, Len(ShapeAs(input)) = 1)
    <3>1. /\ Describe(d.parts, Q, Len(d.parts), d.points, input)
          /\ d.single <=> Len(ShapeAs(input)) = 1
      BY <1>1, <1>3, <1>4, <1>7, DecodedDescribes
    <3> QED
      BY <2>1, <3>1 DEF GeometryType
  <2>9. Shows(N + 1, input)'
    <3>1. <<Q, Len(d.parts)>>[1] = Q /\ <<Q, Len(d.parts)>>[2] = Len(d.parts)
      OBVIOUS
    <3> QED
      BY <2>3, <2>5, <2>6, <2>7, <2>8, <3>1 DEF Shows
  <2>10. ASSUME NEW f \in 1..N
         PROVE  \E other \in Inputs : Shows(f, other)'
    <3>1. PICK other \in Inputs : Shows(f, other)
      BY <1>3 DEF GInv
    <3>2. PICK low, high \in Nat : features[f].parts = <<low, high>> /\ high <= Q
      <4>1. features[f] \in FeatureRow /\ IsRange(features[f].parts, parts)
        BY <1>3, RowFacts
      <4> QED
        BY <1>3, <4>1 DEF FeatureRow, Span, IsRange
    <3>3. Describe(parts, low, high, points, other)
      BY <3>1, <3>2 DEF Shows
    <3>4. Describe(d.parts, low, high, d.points, other)
      <4>1. /\ parts \in Seq(PartRow) /\ points \in Seq(Place) /\ d.points \in Seq(Place)
            /\ \A p \in 1..Len(parts) : IsRange(parts[p].coords, points)
        BY <1>2, <1>4, RowFacts DEF BufferTypes, DecodedFits
      <4>2. /\ high <= Len(parts) /\ Len(points) <= Len(d.points)
            /\ \A p \in 1..Len(parts) : d.parts[p] = parts[p]
            /\ \A i \in 1..Len(points) : d.points[i] = points[i]
        BY <1>2, <1>3, <1>5, <3>2 DEF DecodedFits
      <4> QED
        BY <3>3, <4>1, <4>2, DescribeKept
    <3>5. <<low, high>>[1] = low /\ <<low, high>>[2] = high
      OBVIOUS
    <3>6. Shows(f, other)'
      BY <2>3, <2>5, <3>1, <3>2, <3>4, <3>5 DEF Shows
    <3> QED
      BY <3>6
  <2>11. ASSUME NEW f \in 1..N
         PROVE  Valued(f)' /\ Unset(f)'
    <3>1. Valued(f) /\ Unset(f)
      BY <1>3 DEF GInv
    <3>2. Valued(f)'
      <4> SUFFICES ASSUME NEW k \in DOMAIN names
                   PROVE  SetLast(given[f].values[names[k]], k, features[f].values)'
        BY <1>4 DEF Valued
      <4>1. PICK cell, span : cell = given[f].values[names[k]] /\ span = features[f].values
        OBVIOUS
      <4>2. SetLast(cell, k, span)
        BY <3>1, <4>1 DEF Valued
      <4>3. SetLast(cell, k, span)'
        BY <1>4, <4>2 DEF SetLast, Raw
      <4>4. given'[f].values[names'[k]] = cell /\ features'[f].values = span
        BY <1>4, <2>5, <4>1
      <4> QED
        BY <4>3, <4>4
    <3> QED
      BY <1>4, <2>5, <3>1, <3>2 DEF Unset
  <2>12. Valued(N + 1)' /\ Unset(N + 1)'
    <3>1. \A name \in Names : given'[N + 1].values[name] = NoValue
      BY <2>5, <2>6
    <3>2. \A k \in DOMAIN names : names[k] \in Names
      BY <1>4, ItemOf DEF BufferTypes
    <3>3. PICK span : span = features'[N + 1].values /\ span[1] = V /\ span[2] = V /\ (V + 1)..V = {}
      <4>1. <<V, V>>[1] = V /\ <<V, V>>[2] = V /\ (V + 1)..V = {}
        OBVIOUS
      <4>2. features'[N + 1].values = <<V, V>>
        BY <2>5, <2>7
      <4> QED
        BY <4>1, <4>2
    <3>4. \A k \in DOMAIN names : SetLast(NoValue, k, span)'
      BY <3>3 DEF SetLast
    <3>5. \A k \in DOMAIN names : given'[N + 1].values[names[k]] = NoValue
      BY <3>1, <3>2
    <3>6. Valued(N + 1)'
      <4> SUFFICES ASSUME NEW k \in DOMAIN names
                   PROVE  SetLast(given[N + 1].values[names[k]], k, features[N + 1].values)'
        BY <1>4 DEF Valued
      <4>1. SetLast(NoValue, k, span)'
        BY <3>4
      <4>2. given'[N + 1].values[names[k]] = NoValue
        BY <3>5
      <4> QED
        BY <1>4, <3>3, <4>1, <4>2 DEF SetLast
    <3> QED
      BY <1>4, <3>1, <3>6 DEF Unset
  <2>13. Current'
    BY <1>3, <1>4, <2>5, <2>7 DEF Current
  <2>14. \A f \in 1..(N + 1) : f \in 1..N \/ f = N + 1
    OBVIOUS
  <2> QED
    BY <1>6, <2>5, <2>9, <2>10, <2>11, <2>12, <2>13, <2>14 DEF GInv
<1>8. CASE ~d.ok
  <2>1. /\ points' = SubSeq(d.points, 1, P) /\ parts' = SubSeq(d.parts, 1, Q)
        /\ UNCHANGED <<features, given>>
    BY <1>1, <1>3, <1>8 DEF Begin
  <2>2. points' = points
    <3>1. points \in Seq(Place) /\ d.points \in Seq(Place) /\ \A i \in 1..P : d.points[i] = points[i]
      BY <1>2, <1>3, <1>4 DEF BufferTypes, DecodedFits
    <3> QED
      BY <1>3, <1>5, <2>1, <3>1
  <2>3. parts' = parts
    <3>1. parts \in Seq(PartRow) /\ d.parts \in Seq(PartRow) /\ \A p \in 1..Q : d.parts[p] = parts[p]
      BY <1>2, <1>3, <1>4 DEF BufferTypes, DecodedFits
    <3> QED
      BY <1>3, <1>5, <2>1, <3>1
  <2> QED
    BY <1>4, <2>1, <2>2, <2>3, SameGiven DEF buffer
<1> QED
  BY <1>2, <1>7, <1>8 DEF DecodedFits

\* Texts that only grow read as they did.
LEMMA RawKept ==
  ASSUME strings \in Seq(Letters), strings' \in Seq(Letters), Len(strings) <= Len(strings'),
         \A i \in 1..Len(strings) : strings'[i] = strings[i],
         NEW stored \in Stored, stored.kind = "Str" => IsRange(stored.range, strings)
  PROVE  Raw(stored)' = Raw(stored)
<1>1. CASE stored.kind = "Str"
  <2>1. PICK range \in Span : range = stored.range /\ IsRange(range, strings)
    BY <1>1 DEF Stored
  <2>2. ItemsIn(strings', range) = ItemsIn(strings, range)
    BY <2>1, ItemsStay
  <2> QED
    BY <1>1, <2>1, <2>2 DEF Raw
<1>2. CASE stored.kind # "Str"
  BY <1>2 DEF Raw
<1> QED
  BY <1>1, <1>2

LEMMA StoreGiven ==
  ASSUME LInv, GInv, NEW key \in DOMAIN names, NEW stored \in Stored, NEW raw \in Raws,
         stored.kind = raw.kind, features # <<>>, Store(key, stored, raw),
         UNCHANGED <<names, parts, points>>,
         strings' \in Seq(Letters), Len(strings) <= Len(strings'),
         \A i \in 1..Len(strings) : strings'[i] = strings[i], Raw(stored)' = raw
  PROVE  GInv'
<1>1. PICK N, V, M \in Nat : /\ N = Len(features) /\ V = Len(values) /\ M = Len(names)
                             /\ DOMAIN features = 1..N /\ DOMAIN values = 1..V /\ DOMAIN names = 1..M
  BY RowFacts
<1>2. BufferTypes /\ BufferTypeOK /\ strings \in Seq(Letters)
  BY DEF LInv, BufferTypes
<1>3. N \in 1..N
  BY <1>1, <1>2 DEF BufferTypes
<1>4. PICK new \in [key : Nat, value : Stored] : new = [key |-> key, value |-> stored]
  <2>1. key \in Nat
    BY RowFacts
  <2> QED
    BY <2>1
<1>5. /\ Len(values') = V + 1 /\ DOMAIN values' = 1..(V + 1)
      /\ values'[V + 1].key = key /\ values'[V + 1].value = stored
      /\ \A v \in 1..V : values'[v] = values[v]
  <2>1. values' = Append(values, new) /\ values \in Seq([key : Nat, value : Stored])
    BY <1>2, <1>4 DEF Store, BufferTypes
  <2>2. /\ Len(values') = V + 1 /\ DOMAIN values' = 1..(V + 1) /\ values'[V + 1] = new
        /\ \A v \in 1..V : values'[v] = values[v]
    BY <1>1, <2>1, Appended
  <2> QED
    BY <1>4, <2>2
<1>6. \A v \in 1..(V + 1) : v \in 1..V \/ v = V + 1
  OBVIOUS
<1>7. ASSUME NEW v \in 1..V, NEW old, old = values[v].value
      PROVE  values'[v].value = old /\ Raw(old)' = Raw(old) /\ Raw(old) \in Raws /\ Raw(old).kind = old.kind
  <2>1. /\ old \in Stored /\ (old.kind = "Str" => IsRange(old.range, strings))
        /\ Raw(old) \in Raws /\ Raw(old).kind = old.kind
    BY <1>1, <1>7, RowFacts DEF GInv, Told
  <2>2. Raw(old)' = Raw(old)
    BY <1>2, <2>1, RawKept
  <2> QED
    BY <1>5, <1>7, <2>1, <2>2
<1>8. PICK low, high \in Nat :
        features[N].values = <<low, high>> /\ low <= high /\ high = V
  <2>1. features[N].values \in Span /\ IsRange(features[N].values, values)
    BY <1>1, <1>3, RowFacts DEF FeatureRow
  <2>2. PICK low, high \in Nat : features[N].values = <<low, high>> /\ low <= high
    BY <2>1 DEF Span, IsRange
  <2>3. features[N].values[2] = V
    BY <1>1 DEF GInv, Current
  <2> QED
    BY <2>2, <2>3
<1>9. /\ features' = [features EXCEPT ![N].values = <<low, V + 1>>]
      /\ given' = [given EXCEPT ![N].values[names[key]] = raw]
  <2>1. Len(given) = N
    BY <1>1, <1>2 DEF BufferTypeOK
  <2> QED
    BY <1>1, <1>5, <1>8, <2>1 DEF Store
<1>10. /\ Len(features') = N /\ DOMAIN features' = 1..N /\ \A f \in 1..N : f # N => features'[f] = features[f]
       /\ features'[N].values = <<low, V + 1>> /\ features'[N].parts = features[N].parts
       /\ features'[N].type = features[N].type /\ features'[N].id = features[N].id
  <2>1. PICK feature \in FeatureRow : feature = features[N]
    BY <1>1, <1>3, RowFacts
  <2>2. PICK more : more = [feature EXCEPT !.values = <<low, V + 1>>]
    OBVIOUS
  <2>3. /\ more.values = <<low, V + 1>> /\ more.parts = feature.parts /\ more.type = feature.type
        /\ more.id = feature.id
    BY <2>2 DEF FeatureRow
  <2>4. features' = [features EXCEPT ![N] = more] /\ features \in Seq(FeatureRow)
    BY <1>2, <1>9, <2>1, <2>2 DEF BufferTypes
  <2>5. /\ Len(features') = N /\ DOMAIN features' = 1..N /\ features'[N] = more
        /\ \A f \in 1..N : f # N => features'[f] = features[f]
    BY <1>1, <1>3, <2>4
  <2> QED
    BY <2>1, <2>3, <2>5
<1>11. /\ \A f \in 1..N : f # N => given'[f] = given[f]
       /\ given'[N].input = given[N].input /\ given'[N].id = given[N].id
       /\ \A name \in Names : given'[N].values[name] = IF name = names[key] THEN raw ELSE given[N].values[name]
  <2>1. given \in Seq(Promise) /\ Len(given) = N
    BY <1>1, <1>2 DEF BufferTypeOK, BufferTypes
  <2>2. PICK promise \in Promise : promise = given[N]
    BY <1>3, <2>1
  <2>3. names[key] \in Names
    BY <1>2 DEF BufferTypes
  <2>4. PICK unset \in [Names -> Raws \cup {NoValue}] : unset = promise.values
    BY DEF Promise
  <2>5. PICK set : set = [unset EXCEPT ![names[key]] = raw]
    OBVIOUS
  <2>6. \A name \in Names : set[name] = IF name = names[key] THEN raw ELSE unset[name]
    BY <2>3, <2>5
  <2>7. PICK changed : changed = [promise EXCEPT !.values = set]
    OBVIOUS
  <2>8. /\ changed.input = promise.input /\ changed.id = promise.id
        /\ changed.values = set
    BY <2>7 DEF Promise
  <2>9. given' = [given EXCEPT ![N] = changed]
    BY <1>9, <2>2, <2>4, <2>5, <2>7
  <2>10. given'[N] = changed /\ \A f \in 1..N : f # N => given'[f] = given[f]
    BY <1>3, <2>1, <2>9
  <2> QED
    BY <2>2, <2>4, <2>6, <2>8, <2>10
<1>12. Distinct' /\ Current'
  <2>1. <<low, V + 1>>[2] = V + 1
    OBVIOUS
  <2> QED
    BY <1>5, <1>10, <2>1 DEF GInv, Distinct, Current
<1>13. Told'
  <2> SUFFICES ASSUME NEW v \in 1..(V + 1)
               PROVE  (Raw(values[v].value) \in Raws /\ Raw(values[v].value).kind = values[v].value.kind)'
    BY <1>5 DEF Told
  <2>1. CASE v \in 1..V
    <3>1. PICK old : old = values[v].value
      OBVIOUS
    <3>2. values'[v].value = old /\ Raw(old)' \in Raws /\ Raw(old)'.kind = old.kind
      BY <1>7, <2>1, <3>1
    <3> QED
      BY <3>2 DEF Raw
  <2>2. CASE v = V + 1
    BY <1>5, <2>2 DEF Raw
  <2> QED
    BY <2>1, <2>2
\* A cell of a range that ends before the new value.
<1>14. ASSUME NEW cell, NEW k, NEW first \in Nat, NEW last \in Nat, last <= V,
              SetLast(cell, k, <<first, last>>)
       PROVE  SetLast(cell, k, <<first, last>>)'
  <2>1. <<first, last>>[1] = first /\ <<first, last>>[2] = last
    OBVIOUS
  <2>2. \A v \in (first + 1)..last : v \in 1..V
    BY <1>14
  <2>3. CASE cell = NoValue /\ \A v \in (first + 1)..last : values[v].key # k
    BY <1>5, <2>1, <2>2, <2>3 DEF SetLast
  <2>4. CASE \E v \in (first + 1)..last :
                /\ values[v].key = k /\ \A w \in (v + 1)..last : values[w].key # k
                /\ cell = Raw(values[v].value)
    <3>1. PICK v \in (first + 1)..last : /\ values[v].key = k /\ \A w \in (v + 1)..last : values[w].key # k
                                         /\ cell = Raw(values[v].value)
      BY <2>4
    <3>2. PICK old : old = values[v].value
      OBVIOUS
    <3>3. values'[v].value = old /\ Raw(old)' = cell /\ values'[v].key = k
      BY <1>5, <1>7, <2>2, <3>1, <3>2
    <3>4. \A w \in (v + 1)..last : values'[w].key # k
      <4>1. \A w \in (v + 1)..last : w \in 1..V
        BY <1>14
      <4> QED
        BY <1>5, <3>1, <4>1
    <3>5. cell = Raw(values[v].value)'
      BY <3>3 DEF Raw
    <3> QED
      BY <2>1, <3>3, <3>4, <3>5 DEF SetLast
  <2> QED
    BY <1>14, <2>1, <2>3, <2>4 DEF SetLast
<1>15. ASSUME NEW f \in 1..N
       PROVE  \E input \in Inputs : Shows(f, input)'
  <2>1. PICK input \in Inputs : Shows(f, input)
    BY <1>1 DEF GInv
  <2>2. /\ given'[f].input = given[f].input /\ given'[f].id = given[f].id
        /\ features'[f].type = features[f].type /\ features'[f].id = features[f].id
        /\ features'[f].parts = features[f].parts
    <3>1. CASE f = N
      BY <1>10, <1>11, <3>1
    <3>2. CASE f # N
      BY <1>10, <1>11, <3>2
    <3> QED
      BY <3>1, <3>2
  <2>3. Shows(f, input)'
    BY <2>1, <2>2 DEF Shows
  <2> QED
    BY <2>3
<1>16. ASSUME NEW f \in 1..N
       PROVE  Unset(f)'
  <2> SUFFICES ASSUME NEW name \in Names, \A k \in DOMAIN names : names[k] # name
               PROVE  given'[f].values[name] = NoValue
    BY DEF Unset
  <2>1. given[f].values[name] = NoValue
    BY <1>1 DEF GInv, Unset
  <2>2. CASE f = N
    BY <1>11, <2>1, <2>2
  <2>3. CASE f # N
    BY <1>11, <2>1, <2>3
  <2> QED
    BY <2>2, <2>3
<1>17. ASSUME NEW f \in 1..N, f # N
       PROVE  Valued(f)'
  <2> SUFFICES ASSUME NEW k \in DOMAIN names
               PROVE  SetLast(given[f].values[names[k]], k, features[f].values)'
    BY DEF Valued
  <2>1. PICK first, last \in Nat : features[f].values = <<first, last>> /\ last <= V
    <3>1. features[f].values \in Span /\ IsRange(features[f].values, values)
      BY <1>1, RowFacts DEF FeatureRow
    <3> QED
      BY <1>1, <3>1 DEF Span, IsRange
  <2>2. PICK cell : cell = given[f].values[names[k]]
    OBVIOUS
  <2>3. SetLast(cell, k, <<first, last>>)
    BY <1>1, <2>1, <2>2 DEF GInv, Valued
  <2>4. SetLast(cell, k, <<first, last>>)'
    BY <1>14, <2>1, <2>3
  <2>5. given'[f].values[names[k]] = cell /\ features'[f].values = <<first, last>>
    BY <1>10, <1>11, <1>17, <2>1, <2>2
  <2> QED
    BY <2>4, <2>5 DEF SetLast
<1>18. Valued(N)'
  <2> SUFFICES ASSUME NEW k \in DOMAIN names
               PROVE  SetLast(given[N].values[names[k]], k, features[N].values)'
    BY DEF Valued
  <2>1. names[k] \in Names /\ (names[k] = names[key] => k = key)
    BY <1>1, <1>2, ItemOf DEF BufferTypes, GInv, Distinct
  <2>2. <<low, V + 1>>[1] = low /\ <<low, V + 1>>[2] = V + 1
    OBVIOUS
  <2>3. CASE k = key
    <3>1. given'[N].values[names[k]] = raw
      BY <1>11, <2>1, <2>3
    <3>2. V + 1 \in (low + 1)..(V + 1) /\ ((V + 1) + 1)..(V + 1) = {}
      BY <1>8
    <3>3. raw = Raw(values[V + 1].value)'
      BY <1>5 DEF Raw
    <3>4. SetLast(raw, k, <<low, V + 1>>)'
      BY <1>5, <2>2, <2>3, <3>2, <3>3 DEF SetLast
    <3> QED
      BY <1>10, <3>1, <3>4 DEF SetLast
  <2>4. CASE k # key
    <3>1. PICK cell : cell = given[N].values[names[k]] /\ given'[N].values[names[k]] = cell
      BY <1>11, <2>1, <2>4
    <3>2. SetLast(cell, k, <<low, V>>)
      BY <1>1, <1>3, <1>8, <3>1 DEF GInv, Valued
    <3>3. SetLast(cell, k, <<low, V>>)'
      <4>1. V <= V
        OBVIOUS
      <4> QED
        BY <1>14, <3>2, <4>1
    <3>4. <<low, V>>[1] = low /\ <<low, V>>[2] = V
      OBVIOUS
    <3>5. SetLast(cell, k, <<low, V + 1>>)'
      <4>1. CASE cell = NoValue /\ \A v \in (low + 1)..V : values'[v].key # k
        <5>1. \A v \in (low + 1)..(V + 1) : v \in (low + 1)..V \/ v = V + 1
          OBVIOUS
        <5> QED
          BY <1>5, <2>2, <2>4, <4>1, <5>1 DEF SetLast
      <4>2. CASE \E v \in (low + 1)..V :
                    /\ values'[v].key = k /\ \A w \in (v + 1)..V : values'[w].key # k
                    /\ cell = Raw(values[v].value)'
        <5>1. PICK v \in (low + 1)..V : /\ values'[v].key = k /\ \A w \in (v + 1)..V : values'[w].key # k
                                        /\ cell = Raw(values[v].value)'
          BY <4>2
        <5>2. v \in (low + 1)..(V + 1) /\ \A w \in (v + 1)..(V + 1) : w \in (v + 1)..V \/ w = V + 1
          <6>1. \A u \in (low + 1)..V : /\ u \in (low + 1)..(V + 1)
                                        /\ \A w \in (u + 1)..(V + 1) : w \in (u + 1)..V \/ w = V + 1
            OBVIOUS
          <6> QED
            BY <5>1, <6>1
        <5>3. \A w \in (v + 1)..(V + 1) : values'[w].key # k
          BY <1>5, <2>4, <5>1, <5>2
        <5> QED
          BY <2>2, <5>1, <5>2, <5>3 DEF SetLast
      <4> QED
        BY <3>3, <3>4, <4>1, <4>2 DEF SetLast
    <3> QED
      BY <1>10, <3>1, <3>5 DEF SetLast
  <2> QED
    BY <2>3, <2>4
<1> QED
  BY <1>10, <1>12, <1>13, <1>15, <1>16, <1>17, <1>18 DEF GInv

LEMMA SetValueGiven ==
  ASSUME LInv, GInv, NEW key \in Keys, NEW raw \in Raws, SetValue(key, raw)
  PROVE  GInv'
<1>1. CASE features # <<>> /\ key \in DOMAIN names
  <2>1. /\ raw \in Stored /\ raw.kind # "Str" /\ Store(key, raw, raw)
        /\ UNCHANGED <<names, parts, points, strings>>
    BY <1>1 DEF SetValue, BufferSet, Stored
  <2>2. strings' \in Seq(Letters) /\ Len(strings) <= Len(strings')
    BY <2>1, RowFacts DEF LInv, BufferTypes
  <2>3. Raw(raw)' = raw
    BY <2>1 DEF Raw
  <2> QED
    BY <1>1, <2>1, <2>2, <2>3, StoreGiven
<1>2. CASE ~(features # <<>> /\ key \in DOMAIN names)
  <2>1. UNCHANGED buffer
    BY <1>2 DEF SetValue, BufferSet, buffer
  <2> QED
    BY <2>1, SameGiven
<1> QED
  BY <1>1, <1>2

LEMMA SetStrGiven ==
  ASSUME LInv, GInv, NEW key \in Keys, NEW raw \in Raws, SetStr(key, raw)
  PROVE  GInv'
<1>1. PICK text \in Seq(Letters) : text = raw.value
  <2>1. raw \in Texts /\ raw.value \in Seq({raw.value[i] : i \in DOMAIN raw.value})
    BY BufferAssumption DEF SetStr, Texts
  <2>2. {raw.value[i] : i \in DOMAIN raw.value} \subseteq Letters
    BY <2>1 DEF Letters
  <2> QED
    BY <2>1, <2>2
<1>2. strings \in Seq(Letters) /\ strings' = strings \o text
  BY <1>1 DEF LInv, BufferTypes, SetStr
<1>3. PICK S, T \in Nat : S = Len(strings) /\ T = Len(strings') /\ S <= T /\ T = S + Len(text)
  <2>1. PICK old \in Seq(Letters) : old = strings
    BY <1>2
  <2>2. Len(old \o text) = Len(old) + Len(text)
    OBVIOUS
  <2>3. PICK s, l \in Nat : s = Len(old) /\ l = Len(text)
    OBVIOUS
  <2>4. s + l \in Nat /\ s <= s + l
    OBVIOUS
  <2>5. Len(strings') = s + l /\ Len(strings) = s
    BY <1>2, <2>1, <2>2, <2>3
  <2> QED
    BY <2>3, <2>4, <2>5
<1>4. /\ strings' \in Seq(Letters) /\ Len(strings) <= Len(strings')
      /\ \A i \in 1..Len(strings) : strings'[i] = strings[i]
  <2>1. strings \o text \in Seq(Letters) /\ \A i \in 1..Len(strings) : (strings \o text)[i] = strings[i]
    BY <1>2, JoinedFacts
  <2> QED
    BY <1>2, <1>3, <2>1
<1>5. UNCHANGED <<names, parts, points>>
  BY DEF SetStr
<1>6. CASE features # <<>> /\ key \in DOMAIN names
  <2>1. PICK range \in Span : range = <<S, T>>
    BY DEF Span
  <2>2. PICK stored \in Stored : stored = [kind |-> "Str", range |-> range]
    BY DEF Stored
  <2>3. stored.kind = "Str" /\ stored.range = range /\ raw.kind = "Str"
    BY <2>2 DEF SetStr
  <2>4. Store(key, stored, raw)
    BY <1>3, <1>6, <2>1, <2>2 DEF SetStr, BufferSet
  <2>5. Raw(stored)' = raw
    <3>1. SubSeq(strings', S + 1, T) = text
      BY <1>2, <1>3, TailSlice
    <3>2. ItemsIn(strings', range) = text
      <4>1. <<S, T>>[1] = S /\ <<S, T>>[2] = T
        OBVIOUS
      <4> QED
        BY <2>1, <3>1, <4>1 DEF ItemsIn
    <3>3. raw = [kind |-> raw.kind, value |-> raw.value]
      BY BufferAssumption
    <3>4. raw = [kind |-> "Str", value |-> text]
      BY <1>1, <2>3, <3>3
    <3> QED
      BY <2>3, <3>2, <3>4 DEF Raw
  <2> QED
    BY <1>4, <1>5, <1>6, <2>3, <2>4, <2>5, StoreGiven
<1>7. CASE ~(features # <<>> /\ key \in DOMAIN names)
  <2>1. UNCHANGED <<names, kinds, features, parts, points, values, given>>
    BY <1>7 DEF SetStr, BufferSet
  <2>2. ASSUME NEW v \in DOMAIN values, NEW old, old = values[v].value
        PROVE  Raw(old)' = Raw(old)
    <3>1. old \in Stored /\ (old.kind = "Str" => IsRange(old.range, strings))
      BY <2>2, RowFacts
    <3> QED
      BY <1>2, <1>4, <3>1, RawKept
  <2>3. Distinct' /\ Current'
    BY <2>1 DEF GInv, Distinct, Current
  <2>4. Told'
    <3> SUFFICES ASSUME NEW v \in DOMAIN values
                 PROVE  (Raw(values[v].value) \in Raws /\ Raw(values[v].value).kind = values[v].value.kind)'
      BY <2>1 DEF Told
    <3>1. PICK old : old = values[v].value
      OBVIOUS
    <3>2. Raw(old)' \in Raws /\ Raw(old)'.kind = old.kind
      BY <2>2, <3>1 DEF GInv, Told
    <3> QED
      BY <2>1, <3>1, <3>2 DEF Raw
  <2>5. ASSUME NEW f \in DOMAIN features
        PROVE  (\E input \in Inputs : Shows(f, input)') /\ Unset(f)'
    BY <1>5, <2>1 DEF GInv, Shows, Unset
  <2>6. ASSUME NEW f \in DOMAIN features
        PROVE  Valued(f)'
    <3> SUFFICES ASSUME NEW k \in DOMAIN names
                 PROVE  SetLast(given[f].values[names[k]], k, features[f].values)'
      BY <1>5 DEF Valued
    <3>1. PICK first, last \in Nat : /\ features[f].values = <<first, last>>
                                     /\ \A v \in (first + 1)..last : v \in DOMAIN values
      <4>1. /\ features[f].values \in Span /\ IsRange(features[f].values, values)
            /\ DOMAIN values = 1..Len(values) /\ Len(values) \in Nat
        BY RowFacts DEF FeatureRow
      <4>2. PICK first, last \in Nat : features[f].values = <<first, last>> /\ last <= Len(values)
        BY <4>1 DEF Span, IsRange
      <4> QED
        BY <4>1, <4>2
    <3>2. <<first, last>>[1] = first /\ <<first, last>>[2] = last
      OBVIOUS
    <3>3. PICK cell : cell = given[f].values[names[k]]
      OBVIOUS
    <3>4. SetLast(cell, k, <<first, last>>)
      BY <3>1, <3>3 DEF GInv, Valued
    <3>5. SetLast(cell, k, <<first, last>>)'
      <4>1. CASE cell = NoValue /\ \A v \in (first + 1)..last : values[v].key # k
        BY <2>1, <3>2, <4>1 DEF SetLast
      <4>2. CASE \E v \in (first + 1)..last :
                    /\ values[v].key = k /\ \A w \in (v + 1)..last : values[w].key # k
                    /\ cell = Raw(values[v].value)
        <5>1. PICK v \in (first + 1)..last :
                    /\ values[v].key = k /\ \A w \in (v + 1)..last : values[w].key # k
                    /\ cell = Raw(values[v].value)
          BY <4>2
        <5>2. PICK old : old = values[v].value
          OBVIOUS
        <5>3. cell = Raw(old)'
          BY <2>2, <3>1, <5>1, <5>2
        <5>4. cell = Raw(values[v].value)'
          BY <2>1, <5>2, <5>3 DEF Raw
        <5> QED
          BY <2>1, <3>2, <5>1, <5>4 DEF SetLast
      <4> QED
        BY <3>2, <3>4, <4>1, <4>2 DEF SetLast
    <3> QED
      BY <1>5, <2>1, <3>1, <3>3, <3>5 DEF SetLast
  <2> QED
    BY <2>1, <2>3, <2>4, <2>5, <2>6 DEF GInv
<1> QED
  BY <1>6, <1>7

LEMMA GInvAlways == BufferSpec => []GInv
<1>1. BufferInit => GInv
  BY BlankGiven DEF BufferInit, Blank
<1>2. LInv /\ GInv /\ [BufferNext]_bufferVars => GInv'
  <2> SUFFICES ASSUME LInv, GInv, [BufferNext]_bufferVars PROVE GInv'
    OBVIOUS
  <2>1. CASE BufferReset
    BY <2>1, BlankGivenNext DEF BufferReset, Blank
  <2>2. CASE \E name \in Names : BufferAddProperty(name)
    BY <2>2, AddPropertyGiven
  <2>3. CASE \E input \in Inputs, id \in Ids \cup {NoId} : Begin(input, id)
    BY <2>3, BeginGiven
  <2>4. CASE \E key \in Keys, raw \in Raws : SetValue(key, raw) \/ SetStr(key, raw)
    BY <2>4, SetValueGiven, SetStrGiven
  <2>5. CASE Encode \/ Replay \/ Drop \/ UNCHANGED bufferVars
    <3>1. UNCHANGED buffer
      BY <2>5 DEF Encode, Replay, Drop, bufferVars
    <3> QED
      BY <3>1, SameGiven
  <2> QED
    BY <2>1, <2>2, <2>3, <2>4, <2>5 DEF BufferNext
<1> QED
  BY <1>1, <1>2, LInvAlways, PTL DEF BufferSpec

-----------------------------------------------------------------------------
(* What the calls of encode have written so far.                            *)

\* The geometry of an input after the calls for its first i parts.
ShapeAfter(input, i) ==
    CASE input.type = "Point" -> IF i = 0 THEN <<>> ELSE Paths(input)[1]
      [] input.type = "LineString" -> SubSeq(Paths(input), 1, i)
      [] input.type = "Polygon" -> Upto(Paths(input))[i]

\* A cell after the calls for the values from low + 1 to high.
CastLast(cell, k, low, high) ==
    \/ /\ cell = NoValue
       /\ \A v \in (low + 1)..high : values[v].key # k
    \/ \E v \in (low + 1)..high :
          /\ values[v].key = k /\ \A w \in (v + 1)..high : values[w].key # k
          /\ cell = Cast(PropKind(kinds[k]), Raw(values[v].value))

Cells(cells, low, high) ==
    /\ cells = [k \in DOMAIN names |-> cells[k]]
    /\ \A k \in DOMAIN names : CastLast(cells[k], k, low, high)

\* The draft of a feature after i of its parts and n of its values.
Drafts(draft, f, id, i, n) ==
    \E input, cells :
        /\ input \in Inputs /\ Shows(f, input)
        /\ draft = [type |-> features[f].type, id |-> id, geometry |-> ShapeAfter(input, i),
                    values |-> cells]
        /\ Cells(cells, features[f].values[1], features[f].values[1] + n)

PartCount(f) == features[f].parts[2] - features[f].parts[1]
ValueCount(f) == features[f].values[2] - features[f].values[1]

\* The draft before the j-th call for a feature.
Before(draft, f, j) ==
    \/ j = 1 /\ draft = NoDraft
    \/ j = 2 /\ Drafts(draft, f, NoId, 0, 0)
    \/ \E i \in 0..PartCount(f) : j = 3 + i /\ Drafts(draft, f, features[f].id, i, 0)
    \/ \E n \in 0..ValueCount(f) :
          j = 3 + PartCount(f) + n /\ Drafts(draft, f, features[f].id, PartCount(f), n)

ColumnsTo(cols, m) == cols = [k \in 1..m |-> [name |-> names[k], kind |-> PropKind(kinds[k])]]

CastCell(k, raw) == IF raw = NoValue THEN NoValue ELSE Cast(PropKind(kinds[k]), raw)

RowAs(f) ==
    LET shape == ShapeAs(given[f].input)
    IN [type |-> GeometryType(given[f].input.type, Len(shape) = 1), id |-> given[f].id,
        geometry |-> shape, values |-> [k \in DOMAIN names |-> CastCell(k, given[f].values[names[k]])]]

RowsTo(rows, n) == rows = [f \in 1..n |-> RowAs(f)]

\* The layer before the j-th call for feature f, or for the columns.
Written(f, j, cols, rows, draft) ==
    \/ /\ f = 0 /\ j \in 1..Len(names)
       /\ ColumnsTo(cols, j - 1) /\ rows = <<>> /\ draft = NoDraft
    \/ /\ f \in 1..Len(features)
       /\ ColumnsTo(cols, Len(names)) /\ RowsTo(rows, f - 1) /\ Before(draft, f, j)
    \/ /\ f = Len(features) + 1 /\ j = 1
       /\ ColumnsTo(cols, Len(names)) /\ RowsTo(rows, Len(features)) /\ draft = NoDraft

RInv ==
    /\ WInv
    /\ ~encoding => Init
    /\ encoding => \E f, j \in Nat : at = <<f, j>> /\ Written(f, j, property, Finished, Drafted)

-----------------------------------------------------------------------------
(* The calls.                                                               *)

\* The ranges of a feature, as rigid numbers.
Ranged(f, a, p, b, n) ==
    /\ features[f].parts = <<a, a + p>> /\ features[f].values = <<b, b + n>>
    /\ a + p <= Len(parts) /\ b + n <= Len(values)

LEMMA RangesExist ==
  ASSUME LInv, NEW f \in DOMAIN features
  PROVE  \E a, p, b, n \in Nat : Ranged(f, a, p, b, n)
<1>1. /\ features[f].parts \in Span /\ features[f].values \in Span
      /\ IsRange(features[f].parts, parts) /\ IsRange(features[f].values, values)
  BY RowFacts DEF FeatureRow
<1>2. PICK a, c, b, d \in Nat : features[f].parts = <<a, c>> /\ features[f].values = <<b, d>>
  BY <1>1 DEF Span
<1>3. a <= c /\ c <= Len(parts) /\ b <= d /\ d <= Len(values)
  BY <1>1, <1>2 DEF IsRange
<1>4. PICK p, n \in Nat : c = a + p /\ d = b + n
  <2>1. c - a \in Nat /\ d - b \in Nat /\ c = a + (c - a) /\ d = b + (d - b)
    BY <1>3
  <2> QED
    BY <2>1
<1>5. Ranged(f, a, p, b, n)
  BY <1>2, <1>3, <1>4 DEF Ranged
<1> QED
  BY <1>5

LEMMA CountFacts ==
  ASSUME NEW f, NEW a \in Nat, NEW p \in Nat, NEW b \in Nat, NEW n \in Nat, Ranged(f, a, p, b, n)
  PROVE  /\ PartCount(f) = p /\ ValueCount(f) = n /\ features[f].values[1] = b
         /\ features[f].parts[1] = a
<1>1. /\ <<a, a + p>>[1] = a /\ <<a, a + p>>[2] = a + p
      /\ <<b, b + n>>[1] = b /\ <<b, b + n>>[2] = b + n
  OBVIOUS
<1>2. (a + p) - a = p /\ (b + n) - b = n
  OBVIOUS
<1> QED
  BY <1>1, <1>2 DEF Ranged, PartCount, ValueCount

LEMMA SliceItems ==
  ASSUME NEW S, NEW s \in Seq(S), NEW a \in Nat, NEW n \in Nat, a + n <= Len(s)
  PROVE  /\ ItemsIn(s, <<a, a + n>>) \in Seq(S) /\ Len(ItemsIn(s, <<a, a + n>>)) = n
         /\ DOMAIN ItemsIn(s, <<a, a + n>>) = 1..n
         /\ \A i \in 1..n : ItemsIn(s, <<a, a + n>>)[i] = s[a + i] /\ s[a + i] \in S
<1>1. <<a, a + n>>[1] = a /\ <<a, a + n>>[2] = a + n
  OBVIOUS
<1>2. PICK m \in Nat : m = a + n /\ m <= Len(s)
  OBVIOUS
<1>3. SubSeq(s, a + 1, m) \in Seq(S) /\ Len(SubSeq(s, a + 1, m)) = n
  BY <1>2
<1>4. \A i \in 1..n : SubSeq(s, a + 1, m)[i] = s[a + i] /\ a + i \in 1..Len(s)
  BY <1>2
<1>5. DOMAIN SubSeq(s, a + 1, m) = 1..n
  BY <1>3, ItemOf
<1>6. \A i \in 1..n : s[a + i] \in S
  BY <1>4
<1> QED
  BY <1>1, <1>2, <1>3, <1>4, <1>5, <1>6 DEF ItemsIn

PartCall(q) == [op |-> parts[q].role, coords |-> ItemsIn(points, parts[q].coords)]
ValueCall(v) ==
    [op |-> "Property", key |-> values[v].key,
     value |-> Cast(PropKind(kinds[values[v].key]), Raw(values[v].value))]

\* The calls for a feature, one by one.
CallsAre(calls, f, a, p, b, n) ==
    /\ Len(calls) = p + n + 3
    /\ calls[1] = [op |-> "Feature", type |-> features[f].type]
    /\ calls[2] = [op |-> "Id", id |-> features[f].id]
    /\ \A i \in 1..p : calls[2 + i] = PartCall(a + i)
    /\ \A i \in 1..n : calls[2 + p + i] = ValueCall(b + i)
    /\ calls[p + n + 3] = [op |-> "Finish"]

LEMMA CallFacts ==
  ASSUME LInv, NEW f \in DOMAIN features, NEW a \in Nat, NEW p \in Nat, NEW b \in Nat, NEW n \in Nat,
         Ranged(f, a, p, b, n), NEW calls, calls = FeatureCalls(features[f])
  PROVE  CallsAre(calls, f, a, p, b, n)
<1>1. PICK feature : feature = features[f]
  OBVIOUS
<1>2. PICK pcs : pcs = PartCalls(feature)
  OBVIOUS
<1>3. PICK vcs : vcs = ValueCalls(feature)
  OBVIOUS
<1>4. pcs = [i \in 1..p |-> PartCall(a + i)]
  <2>1. PICK own : own = ItemsIn(parts, <<a, a + p>>)
    OBVIOUS
  <2>2. DOMAIN own = 1..p /\ \A i \in 1..p : own[i] = parts[a + i]
    <3>1. parts \in Seq(PartRow) /\ a + p <= Len(parts)
      BY DEF LInv, BufferTypes, Ranged
    <3> QED
      BY <2>1, <3>1, SliceItems
  <2>3. pcs = [i \in DOMAIN own |-> [op |-> own[i].role, coords |-> ItemsIn(points, own[i].coords)]]
    BY <1>1, <1>2, <2>1 DEF PartCalls, Ranged
  <2> QED
    BY <2>2, <2>3 DEF PartCall
<1>5. vcs = [i \in 1..n |-> ValueCall(b + i)]
  <2>1. PICK own : own = ItemsIn(values, <<b, b + n>>)
    OBVIOUS
  <2>2. DOMAIN own = 1..n /\ \A i \in 1..n : own[i] = values[b + i]
    <3>1. values \in Seq([key : Nat, value : Stored]) /\ b + n <= Len(values)
      BY DEF LInv, BufferTypes, Ranged
    <3> QED
      BY <2>1, <3>1, SliceItems
  <2>3. vcs = [i \in DOMAIN own |->
                 [op |-> "Property", key |-> own[i].key,
                  value |-> Cast(PropKind(kinds[own[i].key]), Raw(own[i].value))]]
    BY <1>1, <1>3, <2>1 DEF ValueCalls, Ranged
  <2> QED
    BY <2>2, <2>3 DEF ValueCall
<1>6. PICK one, two, last : /\ one = [op |-> "Feature", type |-> feature.type]
                            /\ two = [op |-> "Id", id |-> feature.id]
                            /\ last = [op |-> "Finish"]
  OBVIOUS
<1>7. PICK S : S = {one, two, last} \cup {pcs[i] : i \in 1..p} \cup {vcs[i] : i \in 1..n}
  OBVIOUS
<1>8. pcs \in Seq(S) /\ Len(pcs) = p /\ vcs \in Seq(S) /\ Len(vcs) = n
  <2>1. pcs \in [1..p -> S] /\ vcs \in [1..n -> S]
    BY <1>4, <1>5, <1>7
  <2>2. pcs \in Seq(S) /\ vcs \in Seq(S)
    BY <2>1, MadeSeq
  <2> QED
    BY <2>1, <2>2
<1>9. PICK s1 \in Seq(S) : /\ s1 = <<one, two>> \o pcs /\ Len(s1) = 2 + p
                           /\ s1[1] = one /\ s1[2] = two /\ \A i \in 1..p : s1[2 + i] = pcs[i]
  <2>1. PICK head \in Seq(S) : head = <<one, two>> /\ Len(head) = 2 /\ head[1] = one /\ head[2] = two
    <3>1. one \in S /\ two \in S
      BY <1>7
    <3>2. \A x, y \in S : <<x, y>> \in Seq(S) /\ Len(<<x, y>>) = 2 /\ <<x, y>>[1] = x /\ <<x, y>>[2] = y
      OBVIOUS
    <3> QED
      BY <3>1, <3>2, ZenonT(40)
  <2>2. /\ head \o pcs \in Seq(S) /\ Len(head \o pcs) = Len(head) + Len(pcs)
        /\ \A i \in 1..Len(head) : (head \o pcs)[i] = head[i]
        /\ \A i \in 1..Len(pcs) : (head \o pcs)[Len(head) + i] = pcs[i]
    <3>1. head \in Seq(S) /\ pcs \in Seq(S)
      BY <1>8
    <3> QED
      BY <3>1, JoinedFacts
  <2>3. 1 \in 1..2 /\ 2 \in 1..2
    OBVIOUS
  <2> QED
    BY <1>8, <2>1, <2>2, <2>3
<1>10. PICK s2 \in Seq(S) : /\ s2 = s1 \o vcs /\ Len(s2) = 2 + p + n
                            /\ \A i \in 1..(2 + p) : s2[i] = s1[i]
                            /\ \A i \in 1..n : s2[2 + p + i] = vcs[i]
  <2>1. s1 \in Seq(S) /\ vcs \in Seq(S)
    BY <1>8
  <2>2. /\ s1 \o vcs \in Seq(S) /\ Len(s1 \o vcs) = Len(s1) + Len(vcs)
        /\ \A i \in 1..Len(s1) : (s1 \o vcs)[i] = s1[i]
        /\ \A i \in 1..Len(vcs) : (s1 \o vcs)[Len(s1) + i] = vcs[i]
    BY <2>1, JoinedFacts
  <2>3. PICK l \in Nat : l = 2 + p /\ l = Len(s1)
    BY <1>9
  <2>4. PICK joined \in Seq(S) : joined = s1 \o vcs
    BY <2>2
  <2>5. /\ Len(joined) = l + n /\ \A i \in 1..l : joined[i] = s1[i]
        /\ \A i \in 1..n : joined[l + i] = vcs[i]
    BY <1>8, <2>2, <2>3, <2>4
  <2> QED
    BY <2>3, <2>4, <2>5
<1>11. PICK s3 \in Seq(S) : /\ s3 = s2 \o <<last>> /\ Len(s3) = 2 + p + n + 1
                            /\ \A i \in 1..(2 + p + n) : s3[i] = s2[i]
                            /\ s3[2 + p + n + 1] = last
  <2>1. last \in S
    BY <1>7
  <2>2. s2 \o <<last>> = Append(s2, last)
    BY <2>1
  <2>3. /\ Append(s2, last) \in Seq(S) /\ Len(Append(s2, last)) = Len(s2) + 1
        /\ \A i \in 1..Len(s2) : Append(s2, last)[i] = s2[i]
        /\ Append(s2, last)[Len(s2) + 1] = last
    BY <2>1, Appended
  <2> QED
    BY <1>10, <2>2, <2>3
<1>12. calls = s3
  BY <1>1, <1>2, <1>3, <1>6, <1>9, <1>10, <1>11 DEF FeatureCalls
<1>13. /\ 1 \in 1..(2 + p) /\ 2 \in 1..(2 + p)
       /\ \A i \in 1..(2 + p) : i \in 1..(2 + p + n)
       /\ \A i \in 1..p : 2 + i \in 1..(2 + p)
       /\ \A i \in 1..n : 2 + p + i \in 1..(2 + p + n)
       /\ 2 + p + n + 1 = p + n + 3
  OBVIOUS
<1>14. s3[1] = one /\ s3[2] = two
  BY <1>9, <1>10, <1>11, <1>13
<1>15. \A i \in 1..p : s3[2 + i] = pcs[i]
  BY <1>9, <1>10, <1>11, <1>13
<1>16. \A i \in 1..n : s3[2 + p + i] = vcs[i]
  BY <1>10, <1>11, <1>13
<1> QED
  BY <1>1, <1>4, <1>5, <1>6, <1>11, <1>12, <1>13, <1>14, <1>15, <1>16 DEF CallsAre

LEMMA NextKeeps == WInv /\ [Next]_vars => WInv'
  BY TypesStep, EndsStep, AlignedStep DEF WInv

\* A call that is accepted is one of the writer's, and the layer takes it.
LEMMA AddAccepted ==
  ASSUME WInv, NEW name \in Names, NEW kind \in Kinds,
         Accepts([op |-> "Add", name |-> name, kind |-> kind])
  PROVE  WInv' /\ Layer!AddProperty(name, kind)
<1>1. AddProperty(name, kind)
  BY DEF Accepts
<1>2. WInv'
  BY <1>1, NextKeeps DEF Next
<1> QED
  BY <1>1, <1>2, AddPropertyRefines

LEMMA FeatureAccepted ==
  ASSUME WInv, NEW type \in DOMAIN Family, Accepts([op |-> "Feature", type |-> type])
  PROVE  WInv' /\ Layer!Begin(type)
<1>1. Feature(type)
  BY DEF Accepts
<1>2. WInv'
  BY <1>1, NextKeeps DEF Next
<1> QED
  BY <1>1, <1>2, BeginRefines

LEMMA IdAccepted ==
  ASSUME WInv, NEW id \in Ids \cup {NoId}, Accepts([op |-> "Id", id |-> id])
  PROVE  WInv' /\ Layer!SetId(id)
<1>1. SetId(id)
  BY DEF Accepts
<1>2. WInv'
  BY <1>1, NextKeeps DEF Next
<1> QED
  BY <1>1, <1>2, SetIdRefines

LEMMA PartAccepted ==
  ASSUME WInv, NEW role \in Roles, NEW cs \in CoordLists, Accepts([op |-> role, coords |-> cs])
  PROVE  /\ WInv'
         /\ role = "Points" => Layer!AddPoints(cs)
         /\ role = "Line" => Layer!AddLine(cs)
         /\ role = "Exterior" => Layer!AddPolygon(cs)
         /\ role = "Hole" => Layer!AddHole(cs)
<1>1. /\ role = "Points" => AddPoints(cs)
      /\ role = "Line" => AddLine(cs)
      /\ role = "Exterior" => ExteriorRing(cs)
      /\ role = "Hole" => Hole(cs)
  BY DEF Accepts
<1>2. WInv'
  <2>1. AddPoints(cs) \/ AddLine(cs) \/ ExteriorRing(cs) \/ Hole(cs)
    BY <1>1 DEF Roles
  <2> QED
    BY <2>1, NextKeeps DEF Next
<1> QED
  BY <1>1, <1>2, AddPointsRefines, AddLineRefines, ExteriorRefines, HoleRefines

LEMMA PropertyAccepted ==
  ASSUME WInv, NEW key \in DOMAIN property, NEW value,
         Accepts([op |-> "Property", key |-> key, value |-> value])
  PROVE  WInv' /\ Layer!SetProperty(key, value)
<1>1. SetProperty(key, value)
  BY DEF Accepts
<1>2. value \in ValuesOf[property[key].kind]
  BY <1>1 DEF SetProperty
<1>3. WInv'
  BY <1>1, <1>2, NextKeeps DEF Next
<1> QED
  BY <1>1, <1>2, <1>3, SetPropertyRefines

LEMMA FinishAccepted ==
  ASSUME WInv, Accepts([op |-> "Finish"])
  PROVE  WInv' /\ Layer!Finish
<1>1. Valid /\ Finish
  BY DEF Accepts
<1>2. WInv'
  BY <1>1, NextKeeps DEF Next
<1>3. ~Layer!Discard
  <2>1. ids' = Append(ids, writer.id) /\ ids \in Seq(Ids \cup {NoId}) /\ writer.id \in Ids \cup {NoId}
    BY <1>1, SizesAreNat DEF Finish, WInv, Types, TypeOK, Start
  <2>2. PICK n \in Nat : DOMAIN ids = 1..n /\ DOMAIN ids' = 1..(n + 1)
    BY <2>1, Appended, ItemOf
  <2>3. n + 1 \in 1..(n + 1) /\ n + 1 \notin 1..n
    OBVIOUS
  <2>4. DOMAIN Finished = DOMAIN ids /\ DOMAIN Finished' = DOMAIN ids'
    BY DEF Finished
  <2>5. Finished' # Finished
    BY <2>2, <2>3, <2>4
  <2> QED
    BY <2>5 DEF Layer!Discard, Layer!Writing
<1> QED
  BY <1>1, <1>2, <1>3, FinishRefines

-----------------------------------------------------------------------------
(* The geometry, part by part.                                              *)

LEMMA ShapeStarts ==
  ASSUME NEW input \in Inputs, Paths(input) \in Seq(Seq(Place))
  PROVE  ShapeAfter(input, 0) = <<>>
<1>1. input.type \in MvtTypes /\ Len(Paths(input)) \in Nat
  BY BufferAssumption, ItemOf DEF MvtTypes
<1>2. Upto(Paths(input))[0] = <<>>
  BY <1>1, UptoFacts
<1>3. SubSeq(Paths(input), 1, 0) = <<>>
  <2>1. \A s \in Seq(Seq(Place)) : SubSeq(s, 1, 0) = <<>>
    OBVIOUS
  <2> QED
    BY <2>1
<1> QED
  BY <1>1, <1>2, <1>3 DEF ShapeAfter, MvtTypes

LEMMA ShapeEnds ==
  ASSUME NEW input \in Inputs, Paths(input) \in Seq(Seq(Place)), Len(Paths(input)) # 0
  PROVE  ShapeAfter(input, Len(Paths(input))) = ShapeAs(input)
<1>1. PICK paths \in Seq(Seq(Place)) : paths = Paths(input) /\ Len(paths) \in Nat /\ Len(paths) # 0 /\ paths # <<>>
  <2>1. Len(<<>>) = 0
    OBVIOUS
  <2> QED
    BY <2>1, ItemOf
<1>2. input.type \in MvtTypes
  BY BufferAssumption DEF MvtTypes
<1>3. SubSeq(paths, 1, Len(paths)) = paths
  <2>1. /\ SubSeq(paths, 1, Len(paths)) \in Seq(Seq(Place)) /\ Len(SubSeq(paths, 1, Len(paths))) = Len(paths)
        /\ \A i \in 1..Len(paths) : SubSeq(paths, 1, Len(paths))[i] = paths[i]
    OBVIOUS
  <2> QED
    BY <2>1, SeqEqual
<1>4. Upto(paths)[Len(paths)] = PolygonsAs(paths)
  BY <1>1, UptoFacts
<1> QED
  BY <1>1, <1>2, <1>3, <1>4 DEF ShapeAfter, ShapeAs, Shape, PolygonsAs, MvtTypes

\* The part a feature shows at i is the call for the i-th path of its input.
LEMMA PartShown ==
  ASSUME LInv, NEW f \in DOMAIN features, NEW a \in Nat, NEW p \in Nat, NEW b \in Nat, NEW n \in Nat,
         Ranged(f, a, p, b, n), NEW input \in Inputs, Shows(f, input)
  PROVE  /\ input.type \in MvtTypes /\ Paths(input) \in Seq(Seq(Place)) /\ Len(Paths(input)) = p
         /\ p # 0 /\ (input.type = "Point" => p = 1)
         /\ \A i \in 1..p :
              /\ PartCall(a + i) = [op |-> RoleIn(input.type, Paths(input), i),
                                    coords |-> Coords(input.type, Paths(input)[i])]
              /\ Coords(input.type, Paths(input)[i]) \in CoordLists
<1>1. input.type \in MvtTypes
  BY BufferAssumption DEF MvtTypes
<1>2. PICK paths \in Seq(Seq(Place)) : paths = Paths(input) /\ Describe(parts, a, a + p, points, input)
  <2>1. features[f].parts[1] = a /\ features[f].parts[2] = a + p
    <3>1. <<a, a + p>>[1] = a /\ <<a, a + p>>[2] = a + p
      OBVIOUS
    <3> QED
      BY <3>1 DEF Ranged
  <2> QED
    BY <2>1 DEF Shows, Describe
<1>3. Len(paths) = p /\ DOMAIN paths = 1..p /\ p # 0 /\ (input.type = "Point" => p = 1)
  <2>1. PICK l \in Nat : l = Len(paths) /\ DOMAIN paths = 1..l
    BY ItemOf
  <2>2. a + l = a + p /\ l # 0 /\ (input.type = "Point" => l = 1)
    BY <1>2, <2>1 DEF Describe
  <2>3. l = p
    BY <2>2
  <2> QED
    BY <2>1, <2>2, <2>3
<1>4. \A i \in 1..p : Stands(parts[a + i], points, input.type, paths, i)
  BY <1>2, <1>3 DEF Describe
<1>5. \A i \in 1..p : PartCall(a + i) = [op |-> RoleIn(input.type, paths, i), coords |-> Coords(input.type, paths[i])]
  BY <1>4 DEF Stands, PartCall
<1>6. \A i \in 1..p : Coords(input.type, paths[i]) \in Lists(input)
  BY <1>2, <1>3 DEF Lists, Coords
<1>7. Lists(input) \subseteq CoordLists
  BY ListsTaken
<1> QED
  BY <1>1, <1>2, <1>3, <1>5, <1>6, <1>7

\* The call for the i-th part makes the draft's geometry that of i parts.
LEMMA PartDraws ==
  ASSUME LInv, WInv, NEW f \in DOMAIN features, NEW a \in Nat, NEW p \in Nat, NEW b \in Nat, NEW n \in Nat,
         Ranged(f, a, p, b, n), NEW input \in Inputs, Shows(f, input),
         NEW i \in 1..p, Accepts(PartCall(a + i)), NEW id, NEW cells,
         Drafted = [type |-> features[f].type, id |-> id, geometry |-> ShapeAfter(input, i - 1),
                    values |-> cells]
  PROVE  /\ WInv' /\ UNCHANGED <<property, Finished>>
         /\ Drafted' = [type |-> features[f].type, id |-> id, geometry |-> ShapeAfter(input, i),
                        values |-> cells]
<1>1. PICK paths \in Seq(Seq(Place)) :
        /\ paths = Paths(input) /\ Len(paths) = p /\ p # 0 /\ (input.type = "Point" => p = 1)
        /\ PartCall(a + i) = [op |-> RoleIn(input.type, paths, i), coords |-> Coords(input.type, paths[i])]
        /\ Coords(input.type, paths[i]) \in CoordLists
  BY PartShown
<1>2. PICK type \in MvtTypes : type = input.type
  BY PartShown
<1>3. PICK cs \in CoordLists : cs = Coords(type, paths[i])
  BY <1>1, <1>2
<1>4. PICK role \in Roles : role = RoleIn(type, paths, i)
  BY DEF RoleIn, Roles, MvtTypes
<1>5. /\ WInv'
      /\ role = "Points" => Layer!AddPoints(cs)
      /\ role = "Line" => Layer!AddLine(cs)
      /\ role = "Exterior" => Layer!AddPolygon(cs)
      /\ role = "Hole" => Layer!AddHole(cs)
  <2>1. Accepts([op |-> role, coords |-> cs])
    BY <1>1, <1>2, <1>3, <1>4
  <2> QED
    BY <2>1, PartAccepted
<1>6. PICK before : before = ShapeAfter(input, i - 1)
  OBVIOUS
<1>7. PICK now : now = ShapeAfter(input, i)
  OBVIOUS
<1>8. PICK kind : kind = features[f].type
  OBVIOUS
<1>9. Drafted = [type |-> kind, id |-> id, geometry |-> before, values |-> cells]
  BY <1>6, <1>8
<1>10. /\ i - 1 \in 0..p /\ i \in 1..Len(paths) /\ i \in 0..Len(paths) /\ i # 0 /\ Len(paths) \in Nat
       /\ (p = 1 => i = 1 /\ i - 1 = 0)
  BY <1>1
<1>14. /\ Drafted.geometry = before
       /\ \A more : [Drafted EXCEPT !.geometry = more] =
                     [type |-> kind, id |-> id, geometry |-> more, values |-> cells]
  <2>1. PICK draft : draft = Drafted
    OBVIOUS
  <2>2. draft = [type |-> kind, id |-> id, geometry |-> before, values |-> cells]
    BY <1>9, <2>1
  <2>3. /\ draft.geometry = before
        /\ \A more : [draft EXCEPT !.geometry = more] =
                      [type |-> kind, id |-> id, geometry |-> more, values |-> cells]
    BY <2>2
  <2> QED
    BY <2>1, <2>3
<1>11. CASE type = "Point"
  <2>1. role = "Points" /\ cs = paths[1] /\ before = <<>> /\ now = paths[1]
    BY <1>1, <1>2, <1>3, <1>4, <1>6, <1>7, <1>10, <1>11 DEF RoleIn, Coords, ShapeAfter
  <2>2. <<>> \o cs = cs
    <3>1. cs \in Seq(Place)
      BY <1>10, <1>11, <1>3, ItemOf DEF Coords
    <3> QED
      BY <3>1
  <2>3. Drafted' = [Drafted EXCEPT !.geometry = @ \o cs] /\ UNCHANGED <<property, Finished>>
    BY <1>5, <2>1 DEF Layer!AddPoints, Layer!Writing
  <2>4. Drafted' = [type |-> kind, id |-> id, geometry |-> before \o cs, values |-> cells]
    BY <1>14, <2>3
  <2> QED
    BY <1>5, <1>7, <1>8, <2>1, <2>2, <2>3, <2>4
<1>12. CASE type = "LineString"
  <2>1. role = "Line" /\ cs = paths[i] /\ before = SubSeq(paths, 1, i - 1) /\ now = SubSeq(paths, 1, i)
    BY <1>1, <1>2, <1>3, <1>4, <1>6, <1>7, <1>12 DEF RoleIn, Coords, ShapeAfter
  <2>2. Append(before, cs) = now
    <3>1. /\ before \in Seq(Seq(Place)) /\ Len(before) = i - 1
          /\ \A m \in 1..(i - 1) : before[m] = paths[m]
      <4>1. PICK k \in Nat : k = i - 1 /\ k <= Len(paths)
        BY <1>10, <1>1
      <4>2. /\ SubSeq(paths, 1, k) \in Seq(Seq(Place)) /\ Len(SubSeq(paths, 1, k)) = k
            /\ \A m \in 1..k : SubSeq(paths, 1, k)[m] = paths[m]
        BY <4>1
      <4> QED
        BY <2>1, <4>1, <4>2
    <3>2. /\ now \in Seq(Seq(Place)) /\ Len(now) = i
          /\ \A m \in 1..i : now[m] = paths[m]
      BY <1>10, <2>1
    <3>3. cs \in Seq(Place)
      BY <1>10, <2>1, ItemOf
    <3>4. /\ Append(before, cs) \in Seq(Seq(Place)) /\ Len(Append(before, cs)) = Len(before) + 1
          /\ \A m \in 1..Len(before) : Append(before, cs)[m] = before[m]
          /\ Append(before, cs)[Len(before) + 1] = cs
      BY <3>1, <3>3, Appended
    <3>5. (i - 1) + 1 = i /\ \A m \in 1..i : m \in 1..(i - 1) \/ m = i
      OBVIOUS
    <3>6. \A m \in 1..i : Append(before, cs)[m] = now[m]
      BY <2>1, <3>1, <3>2, <3>4, <3>5
    <3>7. Len(Append(before, cs)) = i
      BY <3>1, <3>4, <3>5
    <3> QED
      BY <3>2, <3>4, <3>6, <3>7, SeqEqual
  <2>3. Drafted' = [Drafted EXCEPT !.geometry = Append(@, cs)] /\ UNCHANGED <<property, Finished>>
    BY <1>5, <2>1 DEF Layer!AddLine, Layer!Writing
  <2>4. Drafted' = [type |-> kind, id |-> id, geometry |-> Append(before, cs), values |-> cells]
    BY <1>14, <2>3
  <2> QED
    BY <1>5, <1>7, <1>8, <2>2, <2>3, <2>4
<1>13. CASE type = "Polygon"
  <2>1. cs = Closed(paths[i]) /\ before = Upto(paths)[i - 1] /\ now = Upto(paths)[i]
    BY <1>1, <1>2, <1>3, <1>6, <1>7, <1>13 DEF Coords, ShapeAfter
  <2>2. now = GroupedAs(before, paths, i)
    BY <1>10, <2>1, UptoFacts
  <2>3. CASE StartsPolygon(paths, i)
    <3>1. role = "Exterior" /\ now = Append(before, <<cs>>)
      BY <1>4, <1>10, <1>13, <2>1, <2>2, <2>3, GroupedIs DEF RoleIn
    <3>2. Drafted' = [Drafted EXCEPT !.geometry = Append(@, <<cs>>)] /\ UNCHANGED <<property, Finished>>
      BY <1>5, <3>1 DEF Layer!AddPolygon, Layer!Writing
    <3>3. Drafted' = [type |-> kind, id |-> id, geometry |-> Append(before, <<cs>>), values |-> cells]
      BY <1>14, <3>2
    <3> QED
      BY <1>5, <1>7, <1>8, <3>1, <3>2, <3>3
  <2>4. CASE ~StartsPolygon(paths, i)
    <3>1. role = "Hole" /\ now = [before EXCEPT ![Len(before)] = Append(@, cs)]
      BY <1>4, <1>10, <1>13, <2>1, <2>2, <2>4, GroupedIs DEF RoleIn
    <3>2. /\ Drafted' = [Drafted EXCEPT !.geometry[Len(Drafted.geometry)] = Append(@, cs)]
          /\ UNCHANGED <<property, Finished>>
      BY <1>5, <3>1 DEF Layer!AddHole, Layer!Writing
    <3>3. Drafted.geometry = before
      BY <1>9
    <3>4. Drafted' = [type |-> kind, id |-> id, geometry |-> [before EXCEPT ![Len(before)] = Append(@, cs)],
                      values |-> cells]
      BY <1>14, <3>2, <3>3
    <3> QED
      BY <1>5, <1>7, <1>8, <3>1, <3>2, <3>4
  <2> QED
    BY <2>3, <2>4
<1> QED
  BY <1>2, <1>11, <1>12, <1>13 DEF MvtTypes

-----------------------------------------------------------------------------
(* The values, one by one.                                                  *)

\* A value that is set is the last of its column, and leaves the other columns alone.
LEMMA CellSet ==
  ASSUME NEW low \in Nat, NEW high \in Nat, low <= high, NEW cells, Cells(cells, low, high),
         NEW k \in DOMAIN names, NEW last, last = high + 1, values[last].key = k,
         NEW value, value = Cast(PropKind(kinds[k]), Raw(values[last].value))
  PROVE  Cells([cells EXCEPT ![k] = value], low, last)
<1>1. PICK more : more = [cells EXCEPT ![k] = value]
  OBVIOUS
<1>2. cells = [j \in DOMAIN names |-> cells[j]]
  BY DEF Cells
<1>3. /\ more = [j \in DOMAIN names |-> more[j]] /\ more[k] = value
      /\ \A j \in DOMAIN names : j # k => more[j] = cells[j]
  <2>1. DOMAIN cells = DOMAIN names
    BY <1>2
  <2>2. more = [j \in DOMAIN names |-> IF j = k THEN value ELSE cells[j]]
    BY <1>1, <2>1
  <2> QED
    BY <2>2
<1>4. /\ last \in (low + 1)..last /\ \A w \in (last + 1)..last : FALSE
      /\ \A v \in (low + 1)..high : v \in (low + 1)..last
      /\ \A v \in (low + 1)..last : v \in (low + 1)..high \/ v = last
      /\ \A v \in (low + 1)..high : \A w \in (v + 1)..last : w \in (v + 1)..high \/ w = last
  OBVIOUS
<1>5. ASSUME NEW j \in DOMAIN names
      PROVE  CastLast(more[j], j, low, last)
  <2>1. CASE j = k
    BY <1>3, <1>4, <2>1 DEF CastLast
  <2>2. CASE j # k
    <3>1. PICK cell : cell = more[j] /\ cell = cells[j]
      BY <1>3, <2>2
    <3>2. CastLast(cell, j, low, high)
      BY <3>1 DEF Cells
    <3>3. values[last].key # j
      BY <2>2
    <3>4. CASE cell = NoValue /\ \A v \in (low + 1)..high : values[v].key # j
      <4>1. \A v \in (low + 1)..last : values[v].key # j
        BY <1>4, <3>3, <3>4
      <4> QED
        BY <3>1, <3>4, <4>1 DEF CastLast
    <3>5. CASE \E v \in (low + 1)..high :
                  /\ values[v].key = j /\ \A w \in (v + 1)..high : values[w].key # j
                  /\ cell = Cast(PropKind(kinds[j]), Raw(values[v].value))
      <4>1. PICK v \in (low + 1)..high :
                  /\ values[v].key = j /\ \A w \in (v + 1)..high : values[w].key # j
                  /\ cell = Cast(PropKind(kinds[j]), Raw(values[v].value))
        BY <3>5
      <4>2. v \in (low + 1)..last /\ \A w \in (v + 1)..last : values[w].key # j
        BY <1>4, <3>3, <4>1
      <4> QED
        BY <3>1, <4>1, <4>2 DEF CastLast
    <3> QED
      BY <3>2, <3>4, <3>5 DEF CastLast
  <2> QED
    BY <2>1, <2>2
<1> QED
  BY <1>1, <1>3, <1>5 DEF Cells

LEMMA ValueSets ==
  ASSUME LInv, WInv, ColumnsTo(property, Len(names)), NEW f \in DOMAIN features,
         NEW a \in Nat, NEW p \in Nat, NEW b \in Nat, NEW n \in Nat, Ranged(f, a, p, b, n),
         NEW i \in 1..n, Accepts(ValueCall(b + i)), NEW id, NEW shape, NEW cells,
         Cells(cells, b, b + (i - 1)),
         Drafted = [type |-> features[f].type, id |-> id, geometry |-> shape, values |-> cells]
  PROVE  /\ WInv' /\ UNCHANGED <<property, Finished>>
         /\ \E more : /\ Drafted' = [type |-> features[f].type, id |-> id, geometry |-> shape,
                                     values |-> more]
                      /\ Cells(more, b, b + i)
<1>1. PICK last, high \in Nat : last = b + i /\ high = b + (i - 1) /\ last = high + 1 /\ b <= high /\ last <= b + n /\ last # 0
  <2>1. b + i \in Nat /\ b + (i - 1) \in Nat /\ b + i = (b + (i - 1)) + 1 /\ b <= b + (i - 1) /\ b + i <= b + n /\ b + i # 0
    OBVIOUS
  <2> QED
    BY <2>1
<1>2. last \in DOMAIN values
  <2>1. b + n <= Len(values) /\ DOMAIN values = 1..Len(values) /\ Len(values) \in Nat
    BY RowFacts DEF Ranged
  <2>2. b + n \in Nat
    OBVIOUS
  <2> QED
    BY <1>1, <2>1, <2>2
<1>3. PICK k \in DOMAIN names : k = values[last].key
  BY <1>2, RowFacts
<1>4. k \in DOMAIN property
  <2>1. DOMAIN property = 1..Len(names) /\ DOMAIN names = 1..Len(names)
    BY RowFacts DEF ColumnsTo
  <2> QED
    BY <2>1
<1>5. PICK value : value = Cast(PropKind(kinds[k]), Raw(values[last].value))
  OBVIOUS
<1>6. Accepts([op |-> "Property", key |-> k, value |-> value])
  BY <1>1, <1>3, <1>5 DEF ValueCall
<1>7. WInv' /\ Layer!SetProperty(k, value)
  BY <1>4, <1>6, PropertyAccepted
<1>8. PICK more : more = [cells EXCEPT ![k] = value]
  OBVIOUS
<1>9. Cells(more, b, last)
  BY <1>1, <1>3, <1>5, <1>8, CellSet
<1>10. UNCHANGED <<property, Finished>> /\ Drafted' = [Drafted EXCEPT !.values[k] = value]
  BY <1>7 DEF Layer!SetProperty, Layer!Writing
<1>11. Drafted' = [type |-> features[f].type, id |-> id, geometry |-> shape, values |-> more]
  <2>1. PICK draft, kind : draft = Drafted /\ kind = features[f].type
    OBVIOUS
  <2>2. draft = [type |-> kind, id |-> id, geometry |-> shape, values |-> cells]
    BY <2>1
  <2>3. [draft EXCEPT !.values[k] = value] = [type |-> kind, id |-> id, geometry |-> shape, values |-> more]
    BY <1>8, <2>2
  <2> QED
    BY <1>10, <2>1, <2>3
<1> QED
  BY <1>1, <1>7, <1>9, <1>10, <1>11

\* The cell that was written is the value the caller set last, cast.
LEMMA LastCell ==
  ASSUME NEW low \in Nat, NEW high \in Nat, NEW k, NEW raw, NEW cell,
         SetLast(raw, k, <<low, high>>), CastLast(cell, k, low, high),
         \A v \in (low + 1)..high : Raw(values[v].value) \in Raws
  PROVE  cell = CastCell(k, raw)
<1>1. <<low, high>>[1] = low /\ <<low, high>>[2] = high
  OBVIOUS
<1>2. CASE \A v \in (low + 1)..high : values[v].key # k
  <2>1. raw = NoValue /\ cell = NoValue
    BY <1>1, <1>2 DEF SetLast, CastLast
  <2> QED
    BY <2>1 DEF CastCell
<1>3. CASE \E v \in (low + 1)..high : values[v].key = k
  <2>1. PICK v \in (low + 1)..high :
          /\ values[v].key = k /\ \A w \in (v + 1)..high : values[w].key # k
          /\ raw = Raw(values[v].value)
    BY <1>1, <1>3 DEF SetLast
  <2>2. PICK u \in (low + 1)..high :
          /\ values[u].key = k /\ \A w \in (u + 1)..high : values[w].key # k
          /\ cell = Cast(PropKind(kinds[k]), Raw(values[u].value))
    BY <1>3 DEF CastLast
  <2>3. u \in (v + 1)..high \/ v \in (u + 1)..high \/ u = v
    OBVIOUS
  <2>4. u = v
    BY <2>1, <2>2, <2>3
  <2>5. raw # NoValue
    BY <2>1, BufferAssumption
  <2> QED
    BY <2>1, <2>2, <2>4, <2>5 DEF CastCell
<1> QED
  BY <1>2, <1>3

-----------------------------------------------------------------------------
(* Rows and columns.                                                        *)

\* After all its calls the draft is the row the caller asked for.
LEMMA RowDone ==
  ASSUME LInv, GInv, NEW f \in DOMAIN features,
         NEW a \in Nat, NEW p \in Nat, NEW b \in Nat, NEW n \in Nat, Ranged(f, a, p, b, n),
         NEW draft, Drafts(draft, f, features[f].id, p, n)
  PROVE  draft = RowAs(f)
<1>1. features[f].values = <<b, b + n>> /\ features[f].values[1] = b
  BY CountFacts DEF Ranged
<1>2. PICK input, cells :
        /\ input \in Inputs /\ Shows(f, input) /\ Cells(cells, b, b + n)
        /\ draft = [type |-> features[f].type, id |-> features[f].id,
                    geometry |-> ShapeAfter(input, p), values |-> cells]
  BY <1>1 DEF Drafts
<1>3. ShapeAfter(input, p) = ShapeAs(input)
  <2>1. Paths(input) \in Seq(Seq(Place)) /\ Len(Paths(input)) = p /\ p # 0
    BY <1>2, PartShown
  <2> QED
    BY <1>2, <2>1, ShapeEnds
<1>4. cells = [k \in DOMAIN names |-> CastCell(k, given[f].values[names[k]])]
  <2>1. ASSUME NEW k \in DOMAIN names
        PROVE  cells[k] = CastCell(k, given[f].values[names[k]])
    <3>1. PICK raw, cell : raw = given[f].values[names[k]] /\ cell = cells[k]
      OBVIOUS
    <3>2. SetLast(raw, k, <<b, b + n>>)
      BY <1>1, <3>1 DEF GInv, Valued
    <3>3. CastLast(cell, k, b, b + n)
      BY <1>2, <3>1 DEF Cells
    <3>4. \A v \in (b + 1)..(b + n) : Raw(values[v].value) \in Raws
      <4>1. b + n <= Len(values) /\ DOMAIN values = 1..Len(values) /\ Len(values) \in Nat
        BY RowFacts DEF Ranged
      <4>2. \A v \in (b + 1)..(b + n) : v \in DOMAIN values
        BY <4>1
      <4> QED
        BY <4>2 DEF GInv, Told
    <3>5. b + n \in Nat
      OBVIOUS
    <3>6. cell = CastCell(k, raw)
      BY <3>2, <3>3, <3>4, <3>5, LastCell
    <3> QED
      BY <3>1, <3>6
  <2> QED
    BY <1>2, <2>1 DEF Cells
<1> QED
  BY <1>2, <1>3, <1>4 DEF Shows, RowAs

\* A list is its items but the last, and the last.
LEMMA ListedAppend ==
  ASSUME NEW m \in Nat, NEW new, Listed(new, m + 1), NEW old, old = [i \in 1..m |-> new[i]]
  PROVE  new = Append(old, new[m + 1])
<1>1. PICK S : S = {new[i] : i \in 1..(m + 1)}
  OBVIOUS
<1>2. PICK last : last = new[m + 1]
  OBVIOUS
<1>3. (\A i \in 1..m : i \in 1..(m + 1)) /\ m + 1 \in 1..(m + 1) /\ m + 1 \in Nat
  OBVIOUS
<1>4. old \in [1..m -> S] /\ last \in S
  BY <1>1, <1>2, <1>3
<1>5. old \in Seq(S)
  BY <1>4, MadeSeq
<1>6. Len(old) = m /\ \A i \in 1..m : new[i] = old[i]
  BY <1>4, <1>5
<1>7. new = Append(old, last)
  <2>1. /\ Len(old) = m /\ Listed(new, m + 1)
        /\ \A i \in 1..m : new[i] = old[i]
        /\ new[m + 1] = last /\ last \in S /\ old \in Seq(S)
    BY <1>2, <1>4, <1>5, <1>6
  <2>2. ASSUME NEW s \in Seq(S), NEW x \in S, Len(s) = m, \A i \in 1..m : new[i] = s[i], new[m + 1] = x
        PROVE  new = Append(s, x)
    BY <2>2, BuiltByAppend
  <2> QED
    BY <2>1, <2>2
<1> QED
  BY <1>2, <1>7

LEMMA RowsAppend ==
  ASSUME NEW m \in Nat, NEW rows, RowsTo(rows, m)
  PROVE  RowsTo(Append(rows, RowAs(m + 1)), m + 1)
<1>1. PICK new : new = [f \in 1..(m + 1) |-> RowAs(f)]
  OBVIOUS
<1>2. (\A f \in 1..m : f \in 1..(m + 1)) /\ m + 1 \in 1..(m + 1)
  OBVIOUS
<1>3. Listed(new, m + 1) /\ new[m + 1] = RowAs(m + 1) /\ \A f \in 1..m : new[f] = RowAs(f)
  BY <1>1, <1>2 DEF Listed
<1>4. rows = [f \in 1..m |-> new[f]]
  BY <1>3 DEF RowsTo
<1>5. new = Append(rows, new[m + 1])
  BY <1>3, <1>4, ListedAppend
<1> QED
  BY <1>1, <1>3, <1>5 DEF RowsTo

LEMMA ColumnsAppend ==
  ASSUME NEW m \in Nat, NEW cols, ColumnsTo(cols, m)
  PROVE  ColumnsTo(Append(cols, [name |-> names[m + 1], kind |-> PropKind(kinds[m + 1])]), m + 1)
<1>1. PICK new : new = [k \in 1..(m + 1) |-> [name |-> names[k], kind |-> PropKind(kinds[k])]]
  OBVIOUS
<1>2. (\A k \in 1..m : k \in 1..(m + 1)) /\ m + 1 \in 1..(m + 1)
  OBVIOUS
<1>3. /\ Listed(new, m + 1) /\ new[m + 1] = [name |-> names[m + 1], kind |-> PropKind(kinds[m + 1])]
      /\ \A k \in 1..m : new[k] = [name |-> names[k], kind |-> PropKind(kinds[k])]
  BY <1>1, <1>2 DEF Listed
<1>4. cols = [k \in 1..m |-> new[k]]
  BY <1>3 DEF ColumnsTo
<1>5. new = Append(cols, new[m + 1])
  BY <1>3, <1>4, ListedAppend
<1> QED
  BY <1>1, <1>3, <1>5 DEF ColumnsTo

-----------------------------------------------------------------------------
(* The calls for a feature.                                                 *)

LEMMA FeatureBegins ==
  ASSUME LInv, GInv, WInv, ColumnsTo(property, Len(names)), NEW f \in DOMAIN features,
         NEW a \in Nat, NEW p \in Nat, NEW b \in Nat, NEW n \in Nat, Ranged(f, a, p, b, n),
         Accepts([op |-> "Feature", type |-> features[f].type])
  PROVE  WInv' /\ UNCHANGED <<property, Finished>> /\ Drafts(Drafted', f, NoId, 0, 0)
<1>1. PICK type \in DOMAIN Family : type = features[f].type
  BY RowFacts, TypeFacts DEF FeatureRow
<1>2. WInv' /\ Layer!Begin(type)
  BY <1>1, FeatureAccepted
<1>3. PICK cells : cells = [k \in DOMAIN names |-> NoValue]
  OBVIOUS
<1>4. DOMAIN property = DOMAIN names
  BY RowFacts DEF ColumnsTo
<1>5. /\ UNCHANGED <<property, Finished>>
      /\ Drafted' = [type |-> type, id |-> NoId, geometry |-> <<>>, values |-> cells]
  BY <1>2, <1>3, <1>4 DEF Layer!Begin, Layer!Empty
<1>6. PICK input \in Inputs : Shows(f, input)
  BY DEF GInv
<1>7. ShapeAfter(input, 0) = <<>>
  <2>1. Paths(input) \in Seq(Seq(Place))
    BY <1>6, PartShown
  <2> QED
    BY <2>1, ShapeStarts
<1>8. Cells(cells, b, b + 0)
  <2>1. \A v \in (b + 1)..(b + 0) : FALSE
    OBVIOUS
  <2> QED
    BY <1>3, <2>1 DEF Cells, CastLast
<1>9. features[f].values[1] = b
  BY CountFacts
<1> QED
  BY <1>1, <1>2, <1>5, <1>6, <1>7, <1>8, <1>9 DEF Drafts

LEMMA IdSet ==
  ASSUME LInv, WInv, NEW f \in DOMAIN features, Drafts(Drafted, f, NoId, 0, 0),
         Accepts([op |-> "Id", id |-> features[f].id])
  PROVE  WInv' /\ UNCHANGED <<property, Finished>> /\ Drafts(Drafted', f, features[f].id, 0, 0)
<1>1. PICK id \in Ids \cup {NoId} : id = features[f].id
  BY RowFacts DEF FeatureRow
<1>2. WInv' /\ Layer!SetId(id)
  BY <1>1, IdAccepted
<1>3. PICK input, cells :
        /\ input \in Inputs /\ Shows(f, input) /\ Cells(cells, features[f].values[1], features[f].values[1] + 0)
        /\ Drafted = [type |-> features[f].type, id |-> NoId,
                      geometry |-> ShapeAfter(input, 0), values |-> cells]
  BY DEF Drafts
<1>4. UNCHANGED <<property, Finished>> /\ Drafted' = [Drafted EXCEPT !.id = id]
  BY <1>2 DEF Layer!SetId, Layer!Writing
<1>5. Drafted' = [type |-> features[f].type, id |-> id, geometry |-> ShapeAfter(input, 0), values |-> cells]
  <2>1. PICK draft, kind, shape : draft = Drafted /\ kind = features[f].type /\ shape = ShapeAfter(input, 0)
    OBVIOUS
  <2>2. draft = [type |-> kind, id |-> NoId, geometry |-> shape, values |-> cells]
    BY <1>3, <2>1
  <2>3. [draft EXCEPT !.id = id] = [type |-> kind, id |-> id, geometry |-> shape, values |-> cells]
    BY <2>2
  <2> QED
    BY <1>4, <2>1, <2>3
<1> QED
  BY <1>1, <1>2, <1>3, <1>4, <1>5 DEF Drafts

LEMMA PartWritten ==
  ASSUME LInv, WInv, NEW f \in DOMAIN features,
         NEW a \in Nat, NEW p \in Nat, NEW b \in Nat, NEW n \in Nat, Ranged(f, a, p, b, n),
         NEW i \in 1..p, Drafts(Drafted, f, features[f].id, i - 1, 0), Accepts(PartCall(a + i))
  PROVE  WInv' /\ UNCHANGED <<property, Finished>> /\ Drafts(Drafted', f, features[f].id, i, 0)
<1>1. PICK input, cells :
        /\ input \in Inputs /\ Shows(f, input) /\ Cells(cells, features[f].values[1], features[f].values[1] + 0)
        /\ Drafted = [type |-> features[f].type, id |-> features[f].id,
                      geometry |-> ShapeAfter(input, i - 1), values |-> cells]
  BY DEF Drafts
<1>2. PICK id : id = features[f].id
  OBVIOUS
<1>3. /\ WInv' /\ UNCHANGED <<property, Finished>>
      /\ Drafted' = [type |-> features[f].type, id |-> id, geometry |-> ShapeAfter(input, i),
                     values |-> cells]
  BY <1>1, <1>2, PartDraws
<1> QED
  BY <1>1, <1>2, <1>3 DEF Drafts

LEMMA ValueAdded ==
  ASSUME LInv, WInv, ColumnsTo(property, Len(names)), NEW f \in DOMAIN features,
         NEW a \in Nat, NEW p \in Nat, NEW b \in Nat, NEW n \in Nat, Ranged(f, a, p, b, n),
         NEW i \in 1..n, Drafts(Drafted, f, features[f].id, p, i - 1), Accepts(ValueCall(b + i))
  PROVE  WInv' /\ UNCHANGED <<property, Finished>> /\ Drafts(Drafted', f, features[f].id, p, i)
<1>1. features[f].values[1] = b
  BY CountFacts
<1>2. PICK input, cells :
        /\ input \in Inputs /\ Shows(f, input) /\ Cells(cells, b, b + (i - 1))
        /\ Drafted = [type |-> features[f].type, id |-> features[f].id,
                      geometry |-> ShapeAfter(input, p), values |-> cells]
  BY <1>1 DEF Drafts
<1>3. PICK id, shape : id = features[f].id /\ shape = ShapeAfter(input, p)
  OBVIOUS
<1>4. /\ WInv' /\ UNCHANGED <<property, Finished>>
      /\ \E more : /\ Drafted' = [type |-> features[f].type, id |-> id, geometry |-> shape,
                                  values |-> more]
                   /\ Cells(more, b, b + i)
  <2>1. /\ Drafted = [type |-> features[f].type, id |-> id, geometry |-> shape, values |-> cells]
        /\ Cells(cells, b, b + (i - 1))
    BY <1>2, <1>3
  <2> QED
    BY <2>1, ValueSets
<1> QED
  BY <1>1, <1>2, <1>3, <1>4 DEF Drafts

LEMMA FeatureEnds ==
  ASSUME LInv, GInv, WInv, NEW f \in DOMAIN features,
         NEW a \in Nat, NEW p \in Nat, NEW b \in Nat, NEW n \in Nat, Ranged(f, a, p, b, n),
         RowsTo(Finished, f - 1), Drafts(Drafted, f, features[f].id, p, n),
         Accepts([op |-> "Finish"])
  PROVE  WInv' /\ UNCHANGED property /\ RowsTo(Finished', f) /\ Drafted' = NoDraft
<1>1. WInv' /\ Layer!Finish
  BY FinishAccepted
<1>2. PICK draft : draft = Drafted /\ draft = RowAs(f)
  BY RowDone
<1>3. UNCHANGED property /\ Finished' = Append(Finished, RowAs(f)) /\ Drafted' = NoDraft
  BY <1>1, <1>2 DEF Layer!Finish
<1>4. f - 1 \in Nat /\ (f - 1) + 1 = f
  <2>1. f \in 1..Len(features) /\ Len(features) \in Nat
    BY RowFacts
  <2> QED
    BY <2>1
<1>5. PICK m \in Nat : m = f - 1 /\ m + 1 = f
  BY <1>4
<1>6. PICK rows : rows = Finished /\ RowsTo(rows, m)
  BY <1>5
<1>7. RowsTo(Append(rows, RowAs(f)), f)
  BY <1>5, <1>6, RowsAppend
<1> QED
  BY <1>1, <1>3, <1>6, <1>7

LEMMA FeatureStep ==
  ASSUME LInv, GInv, WInv, NEW f \in DOMAIN features, NEW j \in Nat,
         ColumnsTo(property, Len(names)), RowsTo(Finished, f - 1), Before(Drafted, f, j),
         Accepts(FeatureCalls(features[f])[j])
  PROVE  /\ WInv' /\ UNCHANGED property
         /\ \/ /\ j < Len(FeatureCalls(features[f]))
               /\ UNCHANGED Finished /\ Before(Drafted', f, j + 1)
            \/ /\ ~(j < Len(FeatureCalls(features[f])))
               /\ RowsTo(Finished', f) /\ Drafted' = NoDraft
<1>1. PICK a, p, b, n \in Nat : Ranged(f, a, p, b, n)
  BY RangesExist
<1>2. PartCount(f) = p /\ ValueCount(f) = n
  BY <1>1, CountFacts
<1>3. PICK calls : calls = FeatureCalls(features[f])
  OBVIOUS
<1>4. PICK L \in Nat : L = p + n + 3
  OBVIOUS
<1>5. /\ Len(calls) = L
      /\ calls[1] = [op |-> "Feature", type |-> features[f].type]
      /\ calls[2] = [op |-> "Id", id |-> features[f].id]
      /\ \A i \in 1..p : calls[2 + i] = PartCall(a + i)
      /\ \A i \in 1..n : calls[2 + p + i] = ValueCall(b + i)
      /\ calls[L] = [op |-> "Finish"]
  <2>1. CallsAre(calls, f, a, p, b, n)
    BY <1>1, <1>3, CallFacts
  <2> QED
    BY <1>4, <2>1 DEF CallsAre
<1>6. CASE j = 1
  <2>1. WInv' /\ UNCHANGED <<property, Finished>> /\ Drafts(Drafted', f, NoId, 0, 0)
    BY <1>1, <1>3, <1>5, <1>6, FeatureBegins
  <2>2. j < L /\ j + 1 = 2
    BY <1>4, <1>6
  <2> QED
    BY <1>3, <1>5, <2>1, <2>2 DEF Before
<1>7. CASE j = 2 /\ Drafts(Drafted, f, NoId, 0, 0)
  <2>1. WInv' /\ UNCHANGED <<property, Finished>> /\ Drafts(Drafted', f, features[f].id, 0, 0)
    BY <1>3, <1>5, <1>7, IdSet
  <2>2. j < L /\ j + 1 = 3 + 0 /\ 0 \in 0..p
    BY <1>4, <1>7
  <2> QED
    BY <1>2, <1>3, <1>5, <2>1, <2>2 DEF Before
<1>8. ASSUME NEW m \in 0..n, j = 3 + p + m, Drafts(Drafted, f, features[f].id, p, m)
      PROVE  /\ WInv' /\ UNCHANGED property
             /\ \/ /\ j < L /\ UNCHANGED Finished /\ Before(Drafted', f, j + 1)
                \/ /\ ~(j < L) /\ RowsTo(Finished', f) /\ Drafted' = NoDraft
  <2>1. CASE m = n
    <3>1. j = L /\ ~(j < L)
      BY <1>4, <1>8, <2>1
    <3>2. Accepts([op |-> "Finish"]) /\ Drafts(Drafted, f, features[f].id, p, n)
      BY <1>3, <1>5, <1>8, <2>1, <3>1
    <3> QED
      BY <1>1, <3>1, <3>2, FeatureEnds
  <2>2. CASE m # n
    <3>1. PICK i \in 1..n : i = m + 1 /\ i - 1 = m /\ j = 2 + p + i /\ j < L /\ j + 1 = 3 + p + i /\ i \in 0..n
      <4>1. /\ m + 1 \in 1..n /\ (m + 1) - 1 = m /\ j = 2 + p + (m + 1) /\ j < L
            /\ j + 1 = 3 + p + (m + 1) /\ m + 1 \in 0..n
        BY <1>4, <1>8, <2>2
      <4> QED
        BY <4>1
    <3>2. Accepts(ValueCall(b + i)) /\ Drafts(Drafted, f, features[f].id, p, i - 1)
      BY <1>3, <1>5, <1>8, <3>1
    <3>3. WInv' /\ UNCHANGED <<property, Finished>> /\ Drafts(Drafted', f, features[f].id, p, i)
      BY <1>1, <3>2, ValueAdded
    <3> QED
      BY <1>2, <3>1, <3>3 DEF Before
  <2> QED
    BY <2>1, <2>2
<1>9. ASSUME NEW m \in 0..p, j = 3 + m, Drafts(Drafted, f, features[f].id, m, 0)
      PROVE  /\ WInv' /\ UNCHANGED property
             /\ \/ /\ j < L /\ UNCHANGED Finished /\ Before(Drafted', f, j + 1)
                \/ /\ ~(j < L) /\ RowsTo(Finished', f) /\ Drafted' = NoDraft
  <2>1. CASE m = p
    <3>1. j = 3 + p + 0 /\ 0 \in 0..n /\ Drafts(Drafted, f, features[f].id, p, 0)
      BY <1>9, <2>1
    <3> QED
      BY <1>8, <3>1
  <2>2. CASE m # p
    <3>1. PICK i \in 1..p : i = m + 1 /\ i - 1 = m /\ j = 2 + i /\ j < L /\ j + 1 = 3 + i /\ i \in 0..p
      <4>1. /\ m + 1 \in 1..p /\ (m + 1) - 1 = m /\ j = 2 + (m + 1) /\ j < L
            /\ j + 1 = 3 + (m + 1) /\ m + 1 \in 0..p
        BY <1>4, <1>9, <2>2
      <4> QED
        BY <4>1
    <3>2. Accepts(PartCall(a + i)) /\ Drafts(Drafted, f, features[f].id, i - 1, 0)
      BY <1>3, <1>5, <1>9, <3>1
    <3>3. WInv' /\ UNCHANGED <<property, Finished>> /\ Drafts(Drafted', f, features[f].id, i, 0)
      BY <1>1, <3>2, PartWritten
    <3> QED
      BY <1>2, <3>1, <3>3 DEF Before
  <2> QED
    BY <2>1, <2>2
<1>10. \/ j = 1
       \/ j = 2 /\ Drafts(Drafted, f, NoId, 0, 0)
       \/ \E m \in 0..p : j = 3 + m /\ Drafts(Drafted, f, features[f].id, m, 0)
       \/ \E m \in 0..n : j = 3 + p + m /\ Drafts(Drafted, f, features[f].id, p, m)
  BY <1>2 DEF Before
<1>11. /\ WInv' /\ UNCHANGED property
       /\ \/ /\ j < L /\ UNCHANGED Finished /\ Before(Drafted', f, j + 1)
          \/ /\ ~(j < L) /\ RowsTo(Finished', f) /\ Drafted' = NoDraft
  BY <1>3, <1>5, <1>6, <1>7, <1>8, <1>9, <1>10
<1> QED
  BY <1>3, <1>5, <1>11

-----------------------------------------------------------------------------
(* The replay.                                                              *)

\* With the columns and the rows before it written, a feature can be begun.
LEMMA WrittenSoFar ==
  ASSUME Len(names) \in Nat, Len(features) \in Nat, NEW f \in 1..(Len(features) + 1), NEW cols, NEW rows,
         ColumnsTo(cols, Len(names)), RowsTo(rows, f - 1)
  PROVE  Written(f, 1, cols, rows, NoDraft)
<1>1. CASE f \in 1..Len(features)
  BY <1>1 DEF Written, Before
<1>2. CASE f = Len(features) + 1
  <2>1. f - 1 = Len(features)
    BY <1>2
  <2> QED
    BY <1>2, <2>1 DEF Written
<1> QED
  BY <1>1, <1>2

LEMMA SameWritten ==
  ASSUME UNCHANGED buffer, NEW f, NEW j, NEW cols, NEW rows, NEW draft, Written(f, j, cols, rows, draft)
  PROVE  Written(f, j, cols, rows, draft)'
<1>1. /\ UNCHANGED <<names, kinds, features, parts, points, values, strings, given>>
      /\ PartCount(f)' = PartCount(f) /\ ValueCount(f)' = ValueCount(f)
  BY DEF buffer, PartCount, ValueCount
<1>2. \A low, high, cells : Cells(cells, low, high) => Cells(cells, low, high)'
  BY <1>1 DEF Cells, CastLast, Raw
<1>3. \A input : Shows(f, input) => Shows(f, input)'
  BY <1>1 DEF Shows
<1>4. \A id, i, n : Drafts(draft, f, id, i, n) => Drafts(draft, f, id, i, n)'
  <2> SUFFICES ASSUME NEW id, NEW i, NEW n, Drafts(draft, f, id, i, n)
               PROVE  Drafts(draft, f, id, i, n)'
    OBVIOUS
  <2>1. PICK input, cells :
          /\ input \in Inputs /\ Shows(f, input)
          /\ draft = [type |-> features[f].type, id |-> id, geometry |-> ShapeAfter(input, i),
                      values |-> cells]
          /\ Cells(cells, features[f].values[1], features[f].values[1] + n)
    BY DEF Drafts
  <2>2. /\ Shows(f, input)'
        /\ (draft = [type |-> features[f].type, id |-> id, geometry |-> ShapeAfter(input, i),
                     values |-> cells])'
    BY <1>1, <1>3, <2>1
  <2>3. Cells(cells, features[f].values[1], features[f].values[1] + n)'
    <3>1. PICK low, high : low = features[f].values[1] /\ high = features[f].values[1] + n
      OBVIOUS
    <3>2. Cells(cells, low, high)'
      BY <1>2, <2>1, <3>1
    <3> QED
      BY <1>1, <3>1, <3>2 DEF Cells, CastLast
  <2> QED
    BY <2>1, <2>2, <2>3 DEF Drafts
<1>5. Before(draft, f, j) => Before(draft, f, j)'
  BY <1>1, <1>4 DEF Before
<1>6. \A m : (ColumnsTo(cols, m) => ColumnsTo(cols, m)') /\ (RowsTo(rows, m) => RowsTo(rows, m)')
  BY <1>1 DEF ColumnsTo, RowsTo, RowAs, CastCell
<1>7. ColumnsTo(cols, Len(names)) => ColumnsTo(cols, Len(names))'
  BY <1>1, <1>6 DEF ColumnsTo
<1>8. RowsTo(rows, Len(features)) => RowsTo(rows, Len(features))'
  BY <1>1, <1>6 DEF RowsTo, RowAs, CastCell
<1> QED
  BY <1>1, <1>5, <1>6, <1>7, <1>8 DEF Written

LEMMA ColumnStep ==
  ASSUME LInv, WInv, NEW j \in 1..Len(names), Accepts(AddCalls[j]),
         ColumnsTo(property, j - 1), Finished = <<>>, Drafted = NoDraft
  PROVE  WInv' /\ ColumnsTo(property', j) /\ Finished' = <<>> /\ Drafted' = NoDraft
<1>1. Len(names) \in Nat /\ DOMAIN names = 1..Len(names)
  BY RowFacts
<1>2. PICK name \in Names : name = names[j]
  <2>1. names \in Seq(Names)
    BY DEF LInv, BufferTypes
  <2> QED
    BY <2>1, ItemOf
<1>3. PICK kind \in Kinds : kind = PropKind(kinds[j])
  <2>1. kinds \in Seq(PropKinds \cup {"Unknown"}) /\ Len(kinds) = Len(names)
    BY DEF LInv, BufferTypes, BufferTypeOK
  <2>2. kinds[j] \in PropKinds \cup {"Unknown"}
    BY <2>1, ItemOf
  <2>3. PropKind(kinds[j]) \in PropKinds
    BY <2>2 DEF PropKind, PropKinds
  <2> QED
    BY <2>3, CastsTaken
<1>4. PICK column : column = [name |-> name, kind |-> kind]
  OBVIOUS
<1>5. WInv' /\ Layer!AddProperty(name, kind)
  <2>1. AddCalls[j] = [op |-> "Add", name |-> name, kind |-> kind]
    BY <1>1, <1>2, <1>3 DEF AddCalls
  <2> QED
    BY <2>1, AddAccepted
<1>6. property' = Append(property, column) /\ Drafted' = NoDraft
  BY <1>4, <1>5 DEF Layer!AddProperty
<1>7. Finished' = <<>>
  <2>1. \A rows, longer : rows = <<>> /\ longer = [f \in DOMAIN rows |-> [rows[f] EXCEPT !.values = Append(@, NoValue)]]
                            => longer = <<>>
    OBVIOUS
  <2> QED
    BY <1>5, <2>1 DEF Layer!AddProperty
<1>8. ColumnsTo(property', j)
  <2>1. PICK m, cols : m \in Nat /\ m = j - 1 /\ m + 1 = j /\ cols = property
    <3>1. j - 1 \in Nat /\ (j - 1) + 1 = j
      BY <1>1
    <3> QED
      BY <3>1
  <2>2. ColumnsTo(Append(cols, [name |-> names[j], kind |-> PropKind(kinds[j])]), j)
    BY <2>1, ColumnsAppend
  <2> QED
    BY <1>2, <1>3, <1>4, <1>6, <2>1, <2>2
<1> QED
  BY <1>5, <1>6, <1>7, <1>8

LEMMA StillWritten ==
  ASSUME UNCHANGED buffer, encoding', WInv', NEW g \in Nat, NEW h \in Nat, at' = <<g, h>>,
         NEW cols, NEW rows, NEW draft, cols = property', rows = Finished', draft = Drafted',
         Written(g, h, cols, rows, draft)
  PROVE  RInv'
<1>1. Written(g, h, cols, rows, draft)'
  BY SameWritten
<1>2. Written(g, h, property, Finished, Drafted)'
  BY <1>1 DEF Written, ColumnsTo, RowsTo, Before, Drafts
<1> QED
  BY <1>2 DEF RInv

LEMMA ReplayWrites ==
  ASSUME LInv, GInv, RInv, Replay
  PROVE  RInv'
<1>1. /\ WInv /\ encoding /\ encoding' /\ UNCHANGED buffer
      /\ ~(at[1] > Len(features))
      /\ Accepts(Calls(at[1])[at[2]])
      /\ at' = IF at[2] < Len(Calls(at[1])) THEN <<at[1], at[2] + 1>> ELSE <<at[1] + 1, 1>>
  BY DEF RInv, Replay, Encoded
<1>2. PICK f, j \in Nat : at = <<f, j>> /\ Written(f, j, property, Finished, Drafted)
  BY <1>1 DEF RInv
<1>3. PICK calls : calls = Calls(f)
  OBVIOUS
<1>4. /\ ~(f > Len(features)) /\ Accepts(calls[j])
      /\ at' = IF j < Len(calls) THEN <<f, j + 1>> ELSE <<f + 1, 1>>
  <2>1. <<f, j>>[1] = f /\ <<f, j>>[2] = j
    OBVIOUS
  <2> QED
    BY <1>1, <1>2, <1>3, <2>1
<1>5. /\ Len(names) \in Nat /\ Len(features) \in Nat
      /\ DOMAIN features = 1..Len(features) /\ DOMAIN names = 1..Len(names)
  BY RowFacts
<1>6. PICK cols, rows, draft : cols = property' /\ rows = Finished' /\ draft = Drafted'
  OBVIOUS
<1>7. f + 1 \in Nat /\ j + 1 \in Nat /\ 1 \in Nat
  OBVIOUS
<1>8. CASE f = 0
  <2>1. /\ j \in 1..Len(names) /\ ColumnsTo(property, j - 1) /\ Finished = <<>> /\ Drafted = NoDraft
    BY <1>2, <1>5, <1>8 DEF Written
  <2>2. calls = AddCalls /\ Len(calls) = Len(names)
    <3>1. calls = AddCalls
      BY <1>3, <1>8 DEF Calls
    <3>2. PICK M \in Nat : M = Len(names)
      BY <1>5
    <3>3. \A s : s = [k \in 1..M |-> s[k]] => Len(s) = M
      OBVIOUS
    <3>4. calls = [k \in 1..M |-> calls[k]]
      BY <1>5, <3>1, <3>2 DEF AddCalls
    <3> QED
      BY <3>1, <3>2, <3>3, <3>4
  <2>3. WInv' /\ ColumnsTo(cols, j) /\ rows = <<>> /\ draft = NoDraft
    BY <1>1, <1>4, <1>6, <2>1, <2>2, ColumnStep
  <2>4. CASE j < Len(names)
    <3>1. j + 1 \in 1..Len(names) /\ (j + 1) - 1 = j
      BY <1>5, <2>1, <2>4
    <3>2. Written(0, j + 1, cols, rows, draft)
      BY <2>3, <3>1 DEF Written
    <3>3. at' = <<0, j + 1>>
      BY <1>4, <1>8, <2>2, <2>4
    <3> QED
      BY <1>1, <1>6, <1>7, <2>3, <3>2, <3>3, StillWritten
  <2>5. CASE ~(j < Len(names))
    <3>1. j = Len(names) /\ f + 1 = 1 /\ 1 \in 1..(Len(features) + 1)
      <4>1. PICK M, N \in Nat : M = Len(names) /\ N = Len(features)
        BY <1>5
      <4>2. j = M /\ 1 \in 1..(N + 1)
        BY <2>1, <2>5, <4>1
      <4> QED
        BY <1>8, <4>1, <4>2
    <3>2. RowsTo(rows, 1 - 1)
      <4>1. \A i \in 1..(1 - 1) : FALSE
        OBVIOUS
      <4>2. <<>> = [i \in 1..(1 - 1) |-> RowAs(i)]
        BY <4>1
      <4> QED
        BY <2>3, <4>2 DEF RowsTo
    <3>3. Written(1, 1, cols, rows, draft)
      BY <1>5, <2>3, <3>1, <3>2, WrittenSoFar
    <3>4. at' = <<1, 1>>
      BY <1>4, <2>2, <2>5, <3>1
    <3> QED
      BY <1>1, <1>6, <2>3, <3>3, <3>4, StillWritten
  <2> QED
    BY <2>4, <2>5
<1>9. CASE f # 0
  <2>1. /\ f \in DOMAIN features /\ f \in 1..Len(features)
        /\ ColumnsTo(property, Len(names)) /\ RowsTo(Finished, f - 1) /\ Before(Drafted, f, j)
    <3>1. f \in 1..Len(features) /\ f # Len(features) + 1
      BY <1>4, <1>5, <1>9
    <3> QED
      BY <1>2, <1>5, <1>9, <3>1 DEF Written
  <2>2. calls = FeatureCalls(features[f])
    BY <1>3, <1>9 DEF Calls
  <2>3. /\ WInv' /\ cols = property
        /\ \/ /\ j < Len(calls) /\ rows = Finished /\ Before(draft, f, j + 1)
           \/ /\ ~(j < Len(calls)) /\ RowsTo(rows, f) /\ draft = NoDraft
    BY <1>1, <1>4, <1>6, <2>1, <2>2, FeatureStep
  <2>4. CASE j < Len(calls)
    <3>1. Written(f, j + 1, cols, rows, draft)
      BY <2>1, <2>3, <2>4 DEF Written
    <3> QED
      BY <1>1, <1>4, <1>6, <1>7, <2>3, <2>4, <3>1, StillWritten
  <2>5. CASE ~(j < Len(calls))
    <3>1. f + 1 \in 1..(Len(features) + 1) /\ (f + 1) - 1 = f
      BY <1>5, <2>1
    <3>2. Written(f + 1, 1, cols, rows, draft)
      BY <1>5, <2>1, <2>3, <2>5, <3>1, WrittenSoFar
    <3> QED
      BY <1>1, <1>4, <1>6, <1>7, <2>3, <2>5, <3>2, StillWritten
  <2> QED
    BY <2>4, <2>5
<1> QED
  BY <1>8, <1>9

LEMMA StartEmpty == Init => WInv /\ property = <<>> /\ Finished = <<>> /\ Drafted = NoDraft
<1>1. Init => WInv
  BY TypesInit, EndsInit, AlignedInit DEF WInv
<1>2. Init => property = <<>> /\ Finished = <<>> /\ Drafted = NoDraft
  BY RefinesInit DEF Layer!Init
<1> QED
  BY <1>1, <1>2

LEMMA StartEmptyNext == Init' => WInv' /\ property' = <<>> /\ Finished' = <<>> /\ Drafted' = NoDraft
<1>1. Init' => (WInv /\ property = <<>> /\ Finished = <<>> /\ Drafted = NoDraft)'
  BY StartEmpty, PTL
<1> QED
  BY <1>1

LEMMA NothingWritten ==
  ASSUME LInv
  PROVE  /\ Written(0, 1, <<>>, <<>>, NoDraft) \/ names = <<>>
         /\ names = <<>> => Written(1, 1, <<>>, <<>>, NoDraft)
<1>1. Len(names) \in Nat /\ Len(features) \in Nat /\ names \in Seq(Names)
  BY RowFacts DEF LInv, BufferTypes
<1>2. \A i \in 1..(1 - 1) : FALSE
  OBVIOUS
<1>3. ColumnsTo(<<>>, 1 - 1) /\ RowsTo(<<>>, 1 - 1)
  <2>1. <<>> = [i \in 1..(1 - 1) |-> RowAs(i)]
    BY <1>2
  <2>2. <<>> = [k \in 1..(1 - 1) |-> [name |-> names[k], kind |-> PropKind(kinds[k])]]
    BY <1>2
  <2> QED
    BY <2>1, <2>2 DEF ColumnsTo, RowsTo
<1>4. names # <<>> => 1 \in 1..Len(names)
  BY <1>1
<1>5. names = <<>> => Len(names) = 1 - 1
  BY <1>1
<1>6. 1 \in 1..(Len(features) + 1)
  BY <1>1
<1>7. names # <<>> => Written(0, 1, <<>>, <<>>, NoDraft)
  BY <1>3, <1>4 DEF Written
<1>8. names = <<>> => Written(1, 1, <<>>, <<>>, NoDraft)
  BY <1>1, <1>3, <1>5, <1>6, WrittenSoFar
<1> QED
  BY <1>7, <1>8

LEMMA EncodeWrites ==
  ASSUME LInv, RInv, Encode
  PROVE  RInv'
<1>1. /\ Init /\ encoding' /\ UNCHANGED <<buffer, vars>>
      /\ at' = IF names = <<>> THEN <<1, 1>> ELSE <<0, 1>>
  BY DEF RInv, Encode
<1>2. Init'
  BY <1>1 DEF Init, vars, geometry
<1>3. WInv' /\ property' = <<>> /\ Finished' = <<>> /\ Drafted' = NoDraft
  BY <1>2, StartEmptyNext
<1>4. UNCHANGED buffer
  BY <1>1
<1>5. PICK cols, rows, draft : /\ cols = property' /\ rows = Finished' /\ draft = Drafted'
                               /\ cols = <<>> /\ rows = <<>> /\ draft = NoDraft
  BY <1>3
<1>6. CASE names = <<>>
  <2>1. Written(1, 1, cols, rows, draft) /\ at' = <<1, 1>> /\ 1 \in Nat
    BY <1>1, <1>5, <1>6, NothingWritten
  <2> QED
    BY <1>1, <1>3, <1>4, <1>5, <2>1, StillWritten
<1>7. CASE names # <<>>
  <2>1. Written(0, 1, cols, rows, draft) /\ at' = <<0, 1>> /\ 1 \in Nat /\ 0 \in Nat
    BY <1>1, <1>5, <1>7, NothingWritten
  <2> QED
    BY <1>1, <1>3, <1>4, <1>5, <2>1, StillWritten
<1> QED
  BY <1>6, <1>7

LEMMA SameReplay ==
  ASSUME RInv, UNCHANGED bufferVars
  PROVE  RInv'
<1>1. UNCHANGED <<buffer, encoding, at, vars>>
  BY DEF bufferVars
<1>2. CASE ~encoding
  <2>1. Init' /\ ~encoding'
    BY <1>1, <1>2 DEF RInv, Init, vars, geometry
  <2> QED
    BY <2>1, StartEmptyNext DEF RInv
<1>3. CASE encoding
  <2>1. PICK f, j \in Nat : at = <<f, j>> /\ Written(f, j, property, Finished, Drafted)
    BY <1>3 DEF RInv
  <2>2. WInv'
    BY <1>1, NextKeeps DEF RInv
  <2>3. property' = property /\ Finished' = Finished /\ Drafted' = Drafted
    <3>1. UNCHANGED Layer!vars
      BY <1>1, <2>2, SameLayer DEF RInv
    <3> QED
      BY <3>1 DEF Layer!vars
  <2>4. PICK cols, rows, draft : /\ cols = property' /\ rows = Finished' /\ draft = Drafted'
                                 /\ Written(f, j, cols, rows, draft)
    BY <2>1, <2>3
  <2>5. UNCHANGED buffer /\ encoding' /\ at' = <<f, j>>
    BY <1>1, <1>3, <2>1
  <2> QED
    BY <2>2, <2>4, <2>5, StillWritten
<1> QED
  BY <1>2, <1>3

LEMMA RInvAlways == BufferSpec => []RInv
<1>1. BufferInit => RInv
  BY StartEmpty DEF BufferInit, RInv
<1>2. LInv /\ GInv /\ RInv /\ [BufferNext]_bufferVars => RInv'
  <2> SUFFICES ASSUME LInv, GInv, RInv, [BufferNext]_bufferVars PROVE RInv'
    OBVIOUS
  <2>1. CASE Building
    <3>1. Init /\ ~encoding'
      BY <2>1 DEF RInv, Building
    <3>2. Init'
      BY <2>1, <3>1 DEF Building, Init, vars, geometry
    <3> QED
      BY <3>1, <3>2, StartEmptyNext DEF RInv
  <2>2. CASE Encode
    BY <2>2, EncodeWrites
  <2>3. CASE Replay
    BY <2>3, ReplayWrites
  <2>4. CASE Drop
    <3>1. ~encoding' /\ Init'
      BY <2>4 DEF Drop, Init
    <3> QED
      BY <3>1, StartEmptyNext DEF RInv
  <2>5. CASE UNCHANGED bufferVars
    BY <2>5, SameReplay
  <2> QED
    BY <2>1, <2>2, <2>3, <2>4, <2>5
       DEF BufferNext, BufferReset, BufferAddProperty, Begin, SetValue, SetStr
<1> QED
  BY <1>1, <1>2, LInvAlways, GInvAlways, PTL DEF BufferSpec

\* What an i64 holds does not wrap.
LEMMA NoWrap ==
  ASSUME NEW area, NEW wide \in Nat, wide # 0, area \in -wide..(wide - 1)
  PROVE  ((area + wide) % (2 * wide)) - wide = area
<1>1. PICK n, m \in Nat : n = area + wide /\ m = 2 * wide /\ n < m
  OBVIOUS
<1>2. n % m = n
  BY <1>1
<1> QED
  BY <1>1, <1>2

LEMMA CodedRightly ==
  ASSUME NEW rings
  PROVE  RightlyOuter(Coded(rings), rings)
<1> SUFFICES ASSUME NEW n \in DOMAIN rings, Area(rings[n]) \in -Wide..(Wide - 1)
             PROVE  n \in Coded(rings) <=> n \in Outer(rings)
  BY DEF RightlyOuter
<1>1. PICK wide \in Nat : wide = Wide /\ wide # 0
  BY BufferAssumption DEF Wide
<1>2. SignedArea(rings[n]) = Area(rings[n])
  BY <1>1, NoWrap DEF SignedArea
<1> QED
  BY <1>2 DEF Coded, Outer

\* The replay of a builder's calls loses and changes nothing: whatever calls succeeded and
\* failed before encode, the encoded layer has a column per declared property, of the kind
\* that holds all its values, and the features in order, each with the geometry its MVT
\* commands describe and the value set last in each column, cast (store.rs:329). A ring
\* whose area an i64 does not hold may be taken for an outer one or not (store.rs:59-65).
THEOREM EncodedAsGiven == BufferSpec => []EncodesWhatWasGiven
<1>1. LInv /\ RInv => EncodesWhatWasGiven
  <2> SUFFICES ASSUME LInv, RInv, Encoded
               PROVE  /\ property = [k \in DOMAIN names |-> [name |-> names[k], kind |-> HoldingKind(k)]]
                      /\ Len(Finished) = Len(given)
                      /\ \A f \in DOMAIN given :
                            LET rings == Paths(given[f].input)
                            IN \E outer \in SUBSET DOMAIN rings :
                                  RightlyOuter(outer, rings) /\ Finished[f] = Row(f, outer)
    BY DEF EncodesWhatWasGiven
  <2>1. PICK f, j \in Nat : at = <<f, j>> /\ Written(f, j, property, Finished, Drafted)
    BY DEF RInv, Encoded
  <2>2. /\ Len(names) \in Nat /\ DOMAIN names = 1..Len(names)
        /\ Len(features) \in Nat /\ DOMAIN given = 1..Len(features) /\ Len(given) = Len(features)
    <3>1. given \in Seq(Promise) /\ Len(given) = Len(features)
      BY DEF LInv, BufferTypes, BufferTypeOK
    <3> QED
      BY <3>1, RowFacts, ItemOf
  <2>3. ColumnsTo(property, Len(names)) /\ RowsTo(Finished, Len(features))
    <3>1. <<f, j>>[1] = f
      OBVIOUS
    <3>2. f > Len(features)
      BY <2>1, <3>1 DEF Encoded
    <3>3. f # 0 /\ f \notin 1..Len(features)
      BY <2>2, <3>2
    <3> QED
      BY <2>1, <3>3 DEF Written
  <2>4. \A k \in DOMAIN names : PropKind(kinds[k]) = HoldingKind(k)
    BY KindsAreHeld DEF KindsHold
  <2>5. property = [k \in DOMAIN names |-> [name |-> names[k], kind |-> HoldingKind(k)]]
    BY <2>2, <2>3, <2>4 DEF ColumnsTo
  <2>6. ASSUME NEW n \in DOMAIN given, NEW rings, rings = Paths(given[n].input)
        PROVE  /\ Coded(rings) \in SUBSET DOMAIN rings /\ RightlyOuter(Coded(rings), rings)
               /\ Finished[n] = Row(n, Coded(rings))
    <3>1. RightlyOuter(Coded(rings), rings)
      BY CodedRightly
    <3>2. RowAs(n) = Row(n, Coded(rings))
      BY <2>4, <2>6 DEF RowAs, ShapeAs, CastCell, Row, Cell
    <3>3. Finished[n] = RowAs(n)
      BY <2>2, <2>3 DEF RowsTo
    <3> QED
      BY <3>1, <3>2, <3>3 DEF Coded
  <2>7. Len(Finished) = Len(given)
    <3>1. Finished = [n \in 1..Len(features) |-> RowAs(n)]
      BY <2>3 DEF RowsTo
    <3> QED
      BY <2>2, <3>1
  <2> QED
    BY <2>5, <2>6, <2>7
<1> QED
  BY <1>1, LInvAlways, RInvAlways, PTL

-----------------------------------------------------------------------------
(* The writer is ready for the next call.                                   *)

\* What the writer asks of a call, besides room for its coordinates: the guards of the
\* actions in Accepts.
Ready(call) ==
    CASE call.op = "Add" -> Idle /\ \A k \in DOMAIN property : property[k].name # call.name
      [] call.op = "Feature" -> Idle /\ Len(ids) < MaxFeatures
      [] call.op = "Id" -> ~Idle
      [] call.op = "Points" -> check_family("points")
      [] call.op = "Line" -> check_family("lines")
      [] call.op = "Exterior" -> check_family("polygons")
      [] call.op = "Hole" -> check_family("polygons") /\ GroupBegun
      [] call.op = "Property" -> ~Idle /\ call.value \in ValuesOf[property[call.key].kind]
      [] call.op = "Finish" -> ~Idle /\ Valid

\* The call the replay makes next is one the writer is ready for.
NextIsReady == encoding /\ ~Encoded => Ready(Calls(at[1])[at[2]])

\* Between the first and the last call for a feature there is a draft.
DraftInv ==
    encoding => \A f, j : at = <<f, j>> /\ f # 0 /\ j # 1 => ~Idle

LEMMA StillDrafting ==
  ASSUME Types, NEW call, Accepts(call), call.op \notin {"Add", "Finish"},
         call.op = "Feature" => call.type \in DOMAIN Family,
         call.op = "Id" => call.id \in Ids \cup {NoId}
  PROVE  ~Idle'
<1>1. writer' # NoDraft
  <2>1. CASE call.op = "Feature"
    <3>1. writer' = [type |-> call.type, id |-> NoId, groups |-> Len(group_ends),
                     parts |-> Len(part_ends), coords |-> Len(coords)]
      BY <2>1 DEF Accepts, Feature
    <3>2. writer' \in Start
      BY <2>1, <3>1, SizesAreNat DEF Start
    <3> QED
      BY <3>2, NoDraftAssumption
  <2>2. CASE call.op = "Id"
    <3>1. writer' = [writer EXCEPT !.id = call.id] /\ ~Idle
      BY <2>2 DEF Accepts, SetId
    <3>2. writer' \in Start
      BY <2>2, <3>1, SizesAreNat DEF Start
    <3> QED
      BY <3>2, NoDraftAssumption
  <2>3. CASE call.op \notin {"Feature", "Id"}
    <3>1. AddPoints(call.coords) \/ AddLine(call.coords) \/ ExteriorRing(call.coords) \/ Hole(call.coords)
          \/ SetProperty(call.key, call.value)
      BY <2>3 DEF Accepts
    <3>2. ~Idle /\ UNCHANGED writer
      BY <3>1 DEF AddPoints, AddLine, ExteriorRing, Hole, AddPart, SetProperty, check_family
    <3> QED
      BY <3>2 DEF Idle
  <2> QED
    BY <2>1, <2>2, <2>3
<1> QED
  BY <1>1 DEF Idle

\* The calls for a feature before its last begin it, or need it.
LEMMA CallsDraft ==
  ASSUME LInv, NEW f \in DOMAIN features, NEW a \in Nat, NEW p \in Nat, NEW b \in Nat, NEW n \in Nat,
         Ranged(f, a, p, b, n), NEW calls, CallsAre(calls, f, a, p, b, n),
         NEW j \in 1..(p + n + 2)
  PROVE  /\ calls[j].op \notin {"Add", "Finish"}
         /\ calls[j].op = "Feature" => calls[j].type \in DOMAIN Family
         /\ calls[j].op = "Id" => calls[j].id \in Ids \cup {NoId}
<1>1. features[f].type \in DOMAIN Family /\ features[f].id \in Ids \cup {NoId}
  BY RowFacts, TypeFacts DEF FeatureRow
<1>2. CASE j = 1
  BY <1>1, <1>2 DEF CallsAre
<1>3. CASE j = 2
  BY <1>1, <1>3 DEF CallsAre
<1>4. CASE \E i \in 1..p : j = 2 + i
  <2>1. PICK i \in 1..p : j = 2 + i
    BY <1>4
  <2>2. calls[j] = PartCall(a + i)
    BY <2>1 DEF CallsAre
  <2>3. parts[a + i].role \in Roles
    <3>1. a + i \in 1..Len(parts)
      BY RowFacts, SMTT(40) DEF Ranged
    <3> QED
      BY <3>1, RowFacts DEF PartRow
  <2> QED
    BY <2>2, <2>3 DEF PartCall, Roles
<1>5. CASE \E i \in 1..n : j = 2 + p + i
  <2>1. PICK i \in 1..n : j = 2 + p + i
    BY <1>5
  <2>2. calls[j] = ValueCall(b + i)
    BY <2>1 DEF CallsAre
  <2> QED
    BY <2>2 DEF ValueCall
<1>6. j = 1 \/ j = 2 \/ (\E i \in 1..p : j = 2 + i) \/ (\E i \in 1..n : j = 2 + p + i)
  <2>1. /\ j \in 3..(2 + p) => j - 2 \in 1..p /\ j = 2 + (j - 2)
        /\ j \in (p + 3)..(p + n + 2) => j - 2 - p \in 1..n /\ j = 2 + p + (j - 2 - p)
    OBVIOUS
  <2>2. j = 1 \/ j = 2 \/ j \in 3..(2 + p) \/ j \in (p + 3)..(p + n + 2)
    OBVIOUS
  <2> QED
    BY <2>1, <2>2
<1> QED
  BY <1>2, <1>3, <1>4, <1>5, <1>6

LEMMA ReplayDrafts ==
  ASSUME LInv, RInv, Replay
  PROVE  DraftInv'
<1>1. /\ WInv /\ encoding /\ encoding'
      /\ ~(at[1] > Len(features))
      /\ Accepts(Calls(at[1])[at[2]])
      /\ at' = IF at[2] < Len(Calls(at[1])) THEN <<at[1], at[2] + 1>> ELSE <<at[1] + 1, 1>>
  BY DEF RInv, Replay, Encoded
<1>2. PICK f, j \in Nat : at = <<f, j>> /\ Written(f, j, property, Finished, Drafted)
  BY <1>1 DEF RInv
<1>3. PICK calls : calls = Calls(f)
  OBVIOUS
<1>4. /\ ~(f > Len(features)) /\ Accepts(calls[j])
      /\ at' = IF j < Len(calls) THEN <<f, j + 1>> ELSE <<f + 1, 1>>
  <2>1. <<f, j>>[1] = f /\ <<f, j>>[2] = j
    OBVIOUS
  <2> QED
    BY <1>1, <1>2, <1>3, <2>1
<1>5. CASE f = 0 \/ ~(j < Len(calls))
  BY <1>4, <1>5 DEF DraftInv
<1>6. CASE f # 0 /\ j < Len(calls)
  <2>1. Len(features) \in Nat /\ DOMAIN features = 1..Len(features)
    BY RowFacts
  <2>2. f \in DOMAIN features /\ Before(Drafted, f, j)
    <3>1. f \in 1..Len(features) /\ f # Len(features) + 1
      BY <1>4, <1>6, <2>1
    <3> QED
      BY <1>2, <1>6, <2>1, <3>1 DEF Written
  <2>3. PICK a, p, b, n \in Nat : Ranged(f, a, p, b, n)
    BY <2>2, RangesExist
  <2>4. calls = FeatureCalls(features[f])
    BY <1>3, <1>6 DEF Calls
  <2>5. CallsAre(calls, f, a, p, b, n)
    BY <2>2, <2>3, <2>4, CallFacts
  <2>6. j \in 1..(p + n + 2)
    <3>1. Len(calls) = p + n + 3 /\ PartCount(f) = p
      BY <2>3, <2>5, CountFacts DEF CallsAre
    <3>2. j # 0
      BY <2>2, <3>1 DEF Before
    <3> QED
      BY <1>6, <3>1, <3>2
  <2>7. /\ calls[j].op \notin {"Add", "Finish"}
        /\ calls[j].op = "Feature" => calls[j].type \in DOMAIN Family
        /\ calls[j].op = "Id" => calls[j].id \in Ids \cup {NoId}
    BY <2>2, <2>3, <2>5, <2>6, CallsDraft
  <2>8. ~Idle'
    BY <1>1, <1>4, <2>7, StillDrafting DEF WInv
  <2> QED
    BY <2>8 DEF DraftInv
<1> QED
  BY <1>5, <1>6

LEMMA DraftInvAlways == BufferSpec => []DraftInv
<1>1. BufferInit => DraftInv
  BY DEF BufferInit, DraftInv
<1>2. LInv /\ RInv /\ DraftInv /\ [BufferNext]_bufferVars => DraftInv'
  <2> SUFFICES ASSUME LInv, RInv, DraftInv, [BufferNext]_bufferVars PROVE DraftInv'
    OBVIOUS
  <2>1. CASE Building \/ Drop
    BY <2>1 DEF Building, Drop, DraftInv
  <2>2. CASE Encode
    <3>1. at' = <<1, 1>> \/ at' = <<0, 1>>
      BY <2>2 DEF Encode
    <3> QED
      BY <3>1 DEF DraftInv
  <2>3. CASE Replay
    BY <2>3, ReplayDrafts
  <2>4. CASE UNCHANGED bufferVars
    BY <2>4 DEF bufferVars, vars, DraftInv, Idle
  <2> QED
    BY <2>1, <2>2, <2>3, <2>4 DEF BufferNext, BufferReset, BufferAddProperty, Begin, SetValue, SetStr
<1> QED
  BY <1>1, <1>2, LInvAlways, RInvAlways, PTL DEF BufferSpec

LEMMA FewFeatures == BufferSpec => [](Len(features) <= MaxFeatures)
<1>1. BufferInit => Len(features) <= MaxFeatures
  <2>1. Len(<<>>) = 0
    OBVIOUS
  <2> QED
    BY <2>1, WriterAssumption DEF BufferInit
<1>2. LInv /\ Len(features) <= MaxFeatures /\ [BufferNext]_bufferVars => (Len(features) <= MaxFeatures)'
  <2> SUFFICES ASSUME LInv, Len(features) <= MaxFeatures, [BufferNext]_bufferVars
               PROVE  Len(features') <= MaxFeatures
    OBVIOUS
  <2>1. Len(features) \in Nat /\ MaxFeatures \in Nat /\ features \in Seq(FeatureRow)
    BY RowFacts, WriterAssumption DEF LInv, BufferTypes
  <2>2. CASE features' = features
    BY <2>2
  <2>3. CASE BufferReset
    <3>1. Len(<<>>) = 0
      OBVIOUS
    <3> QED
      BY <2>1, <2>3, <3>1 DEF BufferReset
  <2>4. ASSUME NEW input \in Inputs, NEW id \in Ids \cup {NoId}, Begin(input, id)
        PROVE  Len(features') <= MaxFeatures
    <3>1. Len(features) < MaxFeatures /\ (features' = features \/ \E row : features' = Append(features, row))
      BY <2>4 DEF Begin
    <3>2. \A row : Len(Append(features, row)) = Len(features) + 1
      BY <2>1
    <3> QED
      BY <2>1, <3>1, <3>2
  <2>5. ASSUME NEW key \in Keys, NEW stored, NEW raw, BufferSet(key, stored, raw)
        PROVE  Len(features') <= MaxFeatures
    <3>1. features' = features \/ \E n, row : features' = [features EXCEPT ![n].values = row]
      BY <2>5 DEF BufferSet, Store
    <3>2. \A n, row : Len([features EXCEPT ![n].values = row]) = Len(features)
      BY <2>1
    <3> QED
      BY <3>1, <3>2
  <2> QED
    BY <2>2, <2>3, <2>4, <2>5 DEF BufferNext, BufferAddProperty, SetValue, SetStr, Encode, Replay,
       Drop, bufferVars, buffer
<1> QED
  BY <1>1, <1>2, LInvAlways, PTL DEF BufferSpec

LEMMA NoDraftIsIdle ==
  ASSUME WInv, Drafted = NoDraft
  PROVE  Idle
  BY DraftIsDraft

\* A value goes into a column of a kind that holds it as a value of that kind.
LEMMA CastHolds ==
  ASSUME NEW kind, NEW set \in SUBSET PropKinds, Holds(kind, set), NEW raw, raw.kind \in set
  PROVE  Cast(PropKind(kind), raw).kind = PropKind(kind)
<1>1. "Unknown" \notin PropKinds /\ raw.kind \in PropKinds
  BY DEF PropKinds
<1>2. CASE kind = raw.kind
  BY <1>1, <1>2 DEF PropKind, Cast
<1>3. CASE kind # raw.kind
  <2>1. \/ kind = "F64" /\ raw.kind \in Numbers
        \/ kind = "Str"
    BY <1>3 DEF Holds
  <2>2. CASE kind = "F64" /\ raw.kind \in Numbers
    BY <2>2 DEF PropKind, Cast, Numbers
  <2>3. CASE kind = "Str"
    <3>1. PropKind(kind) = "Str" /\ ~("Str" = raw.kind) /\ "Str" \in {"Str", raw.kind}
      BY <1>3, <2>3 DEF PropKind
    <3>2. Cast("Str", raw) = [kind |-> "Str", from |-> raw.kind, value |-> raw.value]
      BY <3>1 DEF Cast
    <3> QED
      BY <3>1, <3>2
  <2> QED
    BY <2>1, <2>2, <2>3
<1> QED
  BY <1>2, <1>3

LEMMA ColumnReady ==
  ASSUME LInv, GInv, WInv, NEW j \in 1..Len(names), ColumnsTo(property, j - 1), Drafted = NoDraft
  PROVE  Ready(AddCalls[j])
<1>1. DOMAIN names = 1..Len(names) /\ Len(names) \in Nat
  BY RowFacts
<1>2. AddCalls[j] = [op |-> "Add", name |-> names[j], kind |-> PropKind(kinds[j])]
  BY <1>1 DEF AddCalls
<1>3. \A k \in DOMAIN property : property[k].name # names[j]
  <2>1. /\ DOMAIN property = 1..(j - 1) /\ \A k \in 1..(j - 1) : property[k].name = names[k]
    BY DEF ColumnsTo
  <2>2. \A k \in 1..(j - 1) : k \in 1..Len(names) /\ k # j
    BY <1>1
  <2> QED
    BY <1>1, <2>1, <2>2 DEF GInv, Distinct
<1> QED
  BY <1>2, <1>3, NoDraftIsIdle DEF Ready

LEMMA FeatureReady ==
  ASSUME LInv, WInv, Len(features) <= MaxFeatures, NEW f \in DOMAIN features,
         RowsTo(Finished, f - 1), Drafted = NoDraft
  PROVE  Ready([op |-> "Feature", type |-> features[f].type])
<1>1. f \in 1..Len(features) /\ Len(features) \in Nat /\ MaxFeatures \in Nat
  BY RowFacts, WriterAssumption
<1>2. PICK n \in Nat : n = Len(ids) /\ DOMAIN ids = 1..n
  BY ElementOf DEF WInv, Types, TypeOK
<1>3. PICK m \in Nat : m = f - 1 /\ m < Len(features)
  <2>1. f - 1 \in Nat /\ f - 1 < Len(features)
    BY <1>1
  <2> QED
    BY <2>1
<1>4. 1..n = 1..m
  <2>1. DOMAIN Finished = 1..n
    BY <1>2 DEF Finished
  <2>2. DOMAIN Finished = 1..m
    BY <1>3 DEF RowsTo
  <2> QED
    BY <2>1, <2>2
<1>5. n = m
  <2>1. (n # 0 => n \in 1..n) /\ (m # 0 => m \in 1..m)
    OBVIOUS
  <2> QED
    BY <1>4, <2>1
<1> QED
  BY <1>1, <1>2, <1>3, <1>5, NoDraftIsIdle DEF Ready

\* The draft is of the type of the feature it is written for.
LEMMA DraftType ==
  ASSUME LInv, WInv, ~Idle, NEW f \in DOMAIN features, NEW id, NEW i, NEW n, Drafts(Drafted, f, id, i, n)
  PROVE  \E input \in Inputs :
           /\ Shows(f, input) /\ input.type \in MvtTypes
           /\ writer.type = GeometryType(input.type, Len(ShapeAs(input)) = 1)
           /\ writer.type \in GeoTypes
           /\ Family[writer.type] = CASE input.type = "Point" -> "points"
                                      [] input.type = "LineString" -> "lines"
                                      [] input.type = "Polygon" -> "polygons"
           /\ DraftGeometry = ShapeAfter(input, i)
<1>1. PICK input, cells :
        /\ input \in Inputs /\ Shows(f, input)
        /\ Drafted = [type |-> features[f].type, id |-> id, geometry |-> ShapeAfter(input, i),
                      values |-> cells]
  BY DEF Drafts
<1>2. Drafted.type = writer.type /\ Drafted.geometry = DraftGeometry
  BY DraftParts
<1>3. writer.type = features[f].type /\ DraftGeometry = ShapeAfter(input, i)
  <2>1. PICK kind, shape : kind = features[f].type /\ shape = ShapeAfter(input, i)
    OBVIOUS
  <2>2. Drafted = [type |-> kind, id |-> id, geometry |-> shape, values |-> cells]
    BY <1>1, <2>1
  <2>3. Drafted.type = kind /\ Drafted.geometry = shape
    BY <2>2
  <2> QED
    BY <1>2, <2>1, <2>3
<1>4. input.type \in MvtTypes
  BY <1>1, BufferAssumption DEF MvtTypes
<1>5. PICK single \in BOOLEAN : single = (Len(ShapeAs(input)) = 1)
  OBVIOUS
<1>6. writer.type = GeometryType(input.type, single)
  BY <1>1, <1>3, <1>5 DEF Shows
<1>7. writer.type \in GeoTypes
  BY <1>4, <1>6, TypeFacts DEF MvtTypes, GeoTypes
<1>8. Family[writer.type] = CASE input.type = "Point" -> "points"
                              [] input.type = "LineString" -> "lines"
                              [] input.type = "Polygon" -> "polygons"
  BY <1>4, <1>6, <1>7, TypeFacts DEF MvtTypes
<1> QED
  BY <1>1, <1>3, <1>4, <1>5, <1>6, <1>7, <1>8

LEMMA PartReady ==
  ASSUME LInv, WInv, ~Idle, NEW f \in DOMAIN features,
         NEW a \in Nat, NEW p \in Nat, NEW b \in Nat, NEW n \in Nat, Ranged(f, a, p, b, n),
         NEW i \in 1..p, Drafts(Drafted, f, features[f].id, i - 1, 0)
  PROVE  Ready(PartCall(a + i))
<1>1. PICK input \in Inputs :
        /\ Shows(f, input) /\ input.type \in MvtTypes
        /\ Family[writer.type] = CASE input.type = "Point" -> "points"
                                   [] input.type = "LineString" -> "lines"
                                   [] input.type = "Polygon" -> "polygons"
        /\ DraftGeometry = ShapeAfter(input, i - 1)
  BY DraftType
<1>2. PICK paths \in Seq(Seq(Place)) :
        /\ paths = Paths(input) /\ Len(paths) = p
        /\ PartCall(a + i) = [op |-> RoleIn(input.type, paths, i), coords |-> Coords(input.type, paths[i])]
  BY <1>1, PartShown
<1>3. CASE input.type = "Point"
  <2>1. PartCall(a + i).op = "Points" /\ check_family("points")
    BY <1>1, <1>2, <1>3 DEF RoleIn, check_family
  <2> QED
    BY <2>1 DEF Ready
<1>4. CASE input.type = "LineString"
  <2>1. PartCall(a + i).op = "Line" /\ check_family("lines")
    BY <1>1, <1>2, <1>4 DEF RoleIn, check_family
  <2> QED
    BY <2>1 DEF Ready
<1>5. CASE input.type = "Polygon"
  <2>1. check_family("polygons")
    BY <1>1, <1>5 DEF check_family
  <2>2. CASE StartsPolygon(paths, i)
    <3>1. PartCall(a + i).op = "Exterior"
      BY <1>2, <1>5, <2>2 DEF RoleIn
    <3> QED
      BY <2>1, <3>1 DEF Ready
  <2>3. CASE ~StartsPolygon(paths, i)
    <3>1. PartCall(a + i).op = "Hole"
      BY <1>2, <1>5, <2>3 DEF RoleIn
    <3>2. i - 1 \in 1..Len(paths) /\ Len(paths) # 0
      <4>1. i # 1
        BY <2>3 DEF StartsPolygon
      <4> QED
        BY <1>2, <4>1
    <3>3. DraftGeometry = Upto(paths)[i - 1] /\ Upto(paths)[i - 1] # <<>>
      BY <1>1, <1>2, <1>5, <3>2, OnePolygon DEF ShapeAfter
    <3>4. DraftGeometry = RingsOf(writer.groups, Len(group_ends))
      BY <1>1, <1>5, DraftIsForm DEF DraftForm, WInv
    <3>5. GroupBegun
      <4>1. writer.groups \in Nat /\ Len(group_ends) \in Nat
        BY EndTypes DEF WInv
      <4>2. ASSUME ~(Len(group_ends) > writer.groups)
            PROVE  RingsOf(writer.groups, Len(group_ends)) = <<>>
        <5>1. \A k \in 1..(Len(group_ends) - writer.groups) : FALSE
          BY <4>1, <4>2
        <5> QED
          BY <5>1 DEF RingsOf
      <4> QED
        BY <3>3, <3>4, <4>2 DEF GroupBegun
    <3> QED
      BY <2>1, <3>1, <3>5 DEF Ready
  <2> QED
    BY <2>2, <2>3
<1> QED
  BY <1>1, <1>3, <1>4, <1>5 DEF MvtTypes

LEMMA ValueReady ==
  ASSUME LInv, GInv, ~Idle, ColumnsTo(property, Len(names)), NEW f \in DOMAIN features,
         NEW a \in Nat, NEW p \in Nat, NEW b \in Nat, NEW n \in Nat, Ranged(f, a, p, b, n),
         NEW i \in 1..n
  PROVE  Ready(ValueCall(b + i))
<1>1. b + i \in DOMAIN values
  BY RowFacts DEF Ranged
<1>2. PICK v \in DOMAIN values : v = b + i
  BY <1>1
<1>3. PICK k \in DOMAIN names : k = values[v].key
  BY RowFacts
<1>4. PICK raw \in Raws : raw = Raw(values[v].value) /\ raw.kind = values[v].value.kind
  BY DEF GInv, Told
<1>5. PICK kind : kind = PropKind(kinds[k])
  OBVIOUS
<1>6. Cast(kind, raw).kind = kind
  <2>1. Holds(kinds[k], KindsSet(k)) /\ KindsSet(k) \in SUBSET PropKinds
    BY KindsAreKinds DEF LInv, KindsInv
  <2>2. raw.kind \in KindsSet(k)
    BY <1>3, <1>4 DEF KindsSet
  <2> QED
    BY <1>5, <2>1, <2>2, CastHolds
<1>7. kind \in PropKinds
  <2>1. kinds \in Seq(PropKinds \cup {"Unknown"}) /\ Len(kinds) = Len(names)
    BY DEF LInv, BufferTypes, BufferTypeOK
  <2>2. kinds[k] \in PropKinds \cup {"Unknown"}
    BY <2>1, ItemOf, RowFacts
  <2> QED
    BY <1>5, <2>2 DEF PropKind, PropKinds
<1>8. Cast(kind, raw) \in ValuesOf[kind]
  BY <1>6, <1>7, CastsTaken
<1>9. property[k].kind = kind
  BY <1>5, RowFacts DEF ColumnsTo
<1>10. /\ ValueCall(b + i).op = "Property" /\ ValueCall(b + i).key = k
       /\ ValueCall(b + i).value = Cast(kind, raw)
  BY <1>2, <1>3, <1>4, <1>5 DEF ValueCall
<1> QED
  BY <1>8, <1>9, <1>10 DEF Ready

LEMMA FinishReady ==
  ASSUME LInv, GInv, WInv, ~Idle, NEW f \in DOMAIN features,
         NEW a \in Nat, NEW p \in Nat, NEW b \in Nat, NEW n \in Nat, Ranged(f, a, p, b, n),
         Drafts(Drafted, f, features[f].id, p, n)
  PROVE  Ready([op |-> "Finish"])
<1>1. PICK input \in Inputs :
        /\ Shows(f, input) /\ input.type \in MvtTypes
        /\ writer.type = GeometryType(input.type, Len(ShapeAs(input)) = 1)
        /\ writer.type \in GeoTypes
        /\ DraftGeometry = ShapeAfter(input, p)
  BY DraftType
<1>2. DraftGeometry = ShapeAs(input)
  <2>1. Paths(input) \in Seq(Seq(Place)) /\ Len(Paths(input)) = p /\ p # 0
    BY <1>1, PartShown
  <2> QED
    BY <1>1, <2>1, ShapeEnds
<1>3. writer.type \in MvtTypes => Len(DraftGeometry) = 1
  <2>1. PICK single \in BOOLEAN : single = (Len(ShapeAs(input)) = 1)
    OBVIOUS
  <2>2. writer.type = GeometryType(input.type, single)
    BY <1>1, <2>1
  <2> QED
    BY <1>1, <1>2, <2>1, <2>2, TypeFacts DEF MvtTypes
<1>4. /\ writer.coords \in 0..Len(coords) /\ coords \in Seq(Coordinate) /\ Len(coords) \in Nat
      /\ writer.parts \in Nat /\ writer.parts <= Len(part_ends) /\ Len(part_ends) \in Nat
      /\ writer.groups \in Nat /\ writer.groups <= Len(group_ends) /\ Len(group_ends) \in Nat
  BY EndTypes DEF WInv, Types, EndsInv, CutBack, EndAt
<1>5. CASE writer.type = "Point"
  <2>1. DraftGeometry = SubSeq(coords, writer.coords + 1, Len(coords))
    BY <1>5, DraftIsForm DEF DraftForm, Family, Slice, WInv
  <2>2. Len(SubSeq(coords, writer.coords + 1, Len(coords))) = Len(coords) - writer.coords
    BY <1>4
  <2> QED
    BY <1>3, <1>5, <2>1, <2>2 DEF Valid, MvtTypes, Ready
<1>6. CASE writer.type = "LineString"
  <2>1. DraftGeometry = PartList(writer.parts, Len(part_ends))
    BY <1>6, DraftIsForm DEF DraftForm, Family, WInv
  <2>2. Len(PartList(writer.parts, Len(part_ends))) = Len(part_ends) - writer.parts
    BY <1>4 DEF PartList
  <2> QED
    BY <1>3, <1>6, <2>1, <2>2 DEF Valid, MvtTypes, Ready
<1>7. CASE writer.type = "Polygon"
  <2>1. DraftGeometry = RingsOf(writer.groups, Len(group_ends))
    BY <1>7, DraftIsForm DEF DraftForm, Family, WInv
  <2>2. Len(RingsOf(writer.groups, Len(group_ends))) = Len(group_ends) - writer.groups
    BY <1>4 DEF RingsOf
  <2> QED
    BY <1>3, <1>7, <2>1, <2>2 DEF Valid, MvtTypes, Ready
<1> QED
  BY <1>5, <1>6, <1>7 DEF Valid, Ready

LEMMA NextCallReady ==
  ASSUME LInv, GInv, RInv, DraftInv, Len(features) <= MaxFeatures, encoding, ~Encoded
  PROVE  Ready(Calls(at[1])[at[2]])
<1>1. PICK f, j \in Nat : at = <<f, j>> /\ Written(f, j, property, Finished, Drafted)
  BY DEF RInv
<1>2. PICK call : call = Calls(at[1])[at[2]]
  OBVIOUS
<1>3. WInv /\ ~(f > Len(features)) /\ call = Calls(f)[j]
  <2>1. <<f, j>>[1] = f /\ <<f, j>>[2] = j
    OBVIOUS
  <2> QED
    BY <1>1, <1>2, <2>1 DEF RInv, Encoded
<1>4. Len(names) \in Nat /\ Len(features) \in Nat /\ DOMAIN features = 1..Len(features)
  BY RowFacts
<1>5. CASE f = 0
  <2>1. /\ j \in 1..Len(names) /\ ColumnsTo(property, j - 1) /\ Drafted = NoDraft
    BY <1>1, <1>4, <1>5 DEF Written
  <2>2. Ready(AddCalls[j])
    BY <1>3, <2>1, ColumnReady
  <2> QED
    BY <1>2, <1>3, <1>5, <2>2 DEF Calls
<1>6. CASE f # 0
  <2>1. /\ f \in DOMAIN features
        /\ ColumnsTo(property, Len(names)) /\ RowsTo(Finished, f - 1) /\ Before(Drafted, f, j)
    <3>1. f \in 1..Len(features) /\ f # Len(features) + 1
      BY <1>3, <1>4, <1>6
    <3> QED
      BY <1>1, <1>4, <1>6, <3>1 DEF Written
  <2>2. PICK a, p, b, n \in Nat : Ranged(f, a, p, b, n)
    BY <2>1, RangesExist
  <2>3. PICK calls : calls = FeatureCalls(features[f]) /\ CallsAre(calls, f, a, p, b, n) /\ call = calls[j]
    BY <1>3, <1>6, <2>1, <2>2, CallFacts DEF Calls
  <2>4. /\ \/ j = 1 /\ Drafted = NoDraft
           \/ j = 2
           \/ \E m \in 0..p : j = 3 + m /\ Drafts(Drafted, f, features[f].id, m, 0)
           \/ \E m \in 0..n : j = 3 + p + m /\ Drafts(Drafted, f, features[f].id, p, m)
    <3>1. PartCount(f) = p /\ ValueCount(f) = n
      BY <2>2, CountFacts
    <3> QED
      BY <2>1, <3>1 DEF Before
  <2>5. j # 1 => ~Idle
    BY <1>1, <1>6 DEF DraftInv
  <2>6. CASE j = 1 /\ Drafted = NoDraft
    <3>1. Ready([op |-> "Feature", type |-> features[f].type])
      BY <1>3, <2>1, <2>6, FeatureReady
    <3> QED
      BY <1>2, <2>3, <2>6, <3>1 DEF CallsAre
  <2>7. CASE j = 2
    <3>1. call.op = "Id"
      BY <2>3, <2>7 DEF CallsAre
    <3> QED
      BY <1>2, <2>5, <2>7, <3>1 DEF Ready
  <2>8. ASSUME NEW m \in 0..n, j = 3 + p + m, Drafts(Drafted, f, features[f].id, p, m)
        PROVE  Ready(call)
    <3>1. ~Idle
      BY <2>5, <2>8
    <3>2. CASE m = n
      <4>1. Ready([op |-> "Finish"])
        BY <1>3, <2>1, <2>2, <2>8, <3>1, <3>2, FinishReady
      <4>2. j = p + n + 3
        BY <2>8, <3>2
      <4> QED
        BY <2>3, <4>1, <4>2 DEF CallsAre
    <3>3. CASE m # n
      <4>1. m + 1 \in 1..n /\ j = 2 + p + (m + 1)
        BY <2>8, <3>3
      <4>2. Ready(ValueCall(b + (m + 1)))
        BY <2>1, <2>2, <3>1, <4>1, ValueReady
      <4> QED
        BY <2>3, <4>1, <4>2 DEF CallsAre
    <3> QED
      BY <3>2, <3>3
  <2>9. ASSUME NEW m \in 0..p, j = 3 + m, Drafts(Drafted, f, features[f].id, m, 0)
        PROVE  Ready(call)
    <3>1. ~Idle
      BY <2>5, <2>9
    <3>2. CASE m = p
      <4>1. 0 \in 0..n /\ j = 3 + p + 0 /\ Drafts(Drafted, f, features[f].id, p, 0)
        BY <2>9, <3>2
      <4> QED
        BY <2>8, <4>1
    <3>3. CASE m # p
      <4>1. PICK i \in 1..p : i = m + 1 /\ i - 1 = m /\ j = 2 + i
        <5>1. m + 1 \in 1..p /\ (m + 1) - 1 = m /\ j = 2 + (m + 1)
          BY <2>9, <3>3
        <5> QED
          BY <5>1
      <4>2. Ready(PartCall(a + i))
        BY <1>3, <2>1, <2>2, <2>9, <3>1, <4>1, PartReady
      <4> QED
        BY <2>3, <4>1, <4>2 DEF CallsAre
    <3> QED
      BY <3>2, <3>3
  <2> QED
    BY <1>2, <2>4, <2>6, <2>7, <2>8, <2>9
<1> QED
  BY <1>5, <1>6

\* encode never makes a call that the writer refuses for what it is: no column is declared
\* twice, no hole comes before an exterior, no part is of another family than its feature,
\* no value of another kind than its column, and finish accepts every feature. What is left
\* for its `?` is a layer of more than u32::MAX vertices (store.rs:333-366).
THEOREM ReplayIsReady == BufferSpec => []NextIsReady
<1>1. LInv /\ GInv /\ RInv /\ DraftInv /\ Len(features) <= MaxFeatures => NextIsReady
  BY NextCallReady DEF NextIsReady
<1> QED
  BY <1>1, LInvAlways, GInvAlways, RInvAlways, DraftInvAlways, FewFeatures, PTL
=============================================================================
