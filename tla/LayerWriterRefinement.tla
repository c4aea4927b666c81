----------------------- MODULE LayerWriterRefinement -----------------------
(***************************************************************************)
(* LayerWriter implements FeatureLayer, for every set of names, kinds,      *)
(* values, ids and coordinate lists and every bound.  See README.md.        *)
(***************************************************************************)
EXTENDS LayerWriterProofs, SequenceTheorems

-----------------------------------------------------------------------------
(* Reading the lists back.                                                  *)

End(ends, i) == IF i = 0 THEN 0 ELSE ends[i]
Slice(x, y) == SubSeq(coords, x + 1, y)
PartList(x, y) == [i \in 1..(y - x) |-> Part(x + i)]
PartEnd(g) == End(group_ends, g)
CoordEnd(p) == End(part_ends, p)

LEMMA EndFacts ==
  ASSUME NEW ends \in Seq(Nat), Rising(ends)
  PROVE  /\ \A i \in 0..Len(ends) : End(ends, i) \in Nat
         /\ \A i, j \in 0..Len(ends) : i <= j => End(ends, i) <= End(ends, j)
         /\ \A i \in 1..Len(ends) : ItemRange(ends, i) = <<End(ends, i - 1), End(ends, i)>>
         /\ \A m, n : EndAt(ends, m, n) <=> m \in 0..Len(ends) /\ n = End(ends, m)
<1>1. \A i \in 0..Len(ends) : i # 0 => i \in 1..Len(ends) /\ ends[i] \in Nat
  OBVIOUS
<1>2. \A i \in 0..Len(ends) : End(ends, i) \in Nat
  BY <1>1 DEF End
<1>3. \A i, j \in 0..Len(ends) : i <= j => End(ends, i) <= End(ends, j)
  <2> TAKE i, j \in 0..Len(ends)
  <2>1. CASE i = 0
    BY <1>2, <2>1 DEF End
  <2>2. CASE i # 0
    BY <1>1, <2>2 DEF End, Rising
  <2> QED
    BY <2>1, <2>2
<1>4. \A i \in 1..Len(ends) : ItemRange(ends, i) = <<End(ends, i - 1), End(ends, i)>>
  BY DEF ItemRange, End
<1>5. \A m, n : EndAt(ends, m, n) <=> m \in 0..Len(ends) /\ n = End(ends, m)
  BY DEF EndAt, End
<1> QED
  BY <1>2, <1>3, <1>4, <1>5

\* The ends of the groups and of the parts, as EndFacts gives them.
LEMMA LevelFacts ==
  ASSUME Types, EndsInv
  PROVE  /\ \A g \in 0..Len(group_ends) : PartEnd(g) \in 0..Len(part_ends)
         /\ \A p \in 0..Len(part_ends) : CoordEnd(p) \in 0..Len(coords)
         /\ \A g, h \in 0..Len(group_ends) : g <= h => PartEnd(g) <= PartEnd(h)
         /\ \A p, q \in 0..Len(part_ends) : p <= q => CoordEnd(p) <= CoordEnd(q)
         /\ PartEnd(Len(group_ends)) = Len(part_ends) /\ CoordEnd(Len(part_ends)) = Len(coords)
         /\ ~Idle => /\ writer.groups \in 0..Len(group_ends)
                     /\ writer.parts = PartEnd(writer.groups)
                     /\ writer.coords = CoordEnd(writer.parts)
<1> USE EndTypes DEF EndsInv, PartEnd, CoordEnd
<1>1. /\ \A i \in 0..Len(group_ends) : End(group_ends, i) \in Nat
      /\ \A i, j \in 0..Len(group_ends) : i <= j => End(group_ends, i) <= End(group_ends, j)
      /\ \A m, n : EndAt(group_ends, m, n) <=> m \in 0..Len(group_ends) /\ n = End(group_ends, m)
  BY EndFacts
<1>2. /\ \A i \in 0..Len(part_ends) : End(part_ends, i) \in Nat
      /\ \A i, j \in 0..Len(part_ends) : i <= j => End(part_ends, i) <= End(part_ends, j)
      /\ \A m, n : EndAt(part_ends, m, n) <=> m \in 0..Len(part_ends) /\ n = End(part_ends, m)
  BY EndFacts
<1>3. End(group_ends, Len(group_ends)) = Len(part_ends) /\ End(part_ends, Len(part_ends)) = Len(coords)
  BY <1>1, <1>2
<1>4. \A g \in 0..Len(group_ends) : End(group_ends, g) \in 0..Len(part_ends)
  BY <1>1, <1>3
<1>5. \A p \in 0..Len(part_ends) : End(part_ends, p) \in 0..Len(coords)
  BY <1>2, <1>3
<1> QED
  BY <1>1, <1>2, <1>3, <1>4, <1>5 DEF CutBack

LEMMA CoordsInSlice == \A x, y : CoordsIn(<<x, y>>) = Slice(x, y)
<1>1. \A x, y : <<x, y>>[1] = x /\ <<x, y>>[2] = y
  OBVIOUS
<1> QED
  BY <1>1 DEF CoordsIn, Slice

LEMMA PartIsSlice ==
  ASSUME Types, EndsInv, NEW p \in 1..Len(part_ends)
  PROVE  Part(p) = Slice(CoordEnd(p - 1), CoordEnd(p))
<1>1. ItemRange(part_ends, p) = <<CoordEnd(p - 1), CoordEnd(p)>>
  BY EndTypes, EndFacts DEF EndsInv, CoordEnd
<1> QED
  BY <1>1, CoordsInSlice, Zenon DEF Part

LEMMA PartsAreEnds ==
  ASSUME Types, EndsInv, NEW g \in Nat, NEW h \in Nat, g < h, h <= Len(group_ends)
  PROVE  Parts(<<g, h>>) = <<PartEnd(g), PartEnd(h)>>
<1>1. g + 1 \in 1..Len(group_ends) /\ (g + 1) - 1 = g /\ g # h /\ h # 0
  BY EndTypes
<1>2. ItemRange(group_ends, g + 1) = <<End(group_ends, g), End(group_ends, g + 1)>>
  BY <1>1, EndTypes, EndFacts DEF EndsInv
<1> QED
  BY <1>1, <1>2 DEF Parts, PartEnd, End

LEMMA PartsOfIsList ==
  ASSUME Types, EndsInv, NEW g \in Nat, NEW h \in Nat, g <= h, h <= Len(group_ends)
  PROVE  PartsOf(<<g, h>>) = PartList(PartEnd(g), PartEnd(h))
<1>1. PartEnd(g) \in Nat /\ PartEnd(h) \in Nat
  BY EndTypes, LevelFacts
<1>2. CASE g = h
  <2>1. Parts(<<g, h>>) = <<0, 0>>
    BY <1>2 DEF Parts
  <2> QED
    BY <1>1, <1>2, <2>1 DEF PartsOf, Items, PartList
<1>3. CASE g < h
  <2>1. Parts(<<g, h>>) = <<PartEnd(g), PartEnd(h)>>
    BY <1>3, PartsAreEnds
  <2> QED
    BY <1>1, <2>1 DEF PartsOf, Items, PartList
<1> QED
  BY <1>2, <1>3

LEMMA RangeCoordsIsSlice ==
  ASSUME Types, EndsInv, NEW g \in Nat, NEW h \in Nat, g <= h, h <= Len(group_ends)
  PROVE  RangeCoords(<<g, h>>) = Slice(CoordEnd(PartEnd(g)), CoordEnd(PartEnd(h)))
<1>1. PartEnd(g) \in Nat /\ PartEnd(h) \in Nat /\ PartEnd(g) <= PartEnd(h) /\ PartEnd(h) <= Len(part_ends)
  BY EndTypes, LevelFacts
<1>2. CoordEnd(PartEnd(g)) \in Nat /\ CoordEnd(PartEnd(h)) \in Nat
  BY <1>1, EndTypes, LevelFacts
<1>3. ASSUME PartEnd(g) = PartEnd(h)
      PROVE  Slice(CoordEnd(PartEnd(g)), CoordEnd(PartEnd(h))) = <<>>
  <2>1. \A x \in Nat : SubSeq(coords, x + 1, x) = <<>>
    BY EndTypes
  <2> QED
    BY <1>2, <1>3, <2>1 DEF Slice
<1>4. CASE g = h
  <2>1. Parts(<<g, h>>) = <<0, 0>>
    BY <1>4 DEF Parts
  <2>2. RangeCoords(<<g, h>>) = <<>>
    BY <2>1 DEF RangeCoords
  <2> QED
    BY <1>3, <1>4, <2>2
<1>5. CASE g < h
  <2>1. Parts(<<g, h>>) = <<PartEnd(g), PartEnd(h)>>
    BY <1>5, PartsAreEnds
  <2>2. CASE PartEnd(g) = PartEnd(h)
    BY <1>3, <2>1, <2>2 DEF RangeCoords
  <2>3. CASE PartEnd(g) # PartEnd(h)
    <3>1. /\ PartEnd(g) + 1 \in 1..Len(part_ends) /\ (PartEnd(g) + 1) - 1 = PartEnd(g)
          /\ PartEnd(h) # 0
      <4>1. \A x, y, n \in Nat : x <= y /\ y <= n /\ x # y => x + 1 \in 1..n /\ (x + 1) - 1 = x /\ y # 0
        OBVIOUS
      <4> QED
        BY <1>1, <2>3, <4>1, EndTypes
    <3>2. ItemRange(part_ends, PartEnd(g) + 1)[1] = CoordEnd(PartEnd(g))
      BY <3>1, EndTypes, EndFacts DEF EndsInv, CoordEnd
    <3>3. part_ends[PartEnd(h)] = CoordEnd(PartEnd(h))
      BY <3>1 DEF CoordEnd, End
    <3> QED
      BY <2>1, <2>3, <3>2, <3>3, CoordsInSlice DEF RangeCoords
  <2> QED
    BY <2>2, <2>3
<1> QED
  BY <1>4, <1>5

Geometric ==
    /\ PartEnd(Len(group_ends)) = Len(part_ends) /\ CoordEnd(Len(part_ends)) = Len(coords)
    /\ \A g \in 0..Len(group_ends) : PartEnd(g) \in 0..Len(part_ends)
    /\ \A p \in 0..Len(part_ends) : CoordEnd(p) \in 0..Len(coords)
    /\ \A p \in 1..Len(part_ends) : Part(p) = Slice(CoordEnd(p - 1), CoordEnd(p))
    /\ \A g, h \in 0..Len(group_ends) : g <= h =>
          /\ PartEnd(g) <= PartEnd(h)
          /\ PartsOf(<<g, h>>) = PartList(PartEnd(g), PartEnd(h))
          /\ RangeCoords(<<g, h>>) = Slice(CoordEnd(PartEnd(g)), CoordEnd(PartEnd(h)))

LEMMA ReadBack == Types /\ EndsInv => Geometric
<1> SUFFICES ASSUME Types, EndsInv PROVE Geometric
  OBVIOUS
<1>1. \A g \in 0..Len(group_ends) : g \in Nat /\ g <= Len(group_ends)
  BY EndTypes
<1> QED
  BY <1>1, LevelFacts, PartIsSlice, PartsOfIsList, RangeCoordsIsSlice DEF Geometric

LEMMA ReadBackNext == Types' /\ EndsInv' => Geometric'
  BY ReadBack, PTL

-----------------------------------------------------------------------------
(* What a step leaves alone reads back as before.                           *)

\* The first p parts, with their coordinates, stay.
KeptParts(p, c) ==
    /\ EndAt(part_ends, p, c) /\ c \in 0..Len(coords)
    /\ p <= Len(part_ends') /\ \A i \in 1..p : part_ends'[i] = part_ends[i]
    /\ c <= Len(coords') /\ \A i \in 1..c : coords'[i] = coords[i]

\* The first g groups, with their parts and coordinates, stay.
Kept(g, p, c) ==
    /\ KeptParts(p, c)
    /\ EndAt(group_ends, g, p)
    /\ g <= Len(group_ends') /\ \A i \in 1..g : group_ends'[i] = group_ends[i]

LEMMA SliceStays ==
  ASSUME NEW S, NEW s \in Seq(S), NEW t \in Seq(S), NEW a \in Nat, NEW b \in Nat,
         b <= Len(s), b <= Len(t), \A i \in 1..b : t[i] = s[i]
  PROVE  SubSeq(t, a + 1, b) = SubSeq(s, a + 1, b)
<1> DEFINE u == SubSeq(s, a + 1, b)
           v == SubSeq(t, a + 1, b)
<1>1. /\ u \in Seq(S) /\ v \in Seq(S) /\ Len(u) = Len(v)
      /\ \A i \in 1..Len(u) : u[i] = s[a + i] /\ v[i] = t[a + i] /\ a + i \in 1..b
  OBVIOUS
<1> HIDE DEF u, v
<1>2. \A i \in 1..Len(u) : v[i] = u[i]
  BY <1>1
<1>3. u = v
  BY <1>1, <1>2, SeqEqual
<1> QED
  BY <1>3 DEF u, v

LEMMA KeptPartEnds ==
  ASSUME Types, EndsInv, Types', NEW p, NEW c, KeptParts(p, c)
  PROVE  /\ p \in 0..Len(part_ends) /\ c \in 0..Len(coords) /\ c = CoordEnd(p)
         /\ p \in 0..Len(part_ends)' /\ c \in 0..Len(coords)'
         /\ \A i \in 0..p : CoordEnd(i)' = CoordEnd(i) /\ CoordEnd(i) \in 0..c
<1> USE EndTypes
<1>1. p \in 0..Len(part_ends) /\ c \in 0..Len(coords) /\ c = CoordEnd(p)
  BY DEF KeptParts, EndAt, CoordEnd, End
<1>2. ASSUME NEW i \in 0..p
      PROVE  CoordEnd(i)' = CoordEnd(i) /\ CoordEnd(i) \in 0..c
  <2>1. CoordEnd(i) \in 0..c
    BY <1>1, LevelFacts
  <2>2. CoordEnd(i)' = CoordEnd(i)
    BY <1>1 DEF KeptParts, CoordEnd, End
  <2> QED
    BY <2>1, <2>2
<1>3. p \in 0..Len(part_ends)' /\ c \in 0..Len(coords)'
  <2>1. Len(part_ends)' \in Nat /\ Len(coords)' \in Nat
    BY DEF Types, TypeOK
  <2> QED
    BY <1>1, <2>1 DEF KeptParts
<1> QED
  BY <1>1, <1>2, <1>3

LEMMA KeptEnds ==
  ASSUME Types, EndsInv, Types', NEW g, NEW p, NEW c, Kept(g, p, c)
  PROVE  /\ g \in 0..Len(group_ends) /\ p = PartEnd(g) /\ g \in 0..Len(group_ends)'
         /\ \A i \in 0..g : PartEnd(i)' = PartEnd(i) /\ PartEnd(i) \in 0..p
<1> USE EndTypes
<1>1. g \in 0..Len(group_ends) /\ p = PartEnd(g)
  BY DEF Kept, EndAt, PartEnd, End
<1>2. ASSUME NEW i \in 0..g
      PROVE  PartEnd(i)' = PartEnd(i) /\ PartEnd(i) \in 0..p
  <2>1. PartEnd(i) \in 0..p
    BY <1>1, LevelFacts
  <2>2. PartEnd(i)' = PartEnd(i)
    BY <1>1 DEF Kept, PartEnd, End
  <2> QED
    BY <2>1, <2>2
<1>3. g \in 0..Len(group_ends)'
  <2>1. Len(group_ends)' \in Nat
    BY DEF Types, TypeOK
  <2> QED
    BY <1>1, <2>1 DEF Kept
<1> QED
  BY <1>1, <1>2, <1>3

LEMMA KeptSlices ==
  ASSUME Types, EndsInv, Types', EndsInv', NEW p, NEW c, KeptParts(p, c)
  PROVE  /\ \A x, y \in 0..c : Slice(x, y)' = Slice(x, y)
         /\ \A i \in 1..p : Part(i)' = Part(i)
         /\ \A x, y \in 0..p : PartList(x, y)' = PartList(x, y)
<1>1. /\ p \in 0..Len(part_ends) /\ c \in 0..Len(coords) /\ p \in 0..Len(part_ends)'
      /\ \A i \in 0..p : CoordEnd(i)' = CoordEnd(i) /\ CoordEnd(i) \in 0..c
  BY KeptPartEnds
<1>2. coords \in Seq(Coordinate) /\ coords' \in Seq(Coordinate)
  BY DEF Types
<1>3. ASSUME NEW x \in 0..c, NEW y \in 0..c
      PROVE  Slice(x, y)' = Slice(x, y)
  <2>1. x \in Nat /\ y \in Nat /\ y <= Len(coords) /\ y <= Len(coords')
        /\ \A i \in 1..y : coords'[i] = coords[i]
    BY <1>1 DEF KeptParts
  <2> QED
    BY <1>2, <2>1, SliceStays DEF Slice
<1>4. ASSUME NEW i \in 1..p
      PROVE  Part(i)' = Part(i)
  <2>1. i \in 1..Len(part_ends) /\ i \in 1..Len(part_ends)' /\ i - 1 \in 0..p /\ i \in 0..p
    BY <1>1, EndTypes
  <2>2. Part(i) = Slice(CoordEnd(i - 1), CoordEnd(i))
    BY <2>1, ReadBack DEF Geometric
  <2>3. Part(i)' = Slice(CoordEnd(i - 1), CoordEnd(i))'
    BY <2>1, ReadBackNext DEF Geometric
  <2>4. Slice(CoordEnd(i - 1), CoordEnd(i))' = Slice(CoordEnd(i - 1), CoordEnd(i))
    <3>1. CoordEnd(i - 1)' = CoordEnd(i - 1) /\ CoordEnd(i)' = CoordEnd(i)
      BY <1>1, <2>1
    <3>2. CoordEnd(i - 1) \in 0..c /\ CoordEnd(i) \in 0..c
      BY <1>1, <2>1
    <3>3. SubSeq(coords', CoordEnd(i - 1) + 1, CoordEnd(i)) = SubSeq(coords, CoordEnd(i - 1) + 1, CoordEnd(i))
      BY <1>3, <3>2 DEF Slice
    <3> QED
      BY <3>1, <3>3 DEF Slice
  <2> QED
    BY <2>2, <2>3, <2>4
<1>5. ASSUME NEW x \in 0..p, NEW y \in 0..p
      PROVE  PartList(x, y)' = PartList(x, y)
  <2>1. \A i \in 1..(y - x) : x + i \in 1..p
    BY <1>1, EndTypes
  <2> QED
    BY <1>4, <2>1 DEF PartList
<1> QED
  BY <1>3, <1>4, <1>5

LEMMA FamilyFacts ==
  /\ \A type \in DOMAIN Family : Family[type] \in {"points", "lines", "polygons"}
  /\ DOMAIN Family = Layer!Single \cup Layer!Multi
  /\ \A type \in DOMAIN Family :
        /\ Family[type] = "points" <=> type \in Layer!Points
        /\ Family[type] = "lines" <=> type \in Layer!Lines
        /\ Family[type] = "polygons" <=> type \in Layer!Polygons
  BY DEF Family, Layer!Single, Layer!Multi, Layer!Points, Layer!Lines, Layer!Polygons

\* The groups a feature is read from, one by one.
RingsOf(g, h) == [i \in 1..(h - g) |-> PartsOf(<<g + i - 1, g + i>>)]

ByFamily ==
  /\ \A type \in DOMAIN Family : \A g, h :
        /\ Family[type] = "points" => GeometryOf(type, <<g, h>>) = RangeCoords(<<g, h>>)
        /\ Family[type] = "lines" => GeometryOf(type, <<g, h>>) = PartsOf(<<g, h>>)
  /\ \A type \in DOMAIN Family, g, h \in Nat :
        Family[type] = "polygons" => GeometryOf(type, <<g, h>>) = RingsOf(g, h)

LEMMA GeometryCases == ByFamily
<1>1. \A type \in DOMAIN Family : \A g, h :
        /\ Family[type] = "points" => GeometryOf(type, <<g, h>>) = RangeCoords(<<g, h>>)
        /\ Family[type] = "lines" => GeometryOf(type, <<g, h>>) = PartsOf(<<g, h>>)
  BY DEF GeometryOf
<1>2. ASSUME NEW type \in DOMAIN Family, NEW g \in Nat, NEW h \in Nat, Family[type] = "polygons"
      PROVE  GeometryOf(type, <<g, h>>) = RingsOf(g, h)
  <2> DEFINE gs == Items(<<g, h>>)
  <2>1. DOMAIN gs = 1..(h - g) /\ \A i \in 1..(h - g) : gs[i] = g + i
    BY DEF Items
  <2>2. GeometryOf(type, <<g, h>>) = [i \in DOMAIN gs |-> PartsOf(<<gs[i] - 1, gs[i]>>)]
    BY <1>2 DEF GeometryOf
  <2> HIDE DEF gs
  <2>3. \A i \in 1..(h - g) : PartsOf(<<gs[i] - 1, gs[i]>>) = PartsOf(<<g + i - 1, g + i>>)
    <3> TAKE i \in 1..(h - g)
    <3>1. gs[i] = g + i /\ gs[i] - 1 = g + i - 1
      BY <2>1
    <3> QED
      BY <3>1
  <2> QED
    BY <2>1, <2>2, <2>3 DEF RingsOf
<1> QED
  BY <1>1, <1>2 DEF ByFamily

LEMMA GeometryCasesNext == ByFamily'
  BY GeometryCases, PTL

LEMMA KeptGeometry ==
  ASSUME Types, EndsInv, Types', EndsInv', NEW k, NEW p, NEW c, Kept(k, p, c),
         NEW g \in 0..k, NEW h \in 0..k, g <= h
  PROVE  /\ PartsOf(<<g, h>>)' = PartsOf(<<g, h>>)
         /\ \A type \in DOMAIN Family : GeometryOf(type, <<g, h>>)' = GeometryOf(type, <<g, h>>)
<1>1. /\ k \in 0..Len(group_ends) /\ k \in 0..Len(group_ends)' /\ p \in Nat /\ c \in Nat
      /\ \A i \in 0..k : PartEnd(i)' = PartEnd(i) /\ PartEnd(i) \in 0..p
      /\ \A i \in 0..p : CoordEnd(i)' = CoordEnd(i) /\ CoordEnd(i) \in 0..c
  BY KeptEnds, KeptPartEnds, EndTypes DEF Kept
<1>2. /\ \A x, y \in 0..c : Slice(x, y)' = Slice(x, y)
      /\ \A x, y \in 0..p : PartList(x, y)' = PartList(x, y)
  BY KeptSlices DEF Kept
<1>6. \A i \in 0..k : i \in 0..Len(group_ends) /\ i \in 0..Len(group_ends)'
  <2>1. \A m, n, i \in Int : i \in 0..m /\ m \in 0..n => i \in 0..n
    OBVIOUS
  <2> QED
    BY <1>1, <2>1
<1>3. ASSUME NEW i \in 0..k, NEW j \in 0..k, i <= j
      PROVE  PartsOf(<<i, j>>)' = PartsOf(<<i, j>>)
  <2>1. PartsOf(<<i, j>>) = PartList(PartEnd(i), PartEnd(j))
    BY <1>6, <1>3, ReadBack DEF Geometric
  <2>2. PartsOf(<<i, j>>)' = PartList(PartEnd(i), PartEnd(j))'
    BY <1>6, <1>3, ReadBackNext DEF Geometric
  <2>3. PartList(PartEnd(i), PartEnd(j))' = PartList(PartEnd(i), PartEnd(j))
    <3>1. PICK x, y : x = PartEnd(i) /\ y = PartEnd(j)
      OBVIOUS
    <3>2. x \in 0..p /\ y \in 0..p /\ PartEnd(i)' = x /\ PartEnd(j)' = y
      BY <1>1, <3>1
    <3>3. PartList(PartEnd(i), PartEnd(j))' = PartList(x, y)'
      BY <3>2, Zenon DEF PartList
    <3> QED
      BY <1>2, <3>1, <3>2, <3>3
  <2> QED
    BY <2>1, <2>2, <2>3
<1>4. RangeCoords(<<g, h>>)' = RangeCoords(<<g, h>>)
  <2>1. RangeCoords(<<g, h>>) = Slice(CoordEnd(PartEnd(g)), CoordEnd(PartEnd(h)))
    BY <1>6, ReadBack DEF Geometric
  <2>2. RangeCoords(<<g, h>>)' = Slice(CoordEnd(PartEnd(g)), CoordEnd(PartEnd(h)))'
    BY <1>6, ReadBackNext DEF Geometric
  <2>3. Slice(CoordEnd(PartEnd(g)), CoordEnd(PartEnd(h)))' = Slice(CoordEnd(PartEnd(g)), CoordEnd(PartEnd(h)))
    BY <1>1, <1>2 DEF Slice
  <2> QED
    BY <2>1, <2>2, <2>3
<1>5. RingsOf(g, h)' = RingsOf(g, h)
  <2>1. \A i \in 1..(h - g) : g + i - 1 \in 0..k /\ g + i \in 0..k /\ g + i - 1 <= g + i
    BY <1>1, EndTypes
  <2> QED
    BY <1>3, <2>1 DEF RingsOf
<1>7. ASSUME NEW type \in DOMAIN Family
      PROVE  GeometryOf(type, <<g, h>>)' = GeometryOf(type, <<g, h>>)
  <2>1. Family[type] = "points" \/ Family[type] = "lines" \/ Family[type] = "polygons"
    BY FamilyFacts
  <2>2. CASE Family[type] = "points"
    BY <1>4, <2>2, GeometryCases, GeometryCasesNext DEF ByFamily
  <2>3. CASE Family[type] = "lines"
    BY <1>3, <2>3, GeometryCases, GeometryCasesNext DEF ByFamily
  <2>4. CASE Family[type] = "polygons"
    BY <1>5, <2>4, GeometryCases, GeometryCasesNext DEF ByFamily
  <2> QED
    BY <2>1, <2>2, <2>3, <2>4
<1> QED
  BY <1>3, <1>7

-----------------------------------------------------------------------------
(* The finished features.                                                   *)

FinishedGroups == IF Idle THEN Len(group_ends) ELSE writer.groups

LEMMA GroupsFacts ==
  ASSUME Types, EndsInv, NEW f \in 1..Len(ids)
  PROVE  LET g == End(feature_ends, f - 1)
             h == End(feature_ends, f)
         IN /\ Groups(f) = <<g, h>>
            /\ g \in Nat /\ h \in Nat /\ g <= h /\ h <= FinishedGroups
<1> USE EndTypes
<1>1. /\ \A i \in 0..Len(feature_ends) : End(feature_ends, i) \in Nat
      /\ \A i, j \in 0..Len(feature_ends) : i <= j => End(feature_ends, i) <= End(feature_ends, j)
      /\ \A i \in 1..Len(feature_ends) :
            ItemRange(feature_ends, i) = <<End(feature_ends, i - 1), End(feature_ends, i)>>
      /\ \A m, n : EndAt(feature_ends, m, n) <=> m \in 0..Len(feature_ends) /\ n = End(feature_ends, m)
  BY EndFacts DEF EndsInv
<1>2. End(feature_ends, Len(feature_ends)) = FinishedGroups /\ Len(ids) = Len(feature_ends)
  BY <1>1 DEF EndsInv, FinishedGroups
<1>3. /\ f - 1 \in 0..Len(feature_ends) /\ f \in 0..Len(feature_ends)
      /\ Len(feature_ends) \in 0..Len(feature_ends) /\ f - 1 <= f /\ f <= Len(feature_ends)
  BY <1>2
<1> QED
  BY <1>1, <1>2, <1>3 DEF Groups

LEMMA PushStays ==
  ASSUME Types, EndsInv, Types', EndsInv', NEW p, NEW c, Kept(FinishedGroups, p, c),
         NEW f \in 1..Len(ids), \A i \in 1..f : feature_ends'[i] = feature_ends[i], types'[f] = types[f]
  PROVE  PushGeometry(f)' = PushGeometry(f)
<1> DEFINE g == End(feature_ends, f - 1)
           h == End(feature_ends, f)
<1>1. Groups(f) = <<g, h>> /\ g \in Nat /\ h \in Nat /\ g <= h /\ h <= FinishedGroups
  BY GroupsFacts
<1>2. Groups(f)' = Groups(f)
  <2>1. f = 1 \/ f - 1 \in 1..f
    BY EndTypes
  <2> QED
    BY <2>1 DEF Groups, ItemRange
<1>3. FinishedGroups \in Nat
  BY EndTypes DEF FinishedGroups
<1>4. PICK a \in 0..FinishedGroups, b \in 0..FinishedGroups : a <= b /\ Groups(f) = <<a, b>>
  BY <1>1, <1>3
<1>5. types[f] \in DOMAIN Family
  <2>1. types \in Seq(DOMAIN Family) /\ Len(types) = Len(ids)
    BY DEF Types, TypeOK, EndsInv
  <2> QED
    BY <2>1, ElementOf
<1>6. PICK k : k = FinishedGroups
  OBVIOUS
<1> HIDE DEF g, h
<1>7. /\ PartsOf(<<a, b>>)' = PartsOf(<<a, b>>)
      /\ \A type \in DOMAIN Family : GeometryOf(type, <<a, b>>)' = GeometryOf(type, <<a, b>>)
  <2>1. Kept(k, p, c) /\ a \in 0..k /\ b \in 0..k
    BY <1>6
  <2> QED
    BY <1>4, <2>1, KeptGeometry
<1>8. PushGeometry(f) = IF types[f] = "Polygon" THEN <<PartsOf(<<a, b>>)>> ELSE GeometryOf(types[f], <<a, b>>)
  BY <1>4 DEF PushGeometry
<1>9. PushGeometry(f)' = IF types[f] = "Polygon" THEN <<PartsOf(<<a, b>>)'>> ELSE GeometryOf(types[f], <<a, b>>)'
  BY <1>2, <1>4 DEF PushGeometry
<1> QED
  BY <1>5, <1>7, <1>8, <1>9

LEMMA FinishedStays ==
  ASSUME Types, EndsInv, Types', EndsInv', NEW p, NEW c, Kept(FinishedGroups, p, c),
         UNCHANGED <<ids, types, feature_ends>>, DOMAIN columns' = DOMAIN columns,
         \A f \in 1..Len(ids) : \A k \in DOMAIN columns : Get(columns'[k], f) = Get(columns[k], f)
  PROVE  Finished' = Finished
<1>1. DOMAIN ids = 1..Len(ids) /\ DOMAIN ids' = DOMAIN ids
  BY ElementOf DEF Types, TypeOK
<1>2. ASSUME NEW f \in DOMAIN ids
      PROVE  /\ types'[f] = types[f] /\ ids'[f] = ids[f] /\ PushGeometry(f)' = PushGeometry(f)
             /\ [k \in DOMAIN columns' |-> Get(columns'[k], f)] = [k \in DOMAIN columns |-> Get(columns[k], f)]
  BY <1>1, PushStays
<1> QED
  BY <1>1, <1>2 DEF Finished

-----------------------------------------------------------------------------
(* The feature being written.                                               *)

DraftGeometry == GeometryOf(writer.type, <<writer.groups, Len(group_ends)>>)

DraftCells ==
    [k \in DOMAIN columns |->
        IF Len(columns[k].present) > Len(ids) THEN Get(columns[k], Len(ids) + 1) ELSE NoValue]

LEMMA DraftParts ==
  ~Idle => Drafted = [type |-> writer.type, id |-> writer.id,
                      geometry |-> DraftGeometry, values |-> DraftCells]
  BY DEF Drafted, DraftGeometry, DraftCells

LEMMA DraftPartsNext ==
  ~Idle' => Drafted' = [type |-> writer'.type, id |-> writer'.id,
                        geometry |-> DraftGeometry', values |-> DraftCells']
  BY DEF Drafted, DraftGeometry, DraftCells, Idle

\* What the draft's geometry is, by the family of its type.
DraftForm ==
    ~Idle =>
        /\ Family[writer.type] \in {"points", "lines", "polygons"}
        /\ Family[writer.type] = "points" => DraftGeometry = Slice(writer.coords, Len(coords))
        /\ Family[writer.type] = "lines" => DraftGeometry = PartList(writer.parts, Len(part_ends))
        /\ Family[writer.type] = "polygons" => DraftGeometry = RingsOf(writer.groups, Len(group_ends))

LEMMA DraftIsForm == Types /\ EndsInv => DraftForm
<1> SUFFICES ASSUME Types, EndsInv, ~Idle
             PROVE  /\ Family[writer.type] \in {"points", "lines", "polygons"}
                    /\ Family[writer.type] = "points" => DraftGeometry = Slice(writer.coords, Len(coords))
                    /\ Family[writer.type] = "lines" => DraftGeometry = PartList(writer.parts, Len(part_ends))
                    /\ Family[writer.type] = "polygons" => DraftGeometry = RingsOf(writer.groups, Len(group_ends))
  BY DEF DraftForm
<1>1. writer.type \in DOMAIN Family
  BY SizesAreNat DEF Start
<1>2. /\ writer.groups \in 0..Len(group_ends) /\ Len(group_ends) \in 0..Len(group_ends)
      /\ writer.groups \in Nat /\ Len(group_ends) \in Nat /\ writer.groups <= Len(group_ends)
      /\ writer.parts = PartEnd(writer.groups) /\ writer.coords = CoordEnd(writer.parts)
      /\ PartEnd(Len(group_ends)) = Len(part_ends) /\ CoordEnd(Len(part_ends)) = Len(coords)
  BY LevelFacts, EndTypes
<1>3. /\ PartsOf(<<writer.groups, Len(group_ends)>>) = PartList(writer.parts, Len(part_ends))
      /\ RangeCoords(<<writer.groups, Len(group_ends)>>) = Slice(writer.coords, Len(coords))
  BY <1>2, ReadBack DEF Geometric
<1> QED
  BY <1>1, <1>2, <1>3, FamilyFacts, GeometryCases DEF ByFamily, DraftGeometry

LEMMA DraftIsFormNext == Types' /\ EndsInv' => DraftForm'
  BY DraftIsForm, PTL

LEMMA PartIsLine ==
  ASSUME Types, EndsInv, NEW p \in 1..Len(part_ends)
  PROVE  Part(p) \in Line
<1>1. p - 1 \in 0..Len(part_ends) /\ p \in 0..Len(part_ends) /\ p - 1 <= p
  BY EndTypes
<1>2. CoordEnd(p - 1) \in 0..Len(coords) /\ CoordEnd(p) \in 0..Len(coords)
  BY <1>1, LevelFacts
<1>3. \A x, y \in 0..Len(coords) : SubSeq(coords, x + 1, y) \in Seq(Coordinate)
  BY EndTypes
<1> QED
  BY <1>2, <1>3, PartIsSlice DEF Slice, Line

LEMMA MadeSeq ==
  ASSUME NEW S, NEW n \in Nat, NEW s \in [1..n -> S]
  PROVE  s \in Seq(S)
  OBVIOUS

LEMMA PartListIsSeq ==
  ASSUME Types, EndsInv, NEW x \in 0..Len(part_ends), NEW y \in 0..Len(part_ends), x <= y
  PROVE  PartList(x, y) \in Seq(Line)
<1>1. \A i \in 1..(y - x) : x + i \in 1..Len(part_ends)
  BY EndTypes
<1>2. \A i \in 1..(y - x) : Part(x + i) \in Line
  BY <1>1, PartIsLine
<1>3. y - x \in Nat
  BY EndTypes
<1> QED
  BY <1>2, <1>3 DEF PartList

LEMMA RingsIsSeq ==
  ASSUME Types, EndsInv, NEW g \in 0..Len(group_ends), NEW h \in 0..Len(group_ends), g <= h
  PROVE  RingsOf(g, h) \in Seq(Seq(Line))
<1>1. ASSUME NEW i \in 1..(h - g)
      PROVE  PartsOf(<<g + i - 1, g + i>>) \in Seq(Line)
  <2>1. /\ g + i - 1 \in 0..Len(group_ends) /\ g + i \in 0..Len(group_ends) /\ g + i - 1 <= g + i
    BY EndTypes
  <2>2. /\ PartEnd(g + i - 1) \in 0..Len(part_ends) /\ PartEnd(g + i) \in 0..Len(part_ends)
        /\ PartEnd(g + i - 1) <= PartEnd(g + i)
        /\ PartsOf(<<g + i - 1, g + i>>) = PartList(PartEnd(g + i - 1), PartEnd(g + i))
    BY <2>1, ReadBack DEF Geometric
  <2> QED
    BY <2>2, PartListIsSeq
<1>2. h - g \in Nat
  BY EndTypes
<1>3. RingsOf(g, h) \in [1..(h - g) -> Seq(Line)]
  BY <1>1 DEF RingsOf
<1> QED
  BY <1>2, <1>3, MadeSeq

LEMMA DraftIsDraft == WInv /\ ~Idle => Drafted \in Draft /\ Drafted # NoDraft
<1> SUFFICES ASSUME WInv, ~Idle PROVE Drafted \in Draft
  BY NoDraftAssumption
<1>1. Types /\ EndsInv /\ ColumnsSound
  BY SoundFacts DEF WInv
<1>2. writer.type \in DOMAIN Family /\ writer.id \in Ids \cup {NoId}
  BY <1>1, SizesAreNat DEF Start
<1>3. DraftGeometry \in Line \cup Seq(Line) \cup Seq(Seq(Line))
  <2>1. /\ writer.groups \in 0..Len(group_ends) /\ Len(group_ends) \in 0..Len(group_ends)
        /\ writer.groups <= Len(group_ends)
        /\ writer.parts \in 0..Len(part_ends) /\ Len(part_ends) \in 0..Len(part_ends)
        /\ writer.parts <= Len(part_ends)
        /\ writer.coords \in 0..Len(coords)
    BY <1>1, LevelFacts, EndTypes
  <2>2. Slice(writer.coords, Len(coords)) \in Line
    <3>1. \A x \in 0..Len(coords) : SubSeq(coords, x + 1, Len(coords)) \in Seq(Coordinate)
      BY <1>1, EndTypes
    <3> QED
      BY <2>1, <3>1 DEF Slice, Line
  <2>3. PartList(writer.parts, Len(part_ends)) \in Seq(Line)
    BY <1>1, <2>1, PartListIsSeq
  <2>4. RingsOf(writer.groups, Len(group_ends)) \in Seq(Seq(Line))
    BY <1>1, <2>1, RingsIsSeq
  <2> HIDE DEF DraftGeometry, Line
  <2> QED
    BY <1>1, <2>2, <2>3, <2>4, DraftIsForm DEF DraftForm
<1>4. DraftCells \in Seq({NoValue} \cup UNION {ValuesOf[kind] : kind \in Kinds})
  <2> DEFINE Cell == {NoValue} \cup UNION {ValuesOf[kind] : kind \in Kinds}
  <2>0. NoValue \in Cell /\ \A kind \in Kinds : ValuesOf[kind] \subseteq Cell
    <3>1. NoValue \in Cell
      BY DEF Cell
    <3>2. ASSUME NEW kind \in Kinds, NEW value \in ValuesOf[kind]
          PROVE  value \in Cell
      <4>1. ValuesOf[kind] \in {ValuesOf[other] : other \in Kinds}
        OBVIOUS
      <4> QED
        BY <4>1 DEF Cell
    <3> QED
      BY <3>1, <3>2
  <2> HIDE DEF Cell
  <2>1. ASSUME NEW k \in 1..Len(columns), Len(columns[k].present) > Len(ids)
        PROVE  Get(columns[k], Len(ids) + 1) \in Cell
    <3>1. Sound(columns[k], columns[k].kind) /\ columns[k].kind \in Kinds
      BY <1>1 DEF ColumnsSound, Sound, ColumnType
    <3>2. Len(ids) + 1 \in 1..Len(columns[k].present)
      BY <1>1, <2>1, EndTypes, SizesAreNat, <3>1 DEF Sound, ColumnType
    <3>3. columns[k].present[Len(ids) + 1] => columns[k].values[Len(ids) + 1] \in ValuesOf[columns[k].kind]
      BY <3>1, <3>2 DEF Sound
    <3> QED
      BY <2>0, <3>1, <3>3 DEF Get
  <2>2. DOMAIN columns = 1..Len(columns) /\ Len(columns) \in Nat
    BY <1>1, SizesAreNat
  <2>3. \A k \in 1..Len(columns) :
           (IF Len(columns[k].present) > Len(ids) THEN Get(columns[k], Len(ids) + 1) ELSE NoValue) \in Cell
    BY <2>0, <2>1
  <2>4. DraftCells \in [1..Len(columns) -> Cell]
    BY <2>2, <2>3 DEF DraftCells
  <2>5. DraftCells \in Seq(Cell)
    BY <2>2, <2>4, MadeSeq
  <2> QED
    BY <2>5 DEF Cell
<1> QED
  BY <1>2, <1>3, <1>4, DraftParts DEF Draft

LEMMA DraftIsDraftNext == WInv' /\ ~Idle' => (Drafted # NoDraft)'
  BY DraftIsDraft, PTL

-----------------------------------------------------------------------------
(* The cells of a column.                                                   *)

LEMMA ResizeGet ==
  ASSUME NEW kind, NEW column, Sound(column, kind), NEW len \in Nat, NEW f \in 1..len
  PROVE  /\ f <= Len(column.present) => Get(Resize(column, len), f) = Get(column, f)
         /\ ~(f <= Len(column.present)) => Get(Resize(column, len), f) = NoValue
<1> DEFINE new == Resize(column, len)
<1>1. column \in ColumnType /\ Len(column.values) = Len(column.present)
  BY DEF Sound
<1>2. \A i \in 1..len :
        /\ i <= Len(column.values) => new.values[i] = column.values[i]
        /\ new.present[i] <=> i <= Len(column.present) /\ column.present[i]
  BY <1>1, ResizeFacts, Zenon
<1> HIDE DEF new
<1>3. /\ f <= Len(column.present) => new.values[f] = column.values[f]
      /\ new.present[f] <=> f <= Len(column.present) /\ column.present[f]
  BY <1>1, <1>2
<1> QED
  BY <1>3 DEF Get, new

LEMMA TruncateGet ==
  ASSUME NEW kind, NEW column, Sound(column, kind), NEW len \in Nat, len <= Len(column.present),
         NEW f \in 1..len
  PROVE  Get(Truncate(column, len), f) = Get(column, f)
<1> DEFINE new == Truncate(column, len)
<1>1. column \in ColumnType /\ Len(column.values) = Len(column.present) /\ Len(column.present) \in Nat
  BY DEF Sound, ColumnType
<1>2. /\ Len(new.values) = IF len < Len(column.values) THEN len ELSE Len(column.values)
      /\ Len(new.present) = IF len < Len(column.present) THEN len ELSE Len(column.present)
      /\ \A i \in 1..Len(new.values) : new.values[i] = column.values[i]
      /\ \A i \in 1..Len(new.present) : new.present[i] = column.present[i]
  BY <1>1, TruncateFacts, Zenon
<1> HIDE DEF new
<1>3. Len(new.values) = len /\ Len(new.present) = len
  BY <1>1, <1>2
<1>4. new.values[f] = column.values[f] /\ new.present[f] = column.present[f]
  BY <1>2, <1>3
<1> QED
  BY <1>4 DEF Get, new

LEMMA SetGet ==
  ASSUME NEW kind \in Kinds, NEW column, Sound(column, kind), NEW n \in Nat,
         NEW value \in ValuesOf[kind], Len(column.present) \in n..(n + 1)
  PROVE  /\ \A f \in 1..n : Get(Set(column, n + 1, value), f) = Get(column, f)
         /\ Get(Set(column, n + 1, value), n + 1) = value
<1> DEFINE new == Set(column, n + 1, value)
<1>1. value \in Value
  BY DEF Value
<1>2. /\ \A f \in 1..n : new.values[f] = column.values[f] /\ (new.present[f] <=> column.present[f])
      /\ new.values[n + 1] = value /\ new.present[n + 1]
  BY <1>1, SetFacts DEF Sound
<1> HIDE DEF new
<1> QED
  BY <1>2 DEF Get, new

-----------------------------------------------------------------------------
(* Steps that leave the geometry as it is.                                  *)

GeometryStays == UNCHANGED <<ids, types, feature_ends, group_ends, part_ends, coords>>

LEMMA KeptWhole ==
  ASSUME Types, EndsInv, UNCHANGED <<group_ends, part_ends, coords>>, NEW g \in 0..Len(group_ends)
  PROVE  Kept(g, PartEnd(g), CoordEnd(PartEnd(g)))
<1>1. PartEnd(g) \in 0..Len(part_ends)
  BY LevelFacts
<1>2. CoordEnd(PartEnd(g)) \in 0..Len(coords)
  BY <1>1, LevelFacts
<1> QED
  BY <1>1, <1>2, EndTypes DEF Kept, KeptParts, EndAt, PartEnd, CoordEnd, End

LEMMA SameGeometry ==
  ASSUME Types, EndsInv, Types', EndsInv', GeometryStays, DOMAIN columns' = DOMAIN columns,
         \A f \in 1..Len(ids) : \A k \in DOMAIN columns : Get(columns'[k], f) = Get(columns[k], f)
  PROVE  /\ Finished' = Finished
         /\ ~Idle /\ ~Idle' /\ writer'.type = writer.type /\ writer'.groups = writer.groups
            => DraftGeometry' = DraftGeometry
<1>1. Finished' = Finished
  <2>1. FinishedGroups \in 0..Len(group_ends)
    BY LevelFacts, EndTypes DEF FinishedGroups
  <2>2. PICK p, c : Kept(FinishedGroups, p, c)
    BY <2>1, KeptWhole DEF GeometryStays
  <2> QED
    BY <2>2, FinishedStays DEF GeometryStays
<1>2. ASSUME ~Idle, ~Idle', writer'.type = writer.type, writer'.groups = writer.groups
      PROVE  DraftGeometry' = DraftGeometry
  <2>1. PICK g, h, type : g = writer.groups /\ h = Len(group_ends) /\ type = writer.type
    OBVIOUS
  <2>2. g \in 0..h /\ h \in 0..h /\ h \in 0..Len(group_ends) /\ g <= h /\ type \in DOMAIN Family
    BY <1>2, <2>1, LevelFacts, EndTypes, SizesAreNat DEF Start
  <2>3. Kept(h, PartEnd(h), CoordEnd(PartEnd(h)))
    BY <2>2, KeptWhole DEF GeometryStays
  <2>4. PICK p, c : Kept(h, p, c)
    BY <2>3
  <2>5. GeometryOf(type, <<g, h>>)' = GeometryOf(type, <<g, h>>)
    BY <2>2, <2>4, KeptGeometry
  <2>6. DraftGeometry = GeometryOf(type, <<g, h>>)
    BY <2>1 DEF DraftGeometry
  <2>7. DraftGeometry' = GeometryOf(type, <<g, h>>)'
    BY <1>2, <2>1 DEF DraftGeometry, GeometryStays
  <2> QED
    BY <2>5, <2>6, <2>7
<1> QED
  BY <1>1, <1>2

LEMMA SetIdRefines ==
  ASSUME WInv, WInv', NEW id \in Ids \cup {NoId}, SetId(id)
  PROVE  Layer!SetId(id)
<1>1. ~Idle /\ ~Idle' /\ GeometryStays /\ UNCHANGED <<property, columns>>
  <2>1. writer \in Start /\ writer' \in Start
    BY SizesAreNat DEF WInv, SetId, Start
  <2> QED
    BY <2>1, NoDraftAssumption DEF SetId, geometry, GeometryStays, Idle
<1>2. writer' = [writer EXCEPT !.id = id] /\ writer \in Start
  BY <1>1, SizesAreNat DEF SetId, WInv
<1>3. writer'.type = writer.type /\ writer'.groups = writer.groups /\ writer'.id = id
  BY <1>2 DEF Start
<1>4. Finished' = Finished /\ DraftGeometry' = DraftGeometry
  BY <1>1, <1>3, SameGeometry DEF WInv
<1>5. DraftCells' = DraftCells
  BY <1>1 DEF DraftCells, GeometryStays
<1>6. Drafted # NoDraft
  BY <1>1, DraftIsDraft
<1>7. Drafted' = [Drafted EXCEPT !.id = id]
  BY <1>1, <1>3, <1>4, <1>5, DraftParts, DraftPartsNext
<1> QED
  BY <1>1, <1>4, <1>6, <1>7 DEF Layer!SetId, Layer!Writing

LEMMA ColumnFacts ==
  ASSUME WInv
  PROVE  /\ Types /\ EndsInv /\ ColumnsSound
         /\ Len(ids) \in Nat /\ DOMAIN columns = 1..Len(columns) /\ DOMAIN property = DOMAIN columns
         /\ \A k \in DOMAIN columns :
               /\ Sound(columns[k], property[k].kind) /\ property[k].kind \in Kinds
               /\ Len(columns[k].present) \in Nat /\ Len(ids) <= Len(columns[k].present)
               /\ Len(columns[k].present) \in Len(ids)..(Len(ids) + 1)
               /\ Idle => Len(columns[k].present) = Len(ids)
<1>1. Types /\ EndsInv /\ ColumnsSound /\ Len(ids) \in Nat /\ DOMAIN columns = 1..Len(columns)
  BY SoundFacts, SizesAreNat DEF WInv
<1>2. DOMAIN property = DOMAIN columns /\ \A k \in DOMAIN property : property[k] \in [name : Names, kind : Kinds]
  BY <1>1, ElementOf DEF Types, TypeOK, ColumnsSound
<1>3. ASSUME NEW k \in DOMAIN columns
      PROVE  /\ Sound(columns[k], property[k].kind) /\ property[k].kind \in Kinds
             /\ Len(columns[k].present) \in Nat /\ Len(ids) <= Len(columns[k].present)
             /\ Len(columns[k].present) \in Len(ids)..(Len(ids) + 1)
             /\ Idle => Len(columns[k].present) = Len(ids)
  <2>1. /\ Sound(columns[k], property[k].kind) /\ property[k].kind \in Kinds
        /\ Len(columns[k].present) \in Len(ids)..(Len(ids) + IF Idle THEN 0 ELSE 1)
    BY <1>1, <1>2 DEF ColumnsSound
  <2> QED
    BY <1>1, <2>1
<1> QED
  BY <1>1, <1>2, <1>3

LEMMA SetPropertyRefines ==
  ASSUME WInv, WInv', NEW k \in DOMAIN property, NEW value \in ValuesOf[property[k].kind],
         SetProperty(k, value)
  PROVE  Layer!SetProperty(k, value)
<1> DEFINE new == Set(columns[k], Len(ids) + 1, value)
<1>1. /\ ~Idle /\ ~Idle' /\ GeometryStays /\ UNCHANGED <<property, writer>>
      /\ columns' = [columns EXCEPT ![k] = new]
  BY DEF SetProperty, geometry, GeometryStays, Idle
<1>2. /\ \A f \in 1..Len(ids) : Get(new, f) = Get(columns[k], f)
      /\ Get(new, Len(ids) + 1) = value
      /\ Len(new.present) = Len(ids) + 1
  <2> DEFINE n == Len(ids)
  <2>1. /\ Sound(columns[k], property[k].kind) /\ property[k].kind \in Kinds
        /\ n \in Nat /\ Len(columns[k].present) \in n..(n + 1)
    BY ColumnFacts
  <2> HIDE DEF n
  <2> QED
    BY <2>1, SetGet, SetSound DEF n
<1> HIDE DEF new
<1>3. /\ DOMAIN columns' = DOMAIN columns /\ columns'[k] = new
      /\ \A j \in DOMAIN columns : j # k => columns'[j] = columns[j]
  BY <1>1, ColumnFacts
<1>4. Finished' = Finished /\ DraftGeometry' = DraftGeometry
  <2>1. \A f \in 1..Len(ids) : \A j \in DOMAIN columns : Get(columns'[j], f) = Get(columns[j], f)
    BY <1>2, <1>3
  <2> QED
    BY <1>1, <1>3, <2>1, SameGeometry DEF WInv
<1>5. DraftCells' = [DraftCells EXCEPT ![k] = value]
  <2>1. Len(new.present) > Len(ids) /\ Get(new, Len(ids) + 1) = value
    BY <1>2, ColumnFacts
  <2>2. DraftCells' = [j \in DOMAIN columns |->
           IF Len(columns'[j].present) > Len(ids) THEN Get(columns'[j], Len(ids) + 1) ELSE NoValue]
    BY <1>1, <1>3 DEF DraftCells, GeometryStays
  <2> QED
    BY <1>3, <2>1, <2>2 DEF DraftCells
<1>6. Drafted # NoDraft
  BY <1>1, DraftIsDraft
<1>7. Drafted' = [Drafted EXCEPT !.values[k] = value]
  BY <1>1, <1>4, <1>5, DraftParts, DraftPartsNext
<1> QED
  BY <1>1, <1>4, <1>6, <1>7 DEF Layer!SetProperty, Layer!Writing

LEMMA BeginRefines ==
  ASSUME WInv, WInv', NEW type \in DOMAIN Family, Feature(type)
  PROVE  Layer!Begin(type)
<1>1. Idle /\ ~Idle' /\ GeometryStays /\ UNCHANGED <<property, columns>>
  <2>1. writer' \in Start
    BY SizesAreNat DEF WInv, Feature, Start
  <2> QED
    BY <2>1, NoDraftAssumption DEF Feature, geometry, GeometryStays, Idle
<1>2. /\ writer'.type = type /\ writer'.id = NoId /\ writer'.groups = Len(group_ends)
      /\ writer'.parts = Len(part_ends) /\ writer'.coords = Len(coords)
  BY DEF Feature
<1>3. Finished' = Finished
  BY <1>1, SameGeometry DEF WInv
<1>4. DraftGeometry' = <<>>
  <2>1. /\ Family[type] \in {"points", "lines", "polygons"}
        /\ Family[type] = "points" => DraftGeometry' = Slice(Len(coords), Len(coords))'
        /\ Family[type] = "lines" => DraftGeometry' = PartList(Len(part_ends), Len(part_ends))'
        /\ Family[type] = "polygons" => DraftGeometry' = RingsOf(Len(group_ends), Len(group_ends))'
    BY <1>1, <1>2, DraftIsFormNext DEF DraftForm, WInv, GeometryStays, Slice, PartList, RingsOf
  <2>2. Slice(Len(coords), Len(coords))' = <<>>
    BY EndTypes DEF Slice, WInv, Types
  <2>3. PartList(Len(part_ends), Len(part_ends))' = <<>>
    BY EndTypes DEF PartList, WInv, Types, TypeOK
  <2>4. RingsOf(Len(group_ends), Len(group_ends))' = <<>>
    BY EndTypes DEF RingsOf, WInv, Types, TypeOK
  <2> QED
    BY <2>1, <2>2, <2>3, <2>4
<1>5. DraftCells' = [k \in DOMAIN property |-> NoValue]
  <2>1. \A k \in DOMAIN columns : ~(Len(columns[k].present) > Len(ids))
    BY <1>1, ColumnFacts
  <2>2. DOMAIN property = DOMAIN columns
    BY ColumnFacts
  <2> QED
    BY <1>1, <2>1, <2>2 DEF DraftCells, GeometryStays
<1>6. Drafted = NoDraft
  BY <1>1 DEF Drafted
<1>7. Drafted' = [type |-> type, id |-> NoId, geometry |-> <<>>, values |-> [k \in DOMAIN property |-> NoValue]]
  BY <1>1, <1>2, <1>4, <1>5, DraftPartsNext
<1> QED
  BY <1>1, <1>3, <1>6, <1>7 DEF Layer!Begin, Layer!Empty

-----------------------------------------------------------------------------
(* A feature that is cut back.                                              *)

LEMMA RewindRefines ==
  ASSUME WInv, WInv', ~Idle, Rewind
  PROVE  Layer!Discard
<1>1. /\ UNCHANGED <<property, ids, types, feature_ends>> /\ Idle'
      /\ columns' = [k \in DOMAIN columns |-> Truncate(columns[k], Len(ids))]
      /\ group_ends' = Truncated(group_ends, writer.groups)
      /\ part_ends' = Truncated(part_ends, writer.parts)
      /\ coords' = Truncated(coords, writer.coords)
  BY DEF Rewind, Idle
<1>2. Kept(FinishedGroups, writer.parts, writer.coords)
  <2>1. /\ EndAt(group_ends, writer.groups, writer.parts) /\ EndAt(part_ends, writer.parts, writer.coords)
        /\ writer.groups \in Nat /\ writer.parts \in Nat /\ writer.coords \in Nat
        /\ writer.coords <= Len(coords)
    BY EndTypes DEF WInv, EndsInv, CutBack
  <2>2. /\ Len(group_ends') = writer.groups /\ \A i \in 1..writer.groups : group_ends'[i] = group_ends[i]
        /\ Len(part_ends') = writer.parts /\ \A i \in 1..writer.parts : part_ends'[i] = part_ends[i]
        /\ Len(coords') = writer.coords /\ \A i \in 1..writer.coords : coords'[i] = coords[i]
    <3>1. ASSUME NEW S, NEW s \in Seq(S), NEW m \in Nat, m <= Len(s)
          PROVE  Len(Truncated(s, m)) = m /\ \A i \in 1..m : Truncated(s, m)[i] = s[i]
      BY <3>1, TruncatedFacts
    <3>2. writer.groups <= Len(group_ends) /\ writer.parts <= Len(part_ends)
      BY <2>1 DEF EndAt
    <3> QED
      BY <1>1, <2>1, <3>1, <3>2, EndTypes DEF WInv
  <2> QED
    BY <2>1, <2>2, EndTypes DEF FinishedGroups, Kept, KeptParts, WInv
<1>3. /\ DOMAIN columns' = DOMAIN columns
      /\ \A f \in 1..Len(ids) : \A k \in DOMAIN columns : Get(columns'[k], f) = Get(columns[k], f)
  <2>1. ASSUME NEW k \in DOMAIN columns, NEW f \in 1..Len(ids)
        PROVE  Get(Truncate(columns[k], Len(ids)), f) = Get(columns[k], f)
    <3>1. /\ Sound(columns[k], property[k].kind) /\ Len(ids) \in Nat
          /\ Len(ids) <= Len(columns[k].present)
      BY ColumnFacts
    <3> QED
      BY <3>1, TruncateGet
  <2> QED
    BY <1>1, <2>1
<1>4. Finished' = Finished
  BY <1>1, <1>2, <1>3, FinishedStays DEF WInv
<1>5. Drafted # NoDraft /\ Drafted' = NoDraft
  BY <1>1, DraftIsDraft DEF Drafted
<1> QED
  BY <1>1, <1>4, <1>5 DEF Layer!Discard, Layer!Writing

LEMMA ResetRefines ==
  ASSUME Reset
  PROVE  Layer!Reset
<1>1. Drafted = NoDraft /\ Drafted' = Drafted
  BY DEF Reset, Drafted, Idle
<1>2. Finished' = <<>>
  BY DEF Reset, Finished
<1> QED
  BY <1>1, <1>2 DEF Reset, Layer!Reset

-----------------------------------------------------------------------------
(* Steps that add a part.                                                   *)

LEMMA TailSlice ==
  ASSUME NEW S, NEW s \in Seq(S), NEW t \in Seq(S)
  PROVE  SubSeq(s \o t, Len(s) + 1, Len(s) + Len(t)) = t
<1> DEFINE u == SubSeq(s \o t, Len(s) + 1, Len(s) + Len(t))
<1>1. u \in Seq(S) /\ Len(u) = Len(t) /\ \A i \in 1..Len(t) : u[i] = t[i]
  OBVIOUS
<1> HIDE DEF u
<1>2. u = t
  BY <1>1, SeqEqual
<1> QED
  BY <1>2 DEF u

LEMMA JoinedFacts ==
  ASSUME NEW S, NEW s \in Seq(S), NEW t \in Seq(S)
  PROVE  /\ s \o t \in Seq(S) /\ Len(s \o t) = Len(s) + Len(t)
         /\ \A i \in 1..Len(s) : (s \o t)[i] = s[i]
         /\ \A i \in 1..Len(t) : (s \o t)[Len(s) + i] = t[i]
  OBVIOUS

LEMMA JoinedSlice ==
  ASSUME NEW S, NEW s \in Seq(S), NEW t \in Seq(S), NEW m \in 0..Len(s)
  PROVE  SubSeq(s \o t, m + 1, Len(s) + Len(t)) = SubSeq(s, m + 1, Len(s)) \o t
<1> DEFINE u == SubSeq(s \o t, m + 1, Len(s) + Len(t))
           v == SubSeq(s, m + 1, Len(s)) \o t
           w == SubSeq(s, m + 1, Len(s))
           whole == s \o t
<1>1. /\ whole \in Seq(S) /\ Len(whole) = Len(s) + Len(t) /\ Len(s) \in Nat /\ Len(t) \in Nat
      /\ \A i \in 1..Len(s) : whole[i] = s[i]
      /\ \A i \in 1..Len(t) : whole[Len(s) + i] = t[i]
  BY JoinedFacts
<1>2. w \in Seq(S) /\ Len(w) = Len(s) - m /\ \A i \in 1..Len(w) : w[i] = s[m + i]
  OBVIOUS
<1> HIDE DEF w, whole
<1>3. /\ v \in Seq(S) /\ Len(v) = Len(w) + Len(t)
      /\ \A i \in 1..Len(w) : v[i] = w[i]
      /\ \A i \in 1..Len(t) : v[Len(w) + i] = t[i]
  <2>1. v = w \o t
    BY DEF w
  <2> HIDE DEF v
  <2>2. /\ w \o t \in Seq(S) /\ Len(w \o t) = Len(w) + Len(t)
        /\ \A i \in 1..Len(w) : (w \o t)[i] = w[i]
        /\ \A i \in 1..Len(t) : (w \o t)[Len(w) + i] = t[i]
    <3>1. w \in Seq(S)
      BY <1>2
    <3> QED
      BY <3>1, JoinedFacts
  <2> QED
    BY <2>1, <2>2
<1>4. /\ u \in Seq(S) /\ Len(u) = Len(w) + Len(t)
      /\ \A i \in 1..(Len(w) + Len(t)) : u[i] = whole[m + i]
  <2>1. u = SubSeq(whole, m + 1, Len(whole))
    BY <1>1 DEF whole
  <2> HIDE DEF u
  <2> QED
    BY <1>1, <1>2, <2>1
<1> HIDE DEF u, v
<1>5. ASSUME NEW i \in 1..(Len(w) + Len(t))
      PROVE  u[i] = v[i]
  <2>1. CASE i \in 1..Len(w)
    <3>1. m + i \in 1..Len(s)
      BY <1>1, <1>2, <2>1
    <3> QED
      BY <1>1, <1>2, <1>3, <1>4, <2>1, <3>1
  <2>2. CASE i \notin 1..Len(w)
    <3> DEFINE j == i - Len(w)
    <3>1. j \in 1..Len(t) /\ i = Len(w) + j /\ m + i = Len(s) + j
      BY <1>1, <1>2, <2>2
    <3> HIDE DEF j
    <3> QED
      BY <1>1, <1>3, <1>4, <3>1
  <2> QED
    BY <2>1, <2>2
<1>6. u = v
  BY <1>3, <1>4, <1>5, SeqEqual
<1> QED
  BY <1>6 DEF u, v

LEMMA PartAdded ==
  ASSUME WInv, WInv', ~Idle, NEW cs \in CoordLists, NEW joins, joins => GroupBegun, AddPart(cs, joins)
  PROVE  /\ KeptParts(Len(part_ends), Len(coords))
         /\ Kept(writer.groups, writer.parts, writer.coords)
         /\ Len(part_ends') = Len(part_ends) + 1
         /\ \A q : q = Len(part_ends) + 1 => Part(q)' = cs
         /\ coords' = coords \o cs
         /\ UNCHANGED <<property, columns, ids, types, feature_ends, writer>>
<1> USE EndTypes DEF WInv
<1>1. /\ cs \in Seq(Coordinate) /\ Len(cs) \in Nat
      /\ coords' = coords \o cs /\ part_ends' = Append(part_ends, Len(coords) + Len(cs))
      /\ UNCHANGED <<property, columns, ids, types, feature_ends, writer>>
  BY ListIsSeq DEF AddPart
<1>2. /\ Len(part_ends') = Len(part_ends) + 1 /\ part_ends'[Len(part_ends) + 1] = Len(coords) + Len(cs)
      /\ \A i \in 1..Len(part_ends) : part_ends'[i] = part_ends[i]
  <2> DEFINE x == Len(coords) + Len(cs)
  <2>1. x \in Nat
    BY <1>1
  <2> HIDE DEF x
  <2>2. part_ends' = Append(part_ends, x)
    BY <1>1 DEF x
  <2> QED
    BY <2>1, <2>2, AppendedFacts DEF x
<1>3. Len(coords') = Len(coords) + Len(cs) /\ \A i \in 1..Len(coords) : coords'[i] = coords[i]
  BY <1>1
<1>4. KeptParts(Len(part_ends), Len(coords))
  BY <1>1, <1>2, <1>3 DEF KeptParts, EndsInv
<1>5. /\ writer.groups \in 0..Len(group_ends) /\ writer.parts \in 0..Len(part_ends)
      /\ writer.coords \in 0..Len(coords)
      /\ EndAt(group_ends, writer.groups, writer.parts) /\ EndAt(part_ends, writer.parts, writer.coords)
  BY DEF EndsInv, CutBack, EndAt
<1>6. Kept(writer.groups, writer.parts, writer.coords)
  <2>1. KeptParts(writer.parts, writer.coords)
    BY <1>1, <1>2, <1>3, <1>5 DEF KeptParts
  <2>2. writer.groups <= Len(group_ends') /\ \A i \in 1..writer.groups : group_ends'[i] = group_ends[i]
    <3>1. CASE joins
      <4>1. Len(group_ends) > writer.groups /\ group_ends' = [group_ends EXCEPT ![Len(group_ends)] = @ + 1]
        BY <3>1 DEF GroupBegun, AddPart
      <4> QED
        BY <1>5, <4>1
    <3>2. CASE ~joins
      BY <1>5, <3>2 DEF AddPart
    <3> QED
      BY <3>1, <3>2
  <2> QED
    BY <1>5, <2>1, <2>2 DEF Kept
<1>7. ASSUME NEW q, q = Len(part_ends) + 1
      PROVE  Part(q)' = cs
  <2>1. q \in 1..Len(part_ends)' /\ q - 1 = Len(part_ends) /\ q # 0
    BY <1>2, <1>7
  <2>2. CoordEnd(q - 1)' = Len(coords)
    <3>1. CoordEnd(Len(part_ends)) = Len(coords)
      BY LevelFacts
    <3>2. Len(part_ends) = 0 \/ part_ends'[Len(part_ends)] = part_ends[Len(part_ends)]
      <4>1. Len(part_ends) = 0 \/ Len(part_ends) \in 1..Len(part_ends)
        OBVIOUS
      <4> QED
        BY <1>2, <4>1
    <3> QED
      BY <2>1, <3>1, <3>2 DEF CoordEnd, End
  <2>3. CoordEnd(q)' = Len(coords) + Len(cs)
    BY <1>2, <1>7, <2>1 DEF CoordEnd, End
  <2>4. Part(q)' = Slice(CoordEnd(q - 1), CoordEnd(q))'
    BY <2>1, ReadBackNext DEF Geometric
  <2>5. SubSeq(coords', Len(coords) + 1, Len(coords) + Len(cs)) = cs
    BY <1>1, TailSlice
  <2> QED
    BY <2>2, <2>3, <2>4, <2>5 DEF Slice
<1> QED
  BY <1>1, <1>2, <1>4, <1>6, <1>7

\* Only the geometry of the draft changes.
LEMMA DraftGrows ==
  ASSUME WInv, WInv', ~Idle, Kept(writer.groups, writer.parts, writer.coords),
         UNCHANGED <<property, columns, ids, types, feature_ends, writer>>
  PROVE  /\ Layer!Writing
         /\ Drafted.geometry = DraftGeometry
         /\ Drafted' = [Drafted EXCEPT !.geometry = DraftGeometry']
         /\ Drafted.type = writer.type
<1>1. ~Idle'
  BY DEF Idle
<1>2. Finished' = Finished
  <2>1. Kept(FinishedGroups, writer.parts, writer.coords)
    BY DEF FinishedGroups
  <2>2. PICK p, c : Kept(FinishedGroups, p, c)
    BY <2>1
  <2> QED
    BY <2>2, FinishedStays DEF WInv
<1>3. DraftCells' = DraftCells
  BY DEF DraftCells
<1>4. Drafted # NoDraft
  BY DraftIsDraft
<1> QED
  BY <1>1, <1>2, <1>3, <1>4, DraftParts, DraftPartsNext DEF Layer!Writing

\* A list of m entries, whatever they are.
Listed(list, m) == list = [i \in 1..m |-> list[i]]

LEMMA BuiltByAppend ==
  ASSUME NEW S, NEW old \in Seq(S), NEW x \in S, NEW n \in Nat, Len(old) = n,
         NEW new, Listed(new, n + 1),
         \A i \in 1..n : new[i] = old[i], new[n + 1] = x
  PROVE  new = Append(old, x)
<1>1. \A i \in 1..(n + 1) : i \in 1..n \/ i = n + 1
  OBVIOUS
<1>2. ASSUME NEW i \in 1..(n + 1)
      PROVE  new[i] \in S /\ new[i] = Append(old, x)[i]
  <2>1. CASE i \in 1..n
    BY <2>1, AppendedFacts
  <2>2. CASE i = n + 1
    BY <2>2, AppendedFacts
  <2> QED
    BY <1>1, <2>1, <2>2
<1>3. new \in [1..(n + 1) -> S]
  BY <1>2 DEF Listed
<1>4. new \in Seq(S) /\ Len(new) = n + 1
  BY <1>3, MadeSeq
<1>5. Append(old, x) \in Seq(S) /\ Len(Append(old, x)) = n + 1
  BY AppendedFacts
<1> QED
  BY <1>2, <1>4, <1>5, SeqEqual

LEMMA CountUp ==
  ASSUME NEW m \in Nat, NEW x \in 0..m
  PROVE  /\ m - x \in Nat /\ \A i \in 1..(m - x) : x + i \in 1..m
         /\ x + ((m - x) + 1) = m + 1 /\ (m + 1) - x = (m - x) + 1
         /\ \A i \in 1..((m - x) + 1) : i \in 1..(m - x) \/ i = (m - x) + 1
  OBVIOUS

LEMMA PartListGrows ==
  ASSUME WInv, WInv', ~Idle, NEW cs \in CoordLists, NEW joins, joins => GroupBegun, AddPart(cs, joins),
         NEW x \in 0..Len(part_ends), NEW q, q = Len(part_ends) + 1
  PROVE  PartList(x, q)' = Append(PartList(x, Len(part_ends)), cs)
<1> USE EndTypes DEF WInv
<1>1. /\ KeptParts(Len(part_ends), Len(coords)) /\ Part(q)' = cs
  BY PartAdded
<1>2. PICK p, c : p = Len(part_ends) /\ c = Len(coords)
  OBVIOUS
<1>3. \A i \in 1..Len(part_ends) : Part(i)' = Part(i)
  <2>1. KeptParts(p, c)
    BY <1>1, <1>2
  <2> QED
    BY <1>2, <2>1, KeptSlices
<1> DEFINE old == PartList(x, Len(part_ends))
           new == [i \in 1..(q - x) |-> Part(x + i)']
           n == Len(part_ends) - x
<1>4. old \in Seq(Line) /\ n \in Nat /\ Len(old) = n /\ \A i \in 1..n : old[i] = Part(x + i)
  <2>1. old \in Seq(Line)
    BY PartListIsSeq
  <2> QED
    BY <2>1 DEF PartList
<1>5. cs \in Line
  BY ListIsSeq DEF Line
<1>6. /\ \A i \in 1..n : x + i \in 1..Len(part_ends)
      /\ x + (n + 1) = q /\ q - x = n + 1 /\ \A i \in 1..(n + 1) : i \in 1..n \/ i = n + 1
  <2>1. Len(part_ends) \in Nat
    OBVIOUS
  <2> QED
    BY <2>1, CountUp
<1> HIDE DEF old, n
<1>7. \A i \in 1..(n + 1) : Part(x + i)' = IF i = n + 1 THEN cs ELSE old[i]
  BY <1>1, <1>3, <1>4, <1>6
<1>8. Append(old, cs) \in Seq(Line) /\ Len(Append(old, cs)) = n + 1
      /\ (\A i \in 1..n : Append(old, cs)[i] = old[i]) /\ Append(old, cs)[n + 1] = cs
  BY <1>4, <1>5, AppendedFacts
<1>9. DOMAIN new = 1..(n + 1) /\ \A i \in 1..(n + 1) : new[i] = Part(x + i)'
  BY <1>6
<1>10. new \in [1..(n + 1) -> Line]
  <2>1. ASSUME NEW i \in 1..(n + 1)
        PROVE  Part(x + i)' \in Line
    <3>1. i \in 1..n => old[i] \in Line
      BY <1>4
    <3> QED
      BY <1>5, <1>6, <1>7, <3>1
  <2> QED
    BY <1>6, <2>1
<1>11. new \in Seq(Line)
  <2>1. n + 1 \in Nat
    BY <1>4
  <2> HIDE DEF new
  <2> QED
    BY <1>10, <2>1, MadeSeq
<1>12. PartList(x, q)' = new
  BY DEF PartList
<1> HIDE DEF new
<1>13. \A i \in 1..(n + 1) : new[i] = Append(old, cs)[i]
  BY <1>6, <1>7, <1>8, <1>9
<1>14. Len(new) = n + 1
  BY <1>4, <1>9, <1>11
<1>15. new = Append(old, cs)
  BY <1>8, <1>11, <1>13, <1>14, SeqEqual
<1> QED
  BY <1>12, <1>15 DEF old

LEMMA AddLineRefines ==
  ASSUME WInv, WInv', NEW cs \in CoordLists, AddLine(cs)
  PROVE  Layer!AddLine(cs)
<1> USE EndTypes DEF WInv
<1>1. ~Idle /\ Family[writer.type] = "lines" /\ AddPart(cs, GroupBegun) /\ writer.type \in DOMAIN Family
  BY SizesAreNat DEF AddLine, check_family, Start
<1>2. PICK joins : joins = GroupBegun
  OBVIOUS
<1>3. /\ (joins => GroupBegun) /\ AddPart(cs, joins)
  BY <1>1, <1>2
<1>4. /\ Kept(writer.groups, writer.parts, writer.coords)
      /\ Len(part_ends') = Len(part_ends) + 1
      /\ UNCHANGED <<property, columns, ids, types, feature_ends, writer>>
  BY <1>1, <1>3, PartAdded
<1>5. /\ Layer!Writing /\ Drafted.geometry = DraftGeometry /\ Drafted.type = writer.type
      /\ Drafted' = [Drafted EXCEPT !.geometry = DraftGeometry']
  BY <1>1, <1>4, DraftGrows
<1>6. PICK q, x : q = Len(part_ends) + 1 /\ x = writer.parts
  OBVIOUS
<1>7. x \in 0..Len(part_ends)
  BY <1>1, <1>6, LevelFacts
<1>8. DraftGeometry = PartList(x, Len(part_ends))
  BY <1>1, <1>6, DraftIsForm DEF DraftForm
<1>9. DraftGeometry' = PartList(x, q)'
  BY <1>1, <1>4, <1>6, DraftIsFormNext DEF DraftForm, Idle, PartList
<1>10. PartList(x, q)' = Append(PartList(x, Len(part_ends)), cs)
  BY <1>1, <1>3, <1>6, <1>7, PartListGrows
<1>11. writer.type \in Layer!Lines
  BY <1>1, FamilyFacts
<1> QED
  BY <1>5, <1>8, <1>9, <1>10, <1>11 DEF Layer!AddLine

LEMMA PointsExtended ==
  ASSUME WInv, WInv', ~Idle, GroupBegun, NEW cs \in CoordLists,
         coords' = coords \o cs,
         part_ends' = [part_ends EXCEPT ![Len(part_ends)] = Len(coords')],
         UNCHANGED <<ids, types, feature_ends, group_ends, writer>>
  PROVE  Kept(writer.groups, writer.parts, writer.coords)
<1> USE EndTypes DEF WInv
<1>1. /\ writer.groups \in 0..Len(group_ends) /\ writer.parts \in 0..Len(part_ends)
      /\ writer.coords \in 0..Len(coords) /\ writer.parts < Len(part_ends)
      /\ EndAt(group_ends, writer.groups, writer.parts) /\ EndAt(part_ends, writer.parts, writer.coords)
  BY DEF EndsInv, CutBack, EndAt
<1>2. /\ Len(part_ends') = Len(part_ends)
      /\ \A i \in 1..writer.parts : part_ends'[i] = part_ends[i]
  BY <1>1
<1>3. cs \in Seq(Coordinate) /\ Len(coords') = Len(coords) + Len(cs) /\ \A i \in 1..Len(coords) : coords'[i] = coords[i]
  BY ListIsSeq, JoinedFacts
<1>4. KeptParts(writer.parts, writer.coords)
  <2>1. writer.parts <= Len(part_ends') /\ writer.coords <= Len(coords')
    <3>1. PICK p, x, c, d : /\ p = Len(part_ends) /\ x = writer.parts
                            /\ c = Len(coords) /\ d = Len(cs)
      OBVIOUS
    <3>2. p \in Nat /\ c \in Nat /\ d \in Nat /\ x \in 0..p /\ writer.coords \in 0..c
      BY <1>1, <1>3, <3>1
    <3>3. x <= p /\ writer.coords <= c + d
      BY <3>2
    <3>4. Len(part_ends') = p /\ Len(coords') = c + d
      BY <1>2, <1>3, <3>1
    <3> QED
      BY <3>1, <3>3, <3>4
  <2>2. \A i \in 1..writer.coords : i \in 1..Len(coords)
    BY <1>1
  <2> QED
    BY <1>1, <1>2, <1>3, <2>1, <2>2 DEF KeptParts
<1> QED
  BY <1>1, <1>4 DEF Kept

LEMMA AddPointsRefines ==
  ASSUME WInv, WInv', NEW cs \in CoordLists, AddPoints(cs)
  PROVE  Layer!AddPoints(cs)
<1> USE EndTypes DEF WInv
<1>1. ~Idle /\ Family[writer.type] = "points" /\ writer.type \in DOMAIN Family
  BY SizesAreNat DEF AddPoints, check_family, Start
<1>2. /\ Kept(writer.groups, writer.parts, writer.coords)
      /\ coords' = coords \o cs
      /\ UNCHANGED <<property, columns, ids, types, feature_ends, writer>>
  <2>1. CASE AddPart(cs, FALSE)
    <3>1. PICK joins : joins = FALSE
      OBVIOUS
    <3>2. /\ Kept(writer.groups, writer.parts, writer.coords) /\ coords' = coords \o cs
      BY <1>1, <2>1, PartAdded
    <3> QED
      BY <2>1, <3>2 DEF AddPart
  <2>2. CASE ~AddPart(cs, FALSE)
    BY <1>1, <2>2, PointsExtended DEF AddPoints
  <2> QED
    BY <2>1, <2>2
<1>3. /\ Layer!Writing /\ Drafted.geometry = DraftGeometry /\ Drafted.type = writer.type
      /\ Drafted' = [Drafted EXCEPT !.geometry = DraftGeometry']
  BY <1>1, <1>2, DraftGrows
<1>4. DraftGeometry = SubSeq(coords, writer.coords + 1, Len(coords))
  BY <1>1, DraftIsForm DEF DraftForm, Slice
<1>5. DraftGeometry' = SubSeq(coords', writer.coords + 1, Len(coords'))
  BY <1>1, <1>2, DraftIsFormNext DEF DraftForm, Idle, Slice
<1>6. DraftGeometry' = DraftGeometry \o cs
  <2>1. writer.coords \in 0..Len(coords) /\ cs \in Seq(Coordinate) /\ Len(coords') = Len(coords) + Len(cs)
    BY <1>1, <1>2, ListIsSeq DEF EndsInv, CutBack
  <2>2. SubSeq(coords \o cs, writer.coords + 1, Len(coords) + Len(cs)) =
          SubSeq(coords, writer.coords + 1, Len(coords)) \o cs
    BY <2>1, JoinedSlice
  <2> QED
    BY <1>2, <1>4, <1>5, <2>1, <2>2
<1>7. writer.type \in Layer!Points
  BY <1>1, FamilyFacts
<1> QED
  BY <1>3, <1>6, <1>7 DEF Layer!AddPoints

\* The rings of one group.
Rings(g) == PartsOf(<<g - 1, g>>)

LEMMA RingsFacts ==
  ASSUME NEW g \in Nat, NEW h \in Nat
  PROVE  \A i \in 1..(h - g) : RingsOf(g, h)[i] = Rings(g + i)
<1> TAKE i \in 1..(h - g)
<1>1. g + i - 1 = (g + i) - 1
  OBVIOUS
<1> QED
  BY <1>1 DEF RingsOf, Rings

LEMMA ExteriorRefines ==
  ASSUME WInv, WInv', NEW cs \in CoordLists, ExteriorRing(cs)
  PROVE  Layer!AddPolygon(cs)
<1> USE EndTypes DEF WInv
<1>1. ~Idle /\ Family[writer.type] = "polygons" /\ AddPart(cs, FALSE) /\ writer.type \in DOMAIN Family
  BY SizesAreNat DEF ExteriorRing, check_family, Start
<1>2. /\ KeptParts(Len(part_ends), Len(coords))
      /\ Kept(writer.groups, writer.parts, writer.coords)
      /\ Len(part_ends') = Len(part_ends) + 1
      /\ UNCHANGED <<property, columns, ids, types, feature_ends, writer>>
  BY <1>1, PartAdded
<1>3. /\ Layer!Writing /\ Drafted.geometry = DraftGeometry /\ Drafted.type = writer.type
      /\ Drafted' = [Drafted EXCEPT !.geometry = DraftGeometry']
  BY <1>1, <1>2, DraftGrows
<1>4. PICK g, k, q, p, c : /\ g = writer.groups /\ k = Len(group_ends) /\ q = Len(part_ends) + 1
                           /\ p = Len(part_ends) /\ c = Len(coords)
  OBVIOUS
<1>5. /\ g \in 0..k /\ k \in Nat /\ p \in Nat /\ q \in Nat /\ PartEnd(k) = p
  BY <1>1, <1>4, LevelFacts
<1>6. Len(group_ends') = k + 1 /\ \A i \in 1..k : group_ends'[i] = group_ends[i]
  BY <1>1, <1>4, <1>5 DEF AddPart
<1>7. Kept(k, p, c)
  BY <1>2, <1>4, <1>5, <1>6 DEF Kept, EndsInv
<1>8. \A i \in 1..k : Rings(i)' = Rings(i)
  <2> SUFFICES ASSUME NEW i \in 1..k PROVE PartsOf(<<i - 1, i>>)' = PartsOf(<<i - 1, i>>)
    BY DEF Rings
  <2>1. PICK j : j = i - 1
    OBVIOUS
  <2>2. j \in 0..k /\ i \in 0..k /\ j <= i
    BY <1>5, <2>1
  <2>3. PartsOf(<<j, i>>)' = PartsOf(<<j, i>>)
    BY <1>7, <2>2, KeptGeometry
  <2> QED
    BY <2>1, <2>3
<1>9. Rings(k + 1)' = <<cs>>
  <2>1. PICK m : m = k + 1
    OBVIOUS
  <2>2. k \in 0..Len(group_ends)' /\ m \in 0..Len(group_ends)' /\ k <= m /\ m - 1 = k
    BY <1>5, <1>6, <2>1
  <2>3. PartsOf(<<k, m>>)' = PartList(PartEnd(k), PartEnd(m))'
    BY <2>2, ReadBackNext DEF Geometric
  <2>4. PartEnd(k)' = p
    <3>1. PartEnd(k)' = PartEnd(k)
      BY <1>5, <1>7, KeptEnds
    <3> QED
      BY <1>5, <3>1
  <2>5. PartEnd(m)' = q
    <3>1. PartEnd(Len(group_ends))' = Len(part_ends')
      BY ReadBackNext DEF Geometric
    <3>2. m = Len(group_ends') /\ q = Len(part_ends')
      BY <1>2, <1>4, <1>6, <2>1
    <3> QED
      BY <3>1, <3>2 DEF PartEnd
  <2>6. PartList(p, q)' = Append(PartList(p, p), cs)
    <3>1. p \in 0..Len(part_ends)
      BY <1>4, <1>5
    <3> QED
      BY <1>1, <1>4, <3>1, PartListGrows
  <2>7. PartList(p, p) = <<>>
    BY <1>5 DEF PartList
  <2>8. PartsOf(<<k, m>>)' = <<cs>>
    <3>1. PartList(PartEnd(k), PartEnd(m))' = PartList(p, q)'
      BY <2>4, <2>5 DEF PartList
    <3> QED
      BY <2>3, <2>6, <2>7, <3>1
  <2> QED
    BY <2>1, <2>2, <2>8 DEF Rings
<1>10. DraftGeometry = RingsOf(g, k)
  BY <1>1, <1>4, DraftIsForm DEF DraftForm
<1>11. DraftGeometry' = RingsOf(g, k + 1)'
  BY <1>1, <1>2, <1>4, <1>6, DraftIsFormNext DEF DraftForm, Idle, RingsOf
<1>12. RingsOf(g, k + 1)' = Append(RingsOf(g, k), <<cs>>)
  <2> DEFINE old == RingsOf(g, k)
             new == [i \in 1..((k + 1) - g) |-> PartsOf(<<g + i - 1, g + i>>)']
             n == k - g
  <2>1. /\ n \in Nat /\ (k + 1) - g = n + 1 /\ g + (n + 1) = k + 1
        /\ \A i \in 1..n : g + i \in 1..k
    BY <1>5, CountUp
  <2>2. old \in Seq(Seq(Line)) /\ Len(old) = n /\ \A i \in 1..n : old[i] = Rings(g + i)
    <3>1. old \in Seq(Seq(Line))
      BY <1>4, <1>5, RingsIsSeq
    <3>2. Len(old) = n
      BY <2>1, <3>1 DEF RingsOf
    <3> QED
      BY <1>5, <3>1, <3>2, RingsFacts
  <2>3. DOMAIN new = 1..(n + 1) /\ Listed(new, n + 1)
    BY <2>1 DEF Listed
  <2>4. \A i \in 1..(n + 1) : new[i] = Rings(g + i)'
    <3> TAKE i \in 1..(n + 1)
    <3>1. g + i - 1 = (g + i) - 1
      BY <1>5
    <3> QED
      BY <2>1, <3>1 DEF Rings
  <2>5. <<cs>> \in Seq(Line)
    BY ListIsSeq DEF Line
  <2>6. RingsOf(g, k + 1)' = new
    BY DEF RingsOf
  <2> HIDE DEF old, new, n
  <2>7. (\A i \in 1..n : new[i] = old[i]) /\ new[n + 1] = <<cs>>
    <3>1. \A i \in 1..n : new[i] = old[i]
      <4> TAKE i \in 1..n
      <4>1. i \in 1..(n + 1) /\ g + i \in 1..k
        BY <2>1
      <4>2. Rings(g + i)' = Rings(g + i)
        BY <1>8, <4>1, Zenon
      <4> QED
        BY <2>2, <2>4, <4>1, <4>2, Zenon
    <3>2. n + 1 \in 1..(n + 1)
      BY <2>1
    <3>3. Rings(g + (n + 1))' = Rings(k + 1)'
      BY <2>1
    <3> QED
      BY <1>9, <2>4, <3>1, <3>2, <3>3
  <2>8. new = Append(old, <<cs>>)
    <3> HIDE EndTypes DEF WInv
    <3>1. PICK ring, S, m, a, b : /\ ring = <<cs>> /\ S = Seq(Line) /\ m = n
                                  /\ a = old /\ b = new
      OBVIOUS
    <3>2. ring \in S /\ m \in Nat /\ a \in Seq(S) /\ Len(a) = m
      BY <2>1, <2>2, <2>5, <3>1
    <3>3. Listed(b, m + 1) /\ b[m + 1] = ring /\ \A i \in 1..m : b[i] = a[i]
      BY <2>3, <2>7, <3>1
    <3>4. b = Append(a, ring)
      BY <3>2, <3>3, BuiltByAppend
    <3> QED
      BY <3>1, <3>4
  <2> QED
    BY <2>6, <2>8 DEF old
<1>13. writer.type \in Layer!Polygons
  BY <1>1, FamilyFacts
<1> QED
  BY <1>3, <1>10, <1>11, <1>12, <1>13 DEF Layer!AddPolygon

LEMMA HoleRefines ==
  ASSUME WInv, WInv', NEW cs \in CoordLists, Hole(cs)
  PROVE  Layer!AddHole(cs)
<1>1. /\ ~Idle /\ Family[writer.type] = "polygons" /\ GroupBegun /\ writer.type \in DOMAIN Family
      /\ \E joins : joins = TRUE /\ AddPart(cs, joins)
  BY SizesAreNat DEF Hole, check_family, Start, WInv
<1>2. /\ KeptParts(Len(part_ends), Len(coords))
      /\ Kept(writer.groups, writer.parts, writer.coords)
      /\ Len(part_ends') = Len(part_ends) + 1
      /\ UNCHANGED <<property, columns, ids, types, feature_ends, writer>>
  BY <1>1, PartAdded
<1>3. /\ Layer!Writing /\ Drafted.geometry = DraftGeometry /\ Drafted.type = writer.type
      /\ Drafted' = [Drafted EXCEPT !.geometry = DraftGeometry']
  BY <1>1, <1>2, DraftGrows
<1>4. PICK g, k, m, q, p, x, y : /\ g = writer.groups /\ k = Len(group_ends) /\ m = k - 1
                                 /\ q = Len(part_ends) + 1 /\ p = Len(part_ends)
                                 /\ x = PartEnd(m) /\ y = CoordEnd(x)
  OBVIOUS
<1>5. /\ g \in 0..k /\ k \in Nat /\ p \in Nat /\ q \in Nat /\ g < k
  BY <1>1, <1>4, LevelFacts, EndTypes DEF GroupBegun, WInv
<1>6. /\ m \in Nat /\ m \in 0..k /\ k \in 1..k /\ k \in 0..k /\ m <= k /\ g <= m
  BY <1>4, <1>5
<1>7. /\ x \in 0..p /\ y \in 0..Len(coords) /\ PartEnd(k) = p
      /\ EndAt(part_ends, x, y) /\ EndAt(group_ends, m, x)
  <2>1. x \in 0..p /\ PartEnd(k) = p
    BY <1>4, <1>6, LevelFacts DEF WInv
  <2>2. y \in 0..Len(coords)
    BY <1>4, <2>1, LevelFacts DEF WInv
  <2> QED
    BY <1>4, <1>6, <2>1, <2>2 DEF EndAt, PartEnd, CoordEnd, End
<1>8. Len(group_ends') = k /\ group_ends'[k] = q /\ \A i \in 1..m : group_ends'[i] = group_ends[i]
  <2>1. group_ends' = [group_ends EXCEPT ![Len(group_ends)] = @ + 1]
    BY <1>1 DEF AddPart
  <2>2. group_ends \in Seq(Nat) /\ group_ends[k] = p
    BY <1>4, <1>5, <1>7, EndTypes DEF WInv, PartEnd, End
  <2>3. \A i \in 1..m : i \in 1..k /\ i # k
    BY <1>4, <1>5
  <2>4. k \in 1..k /\ group_ends[k] + 1 = q
    BY <1>4, <1>6, <2>2
  <2>5. DOMAIN group_ends = 1..k /\ group_ends' = [group_ends EXCEPT ![k] = @ + 1]
    BY <1>4, <2>1, <2>2, ElementOf
  <2>6. group_ends' \in Seq(Nat)
    <3>1. group_ends' = [group_ends EXCEPT ![Len(group_ends)] = q]
      BY <1>4, <2>1, <2>2, <2>4
    <3> QED
      BY <1>5, <2>2, <3>1, LastSet
  <2>7. DOMAIN group_ends' = 1..k
    BY <2>5
  <2>8. Len(group_ends') = k
    BY <1>5, <2>6, <2>7, ElementOf
  <2> QED
    BY <2>3, <2>4, <2>5, <2>8
<1>9. Kept(m, x, y)
  <2>1. /\ \A i \in 1..x : i \in 1..p
        /\ x <= p /\ p <= Len(part_ends')
    BY <1>2, <1>4, <1>5, <1>7 DEF KeptParts
  <2>2. Len(part_ends') \in Nat /\ Len(coords) \in Nat /\ Len(coords') \in Nat
    BY EndTypes, SizesAreNat DEF WInv
  <2>3. x <= Len(part_ends')
    BY <1>7, <1>5, <2>1, <2>2
  <2>4. y <= Len(coords') /\ \A i \in 1..y : i \in 1..Len(coords)
    BY <1>2, <1>7, <2>2 DEF KeptParts
  <2> QED
    BY <1>2, <1>4, <1>6, <1>7, <1>8, <2>1, <2>3, <2>4 DEF Kept, KeptParts
<1>10. \A i \in 1..m : Rings(i)' = Rings(i)
  <2> SUFFICES ASSUME NEW i \in 1..m PROVE PartsOf(<<i - 1, i>>)' = PartsOf(<<i - 1, i>>)
    BY DEF Rings
  <2>1. PICK j : j = i - 1
    OBVIOUS
  <2>2. j \in 0..m /\ i \in 0..m /\ j <= i
    BY <1>6, <2>1
  <2>3. PartsOf(<<j, i>>)' = PartsOf(<<j, i>>)
    BY <1>9, <2>2, KeptGeometry DEF WInv
  <2> QED
    BY <2>1, <2>3
<1>11. Rings(k)' = Append(Rings(k), cs)
  <2>1. m \in 0..Len(group_ends)' /\ k \in 0..Len(group_ends)' /\ m <= k /\ k = Len(group_ends')
    BY <1>4, <1>6, <1>8
  <2>2. PartsOf(<<m, k>>)' = PartList(PartEnd(m), PartEnd(k))'
    BY <2>1, ReadBackNext DEF Geometric, WInv
  <2>3. PartEnd(m)' = x
    <3>1. PartEnd(m)' = PartEnd(m)
      BY <1>6, <1>9, KeptEnds DEF WInv
    <3> QED
      BY <1>4, <3>1
  <2>4. PartEnd(k)' = q
    BY <1>5, <1>8 DEF PartEnd, End
  <2>5. PartList(PartEnd(m), PartEnd(k))' = PartList(x, q)'
    BY <2>3, <2>4 DEF PartList
  <2>6. PartList(x, q)' = Append(PartList(x, p), cs)
    BY <1>1, <1>4, <1>7, PartListGrows
  <2>7. PartsOf(<<m, k>>) = PartList(x, p)
    BY <1>4, <1>6, <1>7, ReadBack DEF Geometric, WInv
  <2> QED
    BY <1>4, <2>2, <2>5, <2>6, <2>7 DEF Rings
<1>12. DraftGeometry = RingsOf(g, k)
  BY <1>1, <1>4, DraftIsForm DEF DraftForm, WInv
<1>13. DraftGeometry' = RingsOf(g, k)'
  BY <1>1, <1>2, <1>4, <1>8, DraftIsFormNext DEF DraftForm, Idle, RingsOf, WInv
<1>14. /\ RingsOf(g, k)' = [RingsOf(g, k) EXCEPT ![k - g] = Append(@, cs)]
       /\ Len(RingsOf(g, k)) = k - g /\ RingsOf(g, k) # <<>>
  <2> DEFINE old == RingsOf(g, k)
             new == [i \in 1..(k - g) |-> PartsOf(<<g + i - 1, g + i>>)']
             n == k - g
  <2>1. /\ n \in Nat \ {0} /\ g + n = k /\ n \in 1..n
        /\ \A i \in 1..n : i # n => g + i \in 1..m
    BY <1>4, <1>5
  <2>2. DOMAIN old = 1..n /\ \A i \in 1..n : old[i] = Rings(g + i)
    BY <1>5, RingsFacts DEF RingsOf
  <2>3. DOMAIN new = 1..n /\ new = [i \in 1..n |-> new[i]]
    OBVIOUS
  <2>4. \A i \in 1..n : new[i] = Rings(g + i)'
    <3> TAKE i \in 1..n
    <3>1. g + i - 1 = (g + i) - 1
      BY <1>5
    <3> QED
      BY <3>1 DEF Rings
  <2>5. RingsOf(g, k)' = new
    BY DEF RingsOf
  <2>6. old = [i \in 1..n |-> old[i]]
    BY DEF RingsOf
  <2> HIDE DEF old, new, n
  <2>7. /\ \A i \in 1..n : i # n => new[i] = old[i]
        /\ new[n] = Append(old[n], cs)
    <3>1. Rings(g + n)' = Rings(k)' /\ Rings(g + n) = Rings(k)
      BY <2>1
    <3> QED
      BY <1>10, <1>11, <2>1, <2>2, <2>4, <3>1
  <2>8. new = [old EXCEPT ![n] = Append(@, cs)]
    BY <2>1, <2>2, <2>3, <2>7
  <2>9. Len(old) = n /\ old # <<>>
    BY <2>1, <2>2
  <2> QED
    BY <2>5, <2>8, <2>9 DEF old, n
<1>15. writer.type \in Layer!Polygons
  BY <1>1, FamilyFacts
<1> QED
  BY <1>3, <1>12, <1>13, <1>14, <1>15 DEF Layer!AddHole

-----------------------------------------------------------------------------
(* A column that is added.                                                  *)

\* A column made from a new or a spare one has no value for any feature.
LEMMA FreshColumn ==
  ASSUME NEW column \in ColumnType, NEW kind \in Kinds, NEW len \in Nat
  PROVE  LET new == Resize(Restart(column, kind), len) IN
         /\ new \in ColumnType
         /\ \A f \in 1..len : Get(new, f) = NoValue
<1> DEFINE less == Restart(column, kind)
<1>1. less \in ColumnType /\ less.kind = kind /\ Len(less.values) = 0 /\ Len(less.present) = 0
  BY RestartFacts
<1> HIDE DEF less
<1>2. Sound(less, kind)
  BY <1>1 DEF Sound
<1>3. Resize(less, len) \in ColumnType
  BY <1>2, ResizeSound DEF Sound
<1>4. \A f \in 1..len : ~(f <= Len(less.present))
  BY <1>1
<1>5. \A f \in 1..len : Get(Resize(less, len), f) = NoValue
  BY <1>2, <1>4, ResizeGet
<1> QED
  BY <1>3, <1>5 DEF less

LEMMA AddPropertyRefines ==
  ASSUME WInv, WInv', NEW name \in Names, NEW kind \in Kinds, AddProperty(name, kind)
  PROVE  Layer!AddProperty(name, kind)
<1> DEFINE popped == IF spare = <<>> THEN Column(kind) ELSE spare[Len(spare)]
           new == Resize(Restart(popped, kind), Len(ids))
<1>1. /\ Idle /\ Idle' /\ UNCHANGED <<ids, types, feature_ends, group_ends, part_ends, coords>>
      /\ \A k \in DOMAIN property : property[k].name # name
      /\ columns' = Append(columns, new)
      /\ property' = Append(property, [name |-> name, kind |-> kind])
  BY DEF AddProperty, Idle, geometry
<1>2. new \in ColumnType /\ \A f \in 1..Len(ids) : Get(new, f) = NoValue
  <2>1. popped \in ColumnType
    <3>1. Column(kind) \in ColumnType
      BY DEF Column, ColumnType
    <3>2. spare # <<>> => spare[Len(spare)] \in ColumnType
      BY DEF WInv, Types
    <3> QED
      BY <3>1, <3>2
  <2>2. Len(ids) \in Nat
    BY ColumnFacts
  <2> HIDE DEF popped
  <2> QED
    BY <2>1, <2>2, FreshColumn
<1> HIDE DEF new
<1>3. PICK n : n = Len(columns)
  OBVIOUS
<1>4. /\ n \in Nat /\ DOMAIN columns = 1..n /\ DOMAIN columns' = 1..(n + 1)
      /\ columns'[n + 1] = new /\ \A k \in 1..n : columns'[k] = columns[k]
  <2>1. columns \in Seq(ColumnType) /\ columns' \in Seq(ColumnType)
    BY DEF WInv, Types
  <2> QED
    BY <1>1, <1>2, <1>3, <2>1, AppendedFacts, ElementOf
<1>5. Kept(FinishedGroups, PartEnd(FinishedGroups), CoordEnd(PartEnd(FinishedGroups)))
  <2>1. FinishedGroups \in 0..Len(group_ends)
    BY <1>1, EndTypes DEF FinishedGroups, WInv
  <2> QED
    BY <1>1, <2>1, KeptWhole DEF WInv
<1>6. PICK p, c : Kept(FinishedGroups, p, c)
  BY <1>5
<1>7. ASSUME NEW f \in 1..Len(ids)
      PROVE  /\ types'[f] = types[f] /\ ids'[f] = ids[f] /\ PushGeometry(f)' = PushGeometry(f)
             /\ [k \in DOMAIN columns' |-> Get(columns'[k], f)] =
                  Append([k \in DOMAIN columns |-> Get(columns[k], f)], NoValue)
  <2>1. types'[f] = types[f] /\ ids'[f] = ids[f] /\ PushGeometry(f)' = PushGeometry(f)
    BY <1>1, <1>6, PushStays DEF WInv
  <2> DEFINE cells == [k \in 1..n |-> Get(columns[k], f)]
             more == [k \in 1..(n + 1) |-> Get(columns'[k], f)]
             S == {NoValue} \cup {cells[k] : k \in 1..n}
  <2>2. cells \in [1..n -> S]
    OBVIOUS
  <2>3. \A k \in 1..n : k \in 1..(n + 1)
    BY <1>4
  <2>4. n + 1 \in 1..(n + 1)
    BY <1>4
  <2>5. /\ Listed(more, n + 1)
        /\ \A k \in 1..n : more[k] = cells[k]
        /\ more[n + 1] = NoValue
    BY <1>2, <1>4, <2>3, <2>4 DEF Listed
  <2>6. NoValue \in S
    OBVIOUS
  <2>7. DOMAIN cells = 1..n
    OBVIOUS
  <2> HIDE DEF cells, more, S
  <2>8. cells \in Seq(S) /\ Len(cells) = n
    BY <1>4, <2>2, MadeSeq, ElementOf
  <2>9. more = Append(cells, NoValue)
    BY <1>4, <2>5, <2>6, <2>8, BuiltByAppend
  <2> QED
    BY <1>4, <2>1, <2>9 DEF cells, more
<1>8. Finished' = [f \in DOMAIN Finished |-> [Finished[f] EXCEPT !.values = Append(@, NoValue)]]
  <2>1. DOMAIN ids = 1..Len(ids) /\ DOMAIN ids' = DOMAIN ids
    BY <1>1, ElementOf DEF WInv, Types, TypeOK
  <2>2. /\ DOMAIN Finished = DOMAIN ids
        /\ \A f \in DOMAIN ids : Finished[f] =
             [type |-> types[f], id |-> ids[f], geometry |-> PushGeometry(f),
              values |-> [k \in DOMAIN columns |-> Get(columns[k], f)]]
    BY DEF Finished
  <2>3. Finished' = [f \in DOMAIN ids' |->
             [type |-> types'[f], id |-> ids'[f], geometry |-> PushGeometry(f)',
              values |-> [k \in DOMAIN columns' |-> Get(columns'[k], f)]]]
    BY DEF Finished
  <2>4. \A f \in DOMAIN ids : [Finished[f] EXCEPT !.values = Append(@, NoValue)] =
             [type |-> types'[f], id |-> ids'[f], geometry |-> PushGeometry(f)',
              values |-> [k \in DOMAIN columns' |-> Get(columns'[k], f)]]
    <3> TAKE f \in DOMAIN ids
    <3>1. PICK old, longer : /\ old = [k \in DOMAIN columns |-> Get(columns[k], f)]
                             /\ longer = [k \in DOMAIN columns' |-> Get(columns'[k], f)]
      OBVIOUS
    <3>2. /\ types'[f] = types[f] /\ ids'[f] = ids[f] /\ PushGeometry(f)' = PushGeometry(f)
          /\ longer = Append(old, NoValue)
      BY <1>7, <2>1, <3>1
    <3>3. Finished[f] = [type |-> types[f], id |-> ids[f], geometry |-> PushGeometry(f), values |-> old]
      BY <2>2, <3>1
    <3>4. [Finished[f] EXCEPT !.values = Append(@, NoValue)] =
            [type |-> types[f], id |-> ids[f], geometry |-> PushGeometry(f), values |-> Append(old, NoValue)]
      BY <3>3
    <3> QED
      BY <3>1, <3>2, <3>4
  <2> QED
    BY <2>1, <2>2, <2>3, <2>4
<1>9. Drafted = NoDraft /\ Drafted' = NoDraft
  BY <1>1 DEF Drafted
<1> QED
  BY <1>1, <1>8, <1>9 DEF Layer!AddProperty

-----------------------------------------------------------------------------
(* A feature that is finished.                                              *)

\* What finish accepts has as many parts as its type says.
LEMMA ValidIsWellFormed ==
  ASSUME WInv, ~Idle, Valid
  PROVE  Layer!WellFormed(Drafted)
<1>1. Drafted.type = writer.type /\ Drafted.geometry = DraftGeometry /\ writer.type \in DOMAIN Family
  BY DraftParts, SizesAreNat DEF Start, WInv
<1>2. CASE writer.type = "Point"
  <2>1. Len(coords) - writer.coords = 1
    BY <1>2 DEF Valid
  <2>2. DraftGeometry = SubSeq(coords, writer.coords + 1, Len(coords))
    BY <1>2, DraftIsForm DEF DraftForm, Family, Slice, WInv
  <2>3. coords \in Seq(Coordinate) /\ writer.coords \in 0..Len(coords)
    BY EndTypes DEF WInv, Types, EndsInv, CutBack
  <2> QED
    BY <1>1, <2>1, <2>2, <2>3 DEF Layer!WellFormed
<1>3. CASE writer.type = "LineString"
  <2>1. Len(part_ends) - writer.parts = 1
    BY <1>3 DEF Valid
  <2>2. DraftGeometry = PartList(writer.parts, Len(part_ends))
    BY <1>3, DraftIsForm DEF DraftForm, Family, WInv
  <2> QED
    BY <1>1, <2>1, <2>2 DEF Layer!WellFormed, PartList
<1>4. CASE writer.type = "Polygon"
  <2>1. Len(group_ends) - writer.groups = 1
    BY <1>4 DEF Valid
  <2>2. DraftGeometry = RingsOf(writer.groups, Len(group_ends))
    BY <1>4, DraftIsForm DEF DraftForm, Family, WInv
  <2> QED
    BY <1>1, <2>1, <2>2 DEF Layer!WellFormed, RingsOf
<1> QED
  BY <1>1, <1>2, <1>3, <1>4 DEF Layer!WellFormed, Layer!Single

\* A finished feature reads back as it was drafted.
LEMMA FinishedReadsBack ==
  ASSUME WInv, WInv', ~Idle, Valid, Finish, NEW n, n = Len(ids)
  PROVE  PushGeometry(n + 1)' = DraftGeometry
<1>1. PICK g, k, type : g = writer.groups /\ k = Len(group_ends) /\ type = writer.type
  OBVIOUS
<1>2. /\ UNCHANGED <<group_ends, part_ends, coords>>
      /\ feature_ends' = Append(feature_ends, k) /\ types' = Append(types, type)
  BY <1>1 DEF Finish
<1>3. /\ n \in Nat /\ Len(feature_ends) = n /\ Len(types) = n
      /\ feature_ends \in Seq(Nat) /\ types \in Seq(DOMAIN Family)
      /\ g = (IF n = 0 THEN 0 ELSE feature_ends[n])
  BY <1>1, EndTypes DEF WInv, EndsInv, EndAt, Types, TypeOK
<1>4. g \in 0..k /\ k \in 0..k /\ k \in Nat /\ g <= k /\ type \in DOMAIN Family
  BY <1>1, LevelFacts, EndTypes, SizesAreNat DEF WInv, Start
<1>5. types'[n + 1] = type
  BY <1>2, <1>3, <1>4, AppendedFacts
<1>6. Groups(n + 1)' = <<g, k>>
  <2>1. feature_ends'[n + 1] = k /\ \A i \in 1..n : feature_ends'[i] = feature_ends[i]
    BY <1>2, <1>3, <1>4, AppendedFacts
  <2>2. (n + 1) - 1 = n /\ (n + 1 = 1 <=> n = 0) /\ (n # 0 => n \in 1..n)
    BY <1>3
  <2>3. Groups(n + 1)' = <<IF n + 1 = 1 THEN 0 ELSE feature_ends'[(n + 1) - 1], feature_ends'[n + 1]>>
    BY DEF Groups, ItemRange
  <2> QED
    BY <1>3, <2>1, <2>2, <2>3
<1>7. PICK p, c : Kept(k, p, c)
  BY <1>1, <1>2, <1>4, KeptWhole DEF WInv
<1>8. /\ PartsOf(<<g, k>>)' = PartsOf(<<g, k>>)
      /\ GeometryOf(type, <<g, k>>)' = GeometryOf(type, <<g, k>>)
  BY <1>4, <1>7, KeptGeometry DEF WInv
<1>9. PushGeometry(n + 1)' = IF type = "Polygon" THEN <<PartsOf(<<g, k>>)>> ELSE GeometryOf(type, <<g, k>>)
  BY <1>5, <1>6, <1>8 DEF PushGeometry
<1>10. ASSUME type = "Polygon"
       PROVE  DraftGeometry = <<PartsOf(<<g, k>>)>>
  <2>1. k - g = 1 /\ g + 1 - 1 = g /\ g + 1 = k
    BY <1>1, <1>4, <1>10 DEF Valid
  <2>2. DraftGeometry = [i \in 1..1 |-> PartsOf(<<g + i - 1, g + i>>)]
    BY <1>1, <1>10, <2>1, DraftIsForm DEF DraftForm, Family, RingsOf, WInv
  <2>3. PartsOf(<<g + 1 - 1, g + 1>>) = PartsOf(<<g, k>>)
    BY <2>1
  <2>4. \A i \in 1..1 : i = 1
    OBVIOUS
  <2> QED
    BY <2>2, <2>3, <2>4
<1> QED
  BY <1>1, <1>9, <1>10 DEF DraftGeometry

LEMMA FinishRefines ==
  ASSUME WInv, WInv', Finish
  PROVE  Layer!Finish \/ Layer!Discard
<1>1. ~Idle
  BY DEF Finish
<1>2. CASE ~Valid
  BY <1>1, <1>2, RewindRefines DEF Finish
<1>3. CASE Valid
  <2>1. PICK n : n = Len(ids)
    OBVIOUS
  <2>2. /\ UNCHANGED <<property, group_ends, part_ends, coords>> /\ Idle'
        /\ feature_ends' = Append(feature_ends, Len(group_ends))
        /\ types' = Append(types, writer.type) /\ ids' = Append(ids, writer.id)
        /\ columns' = [k \in DOMAIN columns |-> Resize(columns[k], n + 1)]
    BY <1>3, <2>1 DEF Finish, Idle
  <2>3. /\ n \in Nat /\ DOMAIN ids = 1..n /\ DOMAIN ids' = 1..(n + 1)
        /\ \A f \in 1..n : ids'[f] = ids[f] /\ types'[f] = types[f] /\ feature_ends'[f] = feature_ends[f]
        /\ ids'[n + 1] = writer.id /\ types'[n + 1] = writer.type
    <3>1. /\ ids \in Seq(Ids \cup {NoId}) /\ types \in Seq(DOMAIN Family) /\ feature_ends \in Seq(Nat)
          /\ Len(types) = n /\ Len(feature_ends) = n
          /\ writer.id \in Ids \cup {NoId} /\ writer.type \in DOMAIN Family /\ Len(group_ends) \in Nat
      BY <1>1, <2>1, EndTypes, SizesAreNat DEF WInv, Types, TypeOK, EndsInv, Start
    <3>2. /\ n \in Nat /\ DOMAIN ids = 1..n /\ DOMAIN ids' = 1..(n + 1)
          /\ \A f \in 1..n : ids'[f] = ids[f]
          /\ ids'[n + 1] = writer.id
      BY <2>1, <2>2, <3>1, AppendedFacts, ElementOf
    <3>3. types'[n + 1] = writer.type /\ \A f \in 1..n : types'[f] = types[f]
      BY <2>2, <3>1, AppendedFacts
    <3>4. \A f \in 1..n : feature_ends'[f] = feature_ends[f]
      BY <2>2, <3>1, AppendedFacts
    <3> QED
      BY <3>2, <3>3, <3>4
  <2>4. /\ DOMAIN columns' = DOMAIN columns
        /\ \A k \in DOMAIN columns : \A f \in 1..n : Get(columns'[k], f) = Get(columns[k], f)
        /\ \A k \in DOMAIN columns : Get(columns'[k], n + 1) = DraftCells[k]
    <3>1. ASSUME NEW k \in DOMAIN columns
          PROVE  /\ \A f \in 1..n : Get(Resize(columns[k], n + 1), f) = Get(columns[k], f)
                 /\ Get(Resize(columns[k], n + 1), n + 1) = DraftCells[k]
      <4>1. PICK m : m = Len(columns[k].present)
        OBVIOUS
      <4>2. Sound(columns[k], property[k].kind) /\ m \in Nat /\ n <= m /\ m \in n..(n + 1)
        BY <2>1, <4>1, ColumnFacts
      <4>3. /\ n + 1 \in Nat /\ n + 1 \in 1..(n + 1) /\ (m > n <=> n + 1 <= m)
            /\ \A f \in 1..n : f \in 1..(n + 1) /\ f <= m
        BY <2>3, <4>2
      <4>4. \A f \in 1..n : Get(Resize(columns[k], n + 1), f) = Get(columns[k], f)
        BY <4>1, <4>2, <4>3, ResizeGet
      <4>5. /\ n + 1 <= m => Get(Resize(columns[k], n + 1), n + 1) = Get(columns[k], n + 1)
            /\ ~(n + 1 <= m) => Get(Resize(columns[k], n + 1), n + 1) = NoValue
        BY <4>1, <4>2, <4>3, ResizeGet
      <4>6. DraftCells[k] = IF m > n THEN Get(columns[k], n + 1) ELSE NoValue
        BY <2>1, <4>1 DEF DraftCells
      <4> QED
        BY <4>3, <4>4, <4>5, <4>6
    <3> QED
      BY <2>2, <3>1
  <2>5. PICK p, c : Kept(FinishedGroups, p, c)
    <3>1. FinishedGroups \in 0..Len(group_ends)
      BY <1>1, LevelFacts DEF FinishedGroups, WInv
    <3> QED
      BY <2>2, <3>1, KeptWhole DEF WInv
  <2>6. \A f \in 1..n : PushGeometry(f)' = PushGeometry(f)
    <3> TAKE f \in 1..n
    <3>1. f \in 1..Len(ids) /\ \A i \in 1..f : i \in 1..n
      BY <2>1, <2>3
    <3> QED
      BY <2>3, <2>5, <3>1, PushStays DEF WInv
  <2>7. PushGeometry(n + 1)' = DraftGeometry
    BY <1>1, <1>3, <2>1, FinishedReadsBack
  <2>8. Finished' = Append(Finished, Drafted)
    <3> DEFINE new == [f \in 1..(n + 1) |->
                         [type |-> types'[f], id |-> ids'[f], geometry |-> PushGeometry(f)',
                          values |-> [k \in DOMAIN columns' |-> Get(columns'[k], f)]]]
               S == {Drafted} \cup {Finished[f] : f \in 1..n}
    <3>1. Finished' = new
      BY <2>3 DEF Finished
    <3>2. \A f \in 1..n : f \in 1..(n + 1)
      BY <2>3
    <3>3. n + 1 \in 1..(n + 1)
      BY <2>3
    <3>4. /\ DOMAIN Finished = 1..n
          /\ \A f \in 1..n : Finished[f] =
               [type |-> types[f], id |-> ids[f], geometry |-> PushGeometry(f),
                values |-> [k \in DOMAIN columns |-> Get(columns[k], f)]]
          /\ Finished = [f \in 1..n |-> Finished[f]]
      BY <2>3 DEF Finished
    <3>5. \A f \in 1..n : new[f] = Finished[f]
      BY <2>3, <2>4, <2>6, <3>2, <3>4
    <3>6. new[n + 1] = Drafted
      <4>1. [k \in DOMAIN columns' |-> Get(columns'[k], n + 1)] = DraftCells
        BY <2>4 DEF DraftCells
      <4> QED
        BY <1>1, <2>3, <2>7, <3>3, <4>1, DraftParts
    <3>7. Listed(new, n + 1)
      BY DEF Listed
    <3> HIDE DEF new
    <3>8. Drafted \in S /\ Finished \in [1..n -> S]
      BY <3>4
    <3> HIDE DEF S
    <3>9. Finished \in Seq(S) /\ Len(Finished) = n
      BY <2>3, <3>4, <3>8, MadeSeq, ElementOf
    <3>10. new = Append(Finished, Drafted)
      BY <2>3, <3>5, <3>6, <3>7, <3>8, <3>9, BuiltByAppend
    <3> QED
      BY <3>1, <3>10
  <2>9. Drafted # NoDraft /\ Drafted' = NoDraft /\ Layer!WellFormed(Drafted)
    BY <1>1, <1>3, <2>2, DraftIsDraft, ValidIsWellFormed DEF Drafted
  <2> QED
    BY <2>2, <2>8, <2>9 DEF Layer!Finish
<1> QED
  BY <1>2, <1>3

-----------------------------------------------------------------------------
(* The refinement.                                                          *)

LEMMA RefinesInit == Init => Layer!Init
<1> SUFFICES ASSUME Init PROVE Layer!Init
  OBVIOUS
<1>1. Finished = <<>> /\ Drafted = NoDraft
  BY DEF Init, Finished, Drafted, Idle
<1> QED
  BY <1>1 DEF Init, Layer!Init

LEMMA SameLayer ==
  ASSUME WInv, WInv', UNCHANGED vars
  PROVE  UNCHANGED Layer!vars
<1>1. GeometryStays /\ UNCHANGED <<property, columns, writer>> /\ (Idle' <=> Idle)
  BY DEF vars, geometry, GeometryStays, Idle
<1>2. Finished' = Finished /\ (~Idle => DraftGeometry' = DraftGeometry)
  BY <1>1, SameGeometry DEF WInv
<1>3. DraftCells' = DraftCells
  BY <1>1 DEF DraftCells, GeometryStays
<1>4. Drafted' = Drafted
  <2>1. CASE Idle
    BY <1>1, <2>1 DEF Drafted
  <2>2. CASE ~Idle
    BY <1>1, <1>2, <1>3, <2>2, DraftParts, DraftPartsNext
  <2> QED
    BY <2>1, <2>2
<1> QED
  BY <1>1, <1>2, <1>4 DEF Layer!vars

LEMMA RefinesStep ==
  ASSUME WInv, WInv', [Next]_vars
  PROVE  [Layer!Next]_(Layer!vars)
<1>1. ASSUME Reset
      PROVE  Layer!Next
  BY <1>1, ResetRefines DEF Layer!Next
<1>2. ASSUME NEW name \in Names, NEW kind \in Kinds, AddProperty(name, kind)
      PROVE  Layer!Next
  BY <1>2, AddPropertyRefines DEF Layer!Next
<1>3. ASSUME NEW type \in DOMAIN Family, Feature(type)
      PROVE  Layer!Next
  BY <1>3, BeginRefines, FamilyFacts DEF Layer!Next
<1>4. ASSUME NEW id \in Ids \cup {NoId}, SetId(id)
      PROVE  Layer!Next
  BY <1>4, SetIdRefines DEF Layer!Next
<1>5. ASSUME NEW k \in DOMAIN property, NEW value \in ValuesOf[property[k].kind], SetProperty(k, value)
      PROVE  Layer!Next
  BY <1>5, SetPropertyRefines DEF Layer!Next
<1>6. ASSUME NEW cs \in CoordLists, AddPoints(cs) \/ AddLine(cs) \/ ExteriorRing(cs) \/ Hole(cs)
      PROVE  Layer!Next
  <2>1. Layer!AddPoints(cs) \/ Layer!AddLine(cs) \/ Layer!AddPolygon(cs) \/ Layer!AddHole(cs)
    BY <1>6, AddPointsRefines, AddLineRefines, ExteriorRefines, HoleRefines
  <2> QED
    BY <2>1 DEF Layer!Next
<1>7. ASSUME Discard \/ Overflow
      PROVE  Layer!Next
  BY <1>7, RewindRefines DEF Discard, Overflow, Layer!Next
<1>8. ASSUME Finish
      PROVE  Layer!Next
  BY <1>8, FinishRefines DEF Layer!Next
<1>9. ASSUME UNCHANGED vars
      PROVE  UNCHANGED Layer!vars
  BY <1>9, SameLayer
<1> QED
  BY <1>1, <1>2, <1>3, <1>4, <1>5, <1>6, <1>7, <1>8, <1>9 DEF Next

\* The layer reads back as the table of the finished features: a property that
\* is added late shows no value for them, a feature that is finished joins with
\* what was given to it, and one that is dropped, refused by finish or cut off
\* by an overflow leaves no trace.
THEOREM LayerRefines == Spec => LayerSpec
<1>1. Init => Layer!Init
  BY RefinesInit
<1>2. WInv /\ WInv' /\ [Next]_vars => [Layer!Next]_(Layer!vars)
  BY RefinesStep
<1> QED
  BY <1>1, <1>2, WInvAlways, PTL DEF Spec, LayerSpec, Layer!Spec
=============================================================================
