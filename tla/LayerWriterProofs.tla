------------------------- MODULE LayerWriterProofs -------------------------
(***************************************************************************)
(* The safety of LayerWriter for every set of names, kinds, values, ids and  *)
(* coordinate lists and every bound.  See README.md for the argument.       *)
(***************************************************************************)
EXTENDS LayerWriter, TLAPS

-----------------------------------------------------------------------------
(* What is inductive.                                                       *)

Value == {Default} \cup UNION {ValuesOf[kind] : kind \in Kinds}
Flags == BOOLEAN
ColumnType == [kind : Kinds, values : Seq(Value), present : Seq(Flags)]

Types ==
    /\ TypeOK
    /\ columns \in Seq(ColumnType) /\ spare \in Seq(ColumnType)
    /\ coords \in Seq(Coordinate)

Rising(ends) == \A i, j \in 1..Len(ends) : i <= j => ends[i] <= ends[j]

\* The first m ends cover n items.
EndAt(ends, m, n) == m \in 0..Len(ends) /\ n = IF m = 0 THEN 0 ELSE ends[m]

\* What a dropped feature is cut back to; a group has at least one part.
CutBack ==
    ~Idle =>
        /\ EndAt(group_ends, writer.groups, writer.parts)
        /\ EndAt(part_ends, writer.parts, writer.coords)
        /\ GroupBegun => Len(part_ends) > writer.parts
        /\ writer.coords <= Len(coords)

EndsInv ==
    /\ Rising(part_ends) /\ EndAt(part_ends, Len(part_ends), Len(coords))
    /\ Rising(group_ends) /\ EndAt(group_ends, Len(group_ends), Len(part_ends))
    /\ Rising(feature_ends)
    /\ EndAt(feature_ends, Len(feature_ends), IF Idle THEN Len(group_ends) ELSE writer.groups)
    /\ Len(feature_ends) = Len(ids) /\ Len(types) = Len(ids)
    /\ CutBack

WInv == Types /\ EndsInv /\ ColumnsAligned

-----------------------------------------------------------------------------
(* Lists.                                                                   *)

LEMMA AppendedFacts ==
  ASSUME NEW S, NEW s \in Seq(S), NEW x \in S
  PROVE  /\ Append(s, x) \in Seq(S)
         /\ Len(s) \in Nat /\ Len(Append(s, x)) = Len(s) + 1
         /\ \A i \in 1..Len(s) : Append(s, x)[i] = s[i]
         /\ Append(s, x)[Len(s) + 1] = x
  OBVIOUS

LEMMA LastSet ==
  ASSUME NEW S, NEW s \in Seq(S), NEW x, Len(s) # 0 => x \in S
  PROVE  [s EXCEPT ![Len(s)] = x] \in Seq(S)
<1> DEFINE new == [s EXCEPT ![Len(s)] = x]
<1>1. Len(s) \in Nat /\ s \in [1..Len(s) -> S]
  OBVIOUS
<1>2. new \in [1..Len(s) -> S]
  <2>1. CASE Len(s) = 0
    <3>1. Len(s) \notin 1..Len(s)
      BY <2>1
    <3> QED
      BY <1>1, <3>1
  <2>2. CASE Len(s) # 0
    BY <1>1, <2>2
  <2> QED
    BY <2>1, <2>2
<1> HIDE DEF new
<1>3. new \in Seq(S)
  BY <1>1, <1>2
<1> QED
  BY <1>3 DEF new

LEMMA ElementOf ==
  ASSUME NEW S, NEW s \in Seq(S)
  PROVE  /\ Len(s) \in Nat /\ DOMAIN s = 1..Len(s)
         /\ \A i \in DOMAIN s : s[i] \in S
  OBVIOUS

LEMMA TruncatedFacts ==
  ASSUME NEW S, NEW s \in Seq(S), NEW len \in Nat
  PROVE  /\ Truncated(s, len) \in Seq(S)
         /\ Len(Truncated(s, len)) = IF len < Len(s) THEN len ELSE Len(s)
         /\ \A i \in 1..Len(Truncated(s, len)) : Truncated(s, len)[i] = s[i]
  BY DEF Truncated

LEMMA ResizedFacts ==
  ASSUME NEW S, NEW s \in Seq(S), NEW len \in Nat, NEW fill \in S
  PROVE  /\ Resized(s, len, fill) \in Seq(S)
         /\ Len(Resized(s, len, fill)) = len
         /\ \A i \in 1..len : i <= Len(s) => Resized(s, len, fill)[i] = s[i]
         /\ \A i \in 1..len : ~(i <= Len(s)) => Resized(s, len, fill)[i] = fill
<1>1. \A i \in 1..len : (IF i <= Len(s) THEN s[i] ELSE fill) \in S
  OBVIOUS
<1> QED
  BY <1>1 DEF Resized

LEMMA RisingAppend ==
  ASSUME NEW ends \in Seq(Nat), NEW n \in Nat, NEW x \in Nat,
         Rising(ends), EndAt(ends, Len(ends), n), n <= x
  PROVE  /\ Rising(Append(ends, x)) /\ EndAt(Append(ends, x), Len(ends) + 1, x)
         /\ \A m, k \in Nat : EndAt(ends, m, k) => EndAt(Append(ends, x), m, k)
<1> DEFINE more == Append(ends, x)
<1>1. /\ Len(ends) \in Nat /\ Len(more) = Len(ends) + 1
      /\ \A i \in 1..Len(ends) : more[i] = ends[i] /\ ends[i] \in Nat
      /\ more[Len(ends) + 1] = x
  OBVIOUS
<1> HIDE DEF more
<1>2. Rising(more)
  <2> SUFFICES ASSUME NEW i \in 1..Len(more), NEW j \in 1..Len(more), i <= j
               PROVE  more[i] <= more[j]
    BY DEF Rising
  <2>1. \A k \in 1..Len(ends) : ends[k] <= x
    <3> TAKE k \in 1..Len(ends)
    <3>1. Len(ends) \in 1..Len(ends) /\ ends[k] <= ends[Len(ends)] /\ ends[Len(ends)] = n
      BY <1>1 DEF Rising, EndAt
    <3> QED
      BY <1>1, <3>1
  <2>2. CASE j \in 1..Len(ends)
    BY <1>1, <2>2 DEF Rising
  <2>3. CASE j = Len(ends) + 1
    BY <1>1, <2>1, <2>3
  <2> QED
    BY <1>1, <2>2, <2>3
<1>3. EndAt(more, Len(ends) + 1, x)
  BY <1>1 DEF EndAt
<1>4. \A m, k \in Nat : EndAt(ends, m, k) => EndAt(more, m, k)
  BY <1>1 DEF EndAt
<1> QED
  BY <1>2, <1>3, <1>4 DEF more

LEMMA RisingRaise ==
  ASSUME NEW ends \in Seq(Nat), NEW n \in Nat, NEW x \in Nat, Len(ends) # 0,
         Rising(ends), EndAt(ends, Len(ends), n), n <= x
  PROVE  LET more == [ends EXCEPT ![Len(ends)] = x] IN
         /\ more \in Seq(Nat) /\ Len(more) = Len(ends)
         /\ Rising(more) /\ EndAt(more, Len(ends), x)
         /\ \A m, k \in Nat : m < Len(ends) /\ EndAt(ends, m, k) => EndAt(more, m, k)
<1> DEFINE more == [ends EXCEPT ![Len(ends)] = x]
<1>1. /\ Len(ends) \in Nat \ {0} /\ more \in Seq(Nat) /\ Len(more) = Len(ends)
      /\ \A i \in 1..(Len(ends) - 1) : more[i] = ends[i] /\ ends[i] \in Nat
      /\ more[Len(ends)] = x
  OBVIOUS
<1> HIDE DEF more
<1>2. ends[Len(ends)] = n
  BY DEF EndAt
<1>3. Rising(more)
  <2> SUFFICES ASSUME NEW i \in 1..Len(ends), NEW j \in 1..Len(ends), i <= j
               PROVE  more[i] <= more[j]
    BY <1>1 DEF Rising
  <2>1. ends[i] <= ends[j] /\ ends[i] <= n
    <3>1. Len(ends) \in 1..Len(ends)
      BY <1>1
    <3> QED
      BY <1>2, <3>1 DEF Rising
  <2>2. CASE j = Len(ends)
    <3>1. more[j] = x /\ (i \in 1..(Len(ends) - 1) \/ i = j)
      BY <1>1, <2>2
    <3>2. ends[i] \in Nat
      OBVIOUS
    <3> QED
      BY <1>1, <2>1, <3>1, <3>2
  <2>3. CASE j # Len(ends)
    <3>1. i \in 1..(Len(ends) - 1) /\ j \in 1..(Len(ends) - 1)
      BY <1>1, <2>3
    <3> QED
      BY <1>1, <2>1, <3>1
  <2> QED
    BY <2>2, <2>3
<1>4. EndAt(more, Len(ends), x)
  BY <1>1 DEF EndAt
<1>5. \A m, k \in Nat : m < Len(ends) /\ EndAt(ends, m, k) => EndAt(more, m, k)
  <2> TAKE m, k \in Nat
  <2>1. m < Len(ends) /\ m # 0 => m \in 1..(Len(ends) - 1)
    BY <1>1
  <2> QED
    BY <1>1, <2>1 DEF EndAt
<1> QED
  BY <1>1, <1>3, <1>4, <1>5 DEF more

LEMMA RisingTruncate ==
  ASSUME NEW ends \in Seq(Nat), NEW m \in Nat, NEW n \in Nat, Rising(ends), EndAt(ends, m, n)
  PROVE  LET less == Truncated(ends, m) IN
         less \in Seq(Nat) /\ Len(less) = m /\ Rising(less) /\ EndAt(less, m, n)
<1> DEFINE less == Truncated(ends, m)
<1>1. /\ less \in Seq(Nat) /\ Len(less) = m /\ m <= Len(ends)
      /\ \A i \in 1..m : less[i] = ends[i]
  BY TruncatedFacts DEF EndAt
<1> HIDE DEF less
<1>2. Rising(less)
  <2> SUFFICES ASSUME NEW i \in 1..m, NEW j \in 1..m, i <= j PROVE less[i] <= less[j]
    BY <1>1 DEF Rising
  <2>1. i \in 1..Len(ends) /\ j \in 1..Len(ends)
    BY <1>1
  <2> QED
    BY <1>1, <2>1 DEF Rising
<1>3. EndAt(less, m, n)
  <2>1. m # 0 => m \in 1..m
    OBVIOUS
  <2> QED
    BY <1>1, <2>1 DEF EndAt
<1> QED
  BY <1>1, <1>2, <1>3 DEF less

-----------------------------------------------------------------------------
(* Columns.                                                                 *)

LEMMA ResizeFacts ==
  ASSUME NEW column \in ColumnType, NEW len \in Nat
  PROVE  LET new == Resize(column, len) IN
         /\ new \in ColumnType /\ new.kind = column.kind
         /\ Len(new.values) = len /\ Len(new.present) = len
         /\ \A f \in 1..len :
               /\ f <= Len(column.values) => new.values[f] = column.values[f]
               /\ new.present[f] <=> f <= Len(column.present) /\ column.present[f]
<1> DEFINE values == Resized(column.values, len, Default)
           present == Resized(column.present, len, FALSE)
<1>1. column.values \in Seq(Value) /\ column.present \in Seq(Flags) /\ column.kind \in Kinds
  BY DEF ColumnType
<1>2. Default \in Value /\ FALSE \in Flags
  BY DEF Value, Flags
<1>3. values \in Seq(Value) /\ present \in Seq(Flags)
  <2>1. values \in Seq(Value)
    BY <1>1, <1>2, ResizedFacts
  <2>2. present \in Seq(Flags)
    BY <1>1, <1>2, ResizedFacts, Zenon
  <2> QED
    BY <2>1, <2>2
<1>4. Len(values) = len /\ Len(present) = len
  BY DEF Resized
<1>5. \A f \in 1..len : f <= Len(column.values) => values[f] = column.values[f]
  BY DEF Resized
<1>6. \A f \in 1..len : present[f] <=> f <= Len(column.present) /\ column.present[f]
  BY DEF Resized
<1>7. Resize(column, len) = [column EXCEPT !.values = values, !.present = present]
  BY DEF Resize
<1> HIDE DEF values, present
<1>8. Resize(column, len) = [kind |-> column.kind, values |-> values, present |-> present]
  BY <1>7 DEF ColumnType
<1> QED
  BY <1>1, <1>3, <1>4, <1>5, <1>6, <1>8 DEF ColumnType

LEMMA TruncateFacts ==
  ASSUME NEW column \in ColumnType, NEW len \in Nat
  PROVE  LET new == Truncate(column, len) IN
         /\ new \in ColumnType /\ new.kind = column.kind
         /\ Len(new.values) = IF len < Len(column.values) THEN len ELSE Len(column.values)
         /\ Len(new.present) = IF len < Len(column.present) THEN len ELSE Len(column.present)
         /\ \A f \in 1..Len(new.values) : new.values[f] = column.values[f]
         /\ \A f \in 1..Len(new.present) : new.present[f] = column.present[f]
<1> DEFINE values == Truncated(column.values, len)
           present == Truncated(column.present, len)
<1>1. column.values \in Seq(Value) /\ column.present \in Seq(Flags) /\ column.kind \in Kinds
  BY DEF ColumnType
<1>2. /\ values \in Seq(Value)
      /\ Len(values) = IF len < Len(column.values) THEN len ELSE Len(column.values)
      /\ \A f \in 1..Len(values) : values[f] = column.values[f]
  BY <1>1, TruncatedFacts
<1>3. /\ present \in Seq(Flags)
      /\ Len(present) = IF len < Len(column.present) THEN len ELSE Len(column.present)
      /\ \A f \in 1..Len(present) : present[f] = column.present[f]
  BY <1>1, TruncatedFacts
<1>4. Truncate(column, len) = [column EXCEPT !.values = values, !.present = present]
  BY DEF Truncate
<1> HIDE DEF values, present
<1>5. Truncate(column, len) = [kind |-> column.kind, values |-> values, present |-> present]
  BY <1>4 DEF ColumnType
<1> QED
  BY <1>1, <1>2, <1>3, <1>5 DEF ColumnType

LEMMA RestartFacts ==
  ASSUME NEW column \in ColumnType, NEW kind \in Kinds
  PROVE  LET new == Restart(column, kind) IN
         /\ new \in ColumnType /\ new.kind = kind
         /\ Len(new.values) = 0 /\ Len(new.present) = 0
<1> DEFINE less == Truncate(column, 0)
<1>1. less \in ColumnType /\ Len(less.values) = 0 /\ Len(less.present) = 0
  <2>1. Len(column.values) \in Nat /\ Len(column.present) \in Nat
    BY DEF ColumnType
  <2> QED
    BY <2>1, TruncateFacts
<1>2. Restart(column, kind) = [less EXCEPT !.kind = kind]
  BY DEF Restart
<1> HIDE DEF less
<1> QED
  BY <1>1, <1>2 DEF ColumnType

\* A value joins the entry of the feature being written.
LEMMA SetFacts ==
  ASSUME NEW column \in ColumnType, NEW n \in Nat, NEW value \in Value,
         Len(column.values) = Len(column.present), Len(column.present) \in n..(n + 1)
  PROVE  LET new == Set(column, n + 1, value) IN
         /\ new \in ColumnType /\ new.kind = column.kind
         /\ Len(new.values) = n + 1 /\ Len(new.present) = n + 1
         /\ \A f \in 1..n : new.values[f] = column.values[f] /\ (new.present[f] <=> column.present[f])
         /\ new.values[n + 1] = value /\ new.present[n + 1]
<1> DEFINE wide == IF n + 1 > Len(column.present) THEN Resize(column, n + 1) ELSE column
<1>1. /\ wide \in ColumnType /\ wide.kind = column.kind
      /\ Len(wide.values) = n + 1 /\ Len(wide.present) = n + 1
      /\ \A f \in 1..n : wide.values[f] = column.values[f] /\ (wide.present[f] <=> column.present[f])
  <2>1. CASE Len(column.present) = n
    <3> DEFINE new == Resize(column, n + 1)
    <3>1. /\ new \in ColumnType /\ new.kind = column.kind
          /\ Len(new.values) = n + 1 /\ Len(new.present) = n + 1
          /\ \A f \in 1..(n + 1) :
                /\ f <= Len(column.values) => new.values[f] = column.values[f]
                /\ new.present[f] <=> f <= Len(column.present) /\ column.present[f]
      <4>1. n + 1 \in Nat
        OBVIOUS
      <4> HIDE DEF new
      <4>2. \A len \in Nat : LET r == Resize(column, len) IN
               /\ r \in ColumnType /\ r.kind = column.kind
               /\ Len(r.values) = len /\ Len(r.present) = len
               /\ \A f \in 1..len :
                     /\ f <= Len(column.values) => r.values[f] = column.values[f]
                     /\ r.present[f] <=> f <= Len(column.present) /\ column.present[f]
        BY ResizeFacts, Zenon
      <4> QED
        BY <4>1, <4>2, Zenon DEF new
    <3>3. wide = new
      BY <2>1
    <3> HIDE DEF new, wide
    <3> QED
      BY <2>1, <3>1, <3>3
  <2>2. CASE Len(column.present) = n + 1
    BY <2>2
  <2> QED
    BY <2>1, <2>2
<1>2. Set(column, n + 1, value) = [wide EXCEPT !.values[n + 1] = value, !.present[n + 1] = TRUE]
  BY DEF Set
<1> HIDE DEF wide
<1> DEFINE values == [wide.values EXCEPT ![n + 1] = value]
           present == [wide.present EXCEPT ![n + 1] = TRUE]
<1>3. wide.values \in Seq(Value) /\ wide.present \in Seq(Flags) /\ wide.kind \in Kinds
  BY <1>1 DEF ColumnType
<1>4. /\ values \in Seq(Value) /\ Len(values) = n + 1
      /\ \A f \in 1..n : values[f] = wide.values[f]
      /\ values[n + 1] = value
  BY <1>1, <1>3
<1>5. /\ present \in Seq(Flags) /\ Len(present) = n + 1
      /\ \A f \in 1..n : present[f] <=> wide.present[f]
      /\ present[n + 1]
  <2>1. TRUE \in Flags
    BY DEF Flags
  <2>2. \A flag \in Flags : LET new == [wide.present EXCEPT ![n + 1] = flag] IN
           /\ new \in Seq(Flags) /\ Len(new) = n + 1
           /\ \A f \in 1..n : new[f] = wide.present[f]
    BY <1>1, <1>3
  <2>3. present[n + 1]
    BY <1>1, <1>3
  <2> QED
    BY <2>1, <2>2, <2>3, Zenon
<1>6. Set(column, n + 1, value) = [kind |-> wide.kind, values |-> values, present |-> present]
  BY <1>1, <1>2 DEF ColumnType
<1> HIDE DEF values, present
<1> QED
  BY <1>1, <1>3, <1>4, <1>5, <1>6 DEF ColumnType

-----------------------------------------------------------------------------
(* Each step keeps the types.                                               *)

LEMMA ListIsSeq ==
  ASSUME NEW cs \in CoordLists
  PROVE  cs \in Seq(Coordinate)
<1>1. cs \in Seq({cs[i] : i \in DOMAIN cs})
  BY WriterAssumption
<1>2. \A i \in DOMAIN cs : cs[i] \in Coordinate
  BY DEF Coordinate
<1> QED
  BY <1>1, <1>2

LEMMA SizesAreNat ==
  ASSUME Types
  PROVE  /\ Len(ids) \in Nat /\ Len(coords) \in Nat /\ Len(part_ends) \in Nat
         /\ Len(group_ends) \in Nat /\ Len(feature_ends) \in Nat /\ Len(columns) \in Nat
         /\ DOMAIN columns = 1..Len(columns)
         /\ \A k \in DOMAIN columns : columns[k] \in ColumnType
         /\ writer \in Start =>
               writer.groups \in Nat /\ writer.parts \in Nat /\ writer.coords \in Nat
         /\ ~Idle <=> writer \in Start
  BY NoDraftAssumption DEF Types, TypeOK, Start, Idle

LEMMA PartTypes ==
  ASSUME Types, NEW cs \in CoordLists, NEW joins, AddPart(cs, joins)
  PROVE  Types'
<1>1. cs \in Seq(Coordinate) /\ Len(cs) \in Nat /\ MaxVertices \in Nat
  BY ListIsSeq, WriterAssumption
<1>2. coords' \in Seq(Coordinate) /\ Len(coords') = Len(coords) + Len(cs)
  BY <1>1 DEF AddPart, Types
<1>3. Len(coords') \in 0..MaxVertices
  BY <1>1, <1>2, SizesAreNat DEF AddPart, Fits
<1>4. part_ends' \in Seq(Nat)
  BY <1>1, SizesAreNat DEF AddPart, Types, TypeOK
<1>5. group_ends' \in Seq(Nat)
  <2>1. CASE joins
    <3>1. group_ends' = [group_ends EXCEPT ![Len(group_ends)] = group_ends[Len(group_ends)] + 1]
      BY <2>1 DEF AddPart
    <3>2. Len(group_ends) # 0 => group_ends[Len(group_ends)] + 1 \in Nat
      BY DEF Types, TypeOK
    <3> QED
      BY <3>1, <3>2, LastSet DEF Types, TypeOK
  <2>2. CASE ~joins
    BY <2>2, SizesAreNat DEF AddPart, Types, TypeOK
  <2> QED
    BY <2>1, <2>2
<1> QED
  BY <1>2, <1>3, <1>4, <1>5 DEF AddPart, Types, TypeOK

LEMMA RewindTypes ==
  ASSUME Types, ~Idle, Rewind
  PROVE  Types'
<1>1. writer.groups \in Nat /\ writer.parts \in Nat /\ writer.coords \in Nat
  BY SizesAreNat
<1>2. columns' \in Seq(ColumnType)
  <2>1. \A k \in DOMAIN columns : Truncate(columns[k], Len(ids)) \in ColumnType
    BY SizesAreNat, TruncateFacts
  <2> QED
    BY <2>1, SizesAreNat DEF Rewind
<1>3. group_ends' \in Seq(Nat) /\ part_ends' \in Seq(Nat)
  BY <1>1, TruncatedFacts DEF Rewind, Types, TypeOK
<1>4. coords' \in Seq(Coordinate) /\ Len(coords') <= Len(coords)
  BY <1>1, TruncatedFacts, SizesAreNat DEF Rewind, Types
<1>5. Len(coords') \in 0..MaxVertices
  BY <1>4, WriterAssumption DEF Types, TypeOK
<1> QED
  BY <1>2, <1>3, <1>4, <1>5 DEF Rewind, Types, TypeOK

LEMMA TypesInit == Init => Types
<1> SUFFICES ASSUME Init PROVE Types
  OBVIOUS
<1>1. coords = <<>> /\ Len(coords) \in 0..MaxVertices
  BY WriterAssumption DEF Init
<1> QED
  BY <1>1 DEF Init, Types, TypeOK

LEMMA TypesStep == Types /\ ColumnsAligned /\ [Next]_vars => Types'
<1> SUFFICES ASSUME Types, ColumnsAligned, [Next]_vars PROVE Types'
  OBVIOUS
<1> USE SizesAreNat DEF geometry
<1>1. CASE Reset
  <2>1. spare \o columns \in Seq(ColumnType)
    BY DEF Types
  <2>2. Len(coords') \in 0..MaxVertices
    BY <1>1, WriterAssumption DEF Reset
  <2> QED
    BY <1>1, <2>1, <2>2 DEF Reset, Types, TypeOK
<1>2. ASSUME NEW name \in Names, NEW kind \in Kinds, AddProperty(name, kind)
      PROVE  Types'
  <2> DEFINE popped == IF spare = <<>> THEN Column(kind) ELSE spare[Len(spare)]
             new == Resize(Restart(popped, kind), Len(ids))
  <2>1. popped \in ColumnType
    <3>1. Column(kind) \in ColumnType
      BY DEF Column, ColumnType
    <3>2. spare # <<>> => spare[Len(spare)] \in ColumnType
      BY DEF Types
    <3> QED
      BY <3>1, <3>2
  <2>2. new \in ColumnType
    <3> HIDE DEF popped
    <3>1. Restart(popped, kind) \in ColumnType
      BY <2>1, RestartFacts
    <3> QED
      BY <3>1, ResizeFacts
  <2>3. columns' = Append(columns, new)
    BY <1>2 DEF AddProperty
  <2>4. spare' \in Seq(ColumnType)
    <3>1. (IF spare = <<>> THEN 0 ELSE Len(spare) - 1) \in Nat
      BY DEF Types
    <3> QED
      BY <1>2, <3>1, TruncatedFacts DEF AddProperty, Types
  <2>5. property' \in Seq([name : Names, kind : Kinds])
    BY <1>2 DEF AddProperty, Types, TypeOK
  <2> HIDE DEF new
  <2>6. columns' \in Seq(ColumnType)
    BY <2>2, <2>3 DEF Types
  <2> QED
    BY <1>2, <2>4, <2>5, <2>6 DEF AddProperty, Types, TypeOK
<1>3. ASSUME NEW type \in DOMAIN Family, Feature(type)
      PROVE  Types'
  <2>1. writer' \in Start
    BY <1>3 DEF Feature, Start
  <2> QED
    BY <1>3, <2>1 DEF Feature, Types, TypeOK
<1>4. ASSUME NEW id \in Ids \cup {NoId}, SetId(id)
      PROVE  Types'
  <2>1. writer' \in Start
    BY <1>4 DEF SetId, Start
  <2> QED
    BY <1>4, <2>1 DEF SetId, Types, TypeOK
<1>5. ASSUME NEW k \in DOMAIN property, NEW value \in ValuesOf[property[k].kind], SetProperty(k, value)
      PROVE  Types'
  <2>1. property[k].kind \in Kinds /\ k \in DOMAIN columns
    <3>1. DOMAIN property = 1..Len(property) /\ property[k] \in [name : Names, kind : Kinds]
      BY ElementOf DEF Types, TypeOK
    <3> QED
      BY <3>1 DEF ColumnsAligned
  <2>2. value \in Value
    BY <2>1 DEF Value
  <2>3. Len(columns[k].values) = Len(columns[k].present) /\ Len(columns[k].present) \in Len(ids)..(Len(ids) + 1)
    BY <1>5, <2>1 DEF SetProperty, ColumnsAligned
  <2>4. Set(columns[k], Len(ids) + 1, value) \in ColumnType
    BY <2>1, <2>2, <2>3, SetFacts
  <2>5. columns' \in Seq(ColumnType)
    BY <1>5, <2>1, <2>4 DEF SetProperty, Types
  <2> QED
    BY <1>5, <2>5 DEF SetProperty, Types, TypeOK
<1>6. ASSUME NEW cs \in CoordLists, AddPoints(cs) \/ AddLine(cs) \/ ExteriorRing(cs) \/ Hole(cs)
      PROVE  Types'
  <2>1. CASE AddLine(cs) \/ ExteriorRing(cs) \/ Hole(cs) \/ AddPart(cs, FALSE)
    BY <2>1, PartTypes, Zenon DEF AddLine, ExteriorRing, Hole
  <2>2. CASE /\ Fits(cs) /\ coords' = coords \o cs
             /\ part_ends' = [part_ends EXCEPT ![Len(part_ends)] = Len(coords')]
             /\ UNCHANGED <<property, columns, spare, ids, types, feature_ends, group_ends, writer>>
    <3>1. cs \in Seq(Coordinate) /\ Len(cs) \in Nat /\ MaxVertices \in Nat
      BY ListIsSeq, WriterAssumption
    <3>2. coords' \in Seq(Coordinate) /\ Len(coords') = Len(coords) + Len(cs)
      BY <2>2, <3>1 DEF Types
    <3>3. Len(coords') \in 0..MaxVertices
      BY <2>2, <3>1, <3>2 DEF Fits
    <3>4. part_ends' \in Seq(Nat)
      BY <2>2, <3>2, <3>3, LastSet DEF Types, TypeOK
    <3> QED
      BY <2>2, <3>2, <3>3, <3>4 DEF Types, TypeOK
  <2> QED
    BY <1>6, <2>1, <2>2 DEF AddPoints
<1>7. CASE Discard \/ Overflow
  BY <1>7, RewindTypes DEF Discard, Overflow
<1>8. CASE Finish
  <2>1. CASE Rewind
    BY <1>8, <2>1, RewindTypes DEF Finish
  <2>2. CASE /\ feature_ends' = Append(feature_ends, Len(group_ends))
             /\ types' = Append(types, writer.type)
             /\ columns' = [k \in DOMAIN columns |-> Resize(columns[k], Len(ids) + 1)]
             /\ ids' = Append(ids, writer.id)
             /\ writer' = NoDraft
             /\ UNCHANGED <<property, spare, group_ends, part_ends, coords>>
    <3>1. writer.type \in DOMAIN Family /\ writer.id \in Ids \cup {NoId}
      BY <1>8 DEF Finish, Start
    <3>2. \A k \in DOMAIN columns : Resize(columns[k], Len(ids) + 1) \in ColumnType
      <4>1. Len(ids) + 1 \in Nat
        OBVIOUS
      <4> QED
        BY <4>1, ResizeFacts
    <3>3. columns' \in Seq(ColumnType)
      BY <2>2, <3>2
    <3>4. feature_ends' \in Seq(Nat) /\ types' \in Seq(DOMAIN Family) /\ ids' \in Seq(Ids \cup {NoId})
      BY <2>2, <3>1 DEF Types, TypeOK
    <3> QED
      BY <2>2, <3>3, <3>4 DEF Types, TypeOK
  <2> QED
    BY <1>8, <2>1, <2>2 DEF Finish
<1>9. CASE UNCHANGED vars
  BY <1>9 DEF vars, Types, TypeOK
<1> QED
  BY <1>1, <1>2, <1>3, <1>4, <1>5, <1>6, <1>7, <1>8, <1>9 DEF Next

-----------------------------------------------------------------------------
(* Each step keeps the columns aligned.                                     *)

\* A column of this kind whose values are of its kind where present.
Sound(column, kind) ==
    /\ column \in ColumnType /\ column.kind = kind
    /\ Len(column.values) = Len(column.present)
    /\ \A f \in 1..Len(column.present) : column.present[f] => column.values[f] \in ValuesOf[kind]

LEMMA ResizeSound ==
  ASSUME NEW kind, NEW column, Sound(column, kind), NEW len \in Nat
  PROVE  Sound(Resize(column, len), kind) /\ Len(Resize(column, len).present) = len
<1> DEFINE new == Resize(column, len)
<1>0. column \in ColumnType /\ column.kind = kind
  BY DEF Sound
<1>1. /\ new \in ColumnType /\ new.kind = column.kind
      /\ Len(new.values) = len /\ Len(new.present) = len
      /\ \A f \in 1..len :
            /\ f <= Len(column.values) => new.values[f] = column.values[f]
            /\ new.present[f] <=> f <= Len(column.present) /\ column.present[f]
  BY <1>0, ResizeFacts, Zenon
<1> HIDE DEF new
<1>2. Len(column.present) \in Nat
  BY DEF Sound, ColumnType
<1>3. \A f \in 1..len : new.present[f] => new.values[f] \in ValuesOf[kind]
  BY <1>1, <1>2 DEF Sound
<1> QED
  BY <1>0, <1>1, <1>3 DEF Sound, new

LEMMA TruncateSound ==
  ASSUME NEW kind, NEW column, Sound(column, kind), NEW len \in Nat, len <= Len(column.present)
  PROVE  Sound(Truncate(column, len), kind) /\ Len(Truncate(column, len).present) = len
<1> DEFINE new == Truncate(column, len)
<1>1. Len(column.present) \in Nat /\ Len(column.values) = Len(column.present)
  BY DEF Sound, ColumnType
<1>2. /\ new \in ColumnType /\ new.kind = kind
      /\ Len(new.values) = len /\ Len(new.present) = len
      /\ \A f \in 1..len : new.values[f] = column.values[f] /\ new.present[f] = column.present[f]
  BY <1>1, TruncateFacts DEF Sound
<1> HIDE DEF new
<1>3. \A f \in 1..len : new.present[f] => new.values[f] \in ValuesOf[kind]
  BY <1>1, <1>2 DEF Sound
<1> QED
  BY <1>2, <1>3 DEF Sound, new

LEMMA SetSound ==
  ASSUME NEW kind \in Kinds, NEW column, Sound(column, kind), NEW n \in Nat,
         NEW value \in ValuesOf[kind], Len(column.present) \in n..(n + 1)
  PROVE  Sound(Set(column, n + 1, value), kind) /\ Len(Set(column, n + 1, value).present) = n + 1
<1> DEFINE new == Set(column, n + 1, value)
<1>1. value \in Value
  BY DEF Value
<1>2. /\ new \in ColumnType /\ new.kind = kind
      /\ Len(new.values) = n + 1 /\ Len(new.present) = n + 1
      /\ \A f \in 1..n : new.values[f] = column.values[f] /\ (new.present[f] <=> column.present[f])
      /\ new.values[n + 1] = value /\ new.present[n + 1]
  BY <1>1, SetFacts DEF Sound
<1> HIDE DEF new
<1>3. \A f \in 1..(n + 1) : f \in 1..n \/ f = n + 1
  OBVIOUS
<1>4. \A f \in 1..n : f \in 1..Len(column.present)
  OBVIOUS
<1>5. \A f \in 1..(n + 1) : new.present[f] => new.values[f] \in ValuesOf[kind]
  BY <1>2, <1>3, <1>4 DEF Sound
<1> QED
  BY <1>2, <1>5 DEF Sound, new

\* The invariant, column by column.
ColumnsSound ==
    /\ Len(columns) = Len(property)
    /\ \A k \in 1..Len(columns) :
          /\ Sound(columns[k], property[k].kind)
          /\ Len(columns[k].present) \in Len(ids)..(Len(ids) + IF Idle THEN 0 ELSE 1)

LEMMA SoundFacts == Types => (ColumnsAligned <=> ColumnsSound)
<1> SUFFICES ASSUME Types PROVE ColumnsAligned <=> ColumnsSound
  OBVIOUS
<1>1. DOMAIN columns = 1..Len(columns) /\ \A k \in 1..Len(columns) : columns[k] \in ColumnType
  BY SizesAreNat
<1>2. \A k \in 1..Len(columns) : DOMAIN columns[k].present = 1..Len(columns[k].present)
  BY <1>1, ElementOf DEF ColumnType
<1> QED
  BY <1>1, <1>2 DEF ColumnsAligned, ColumnsSound, Sound

LEMMA SoundFactsNext == Types' => (ColumnsAligned' <=> ColumnsSound')
  BY SoundFacts, PTL

LEMMA RewindSound ==
  ASSUME Types, Types', ColumnsSound, Rewind
  PROVE  ColumnsSound'
<1>1. /\ columns' = [k \in DOMAIN columns |-> Truncate(columns[k], Len(ids))]
      /\ UNCHANGED <<property, ids>> /\ Idle'
  BY DEF Rewind, Idle
<1>2. Len(columns') = Len(columns) /\ \A k \in 1..Len(columns) : columns'[k] = Truncate(columns[k], Len(ids))
  BY <1>1, SizesAreNat
<1>3. ASSUME NEW k \in 1..Len(columns)
      PROVE  Sound(columns'[k], property[k].kind) /\ Len(columns'[k].present) = Len(ids)
  <2>1. Sound(columns[k], property[k].kind) /\ Len(columns[k].present) >= Len(ids) /\ Len(ids) \in Nat
    BY SizesAreNat DEF ColumnsSound
  <2>2. Len(ids) <= Len(columns[k].present)
    BY <2>1 DEF Sound, ColumnType
  <2> QED
    BY <1>2, <2>1, <2>2, TruncateSound
<1> QED
  BY <1>1, <1>2, <1>3, SizesAreNat DEF ColumnsSound

LEMMA AlignedInit == Init => ColumnsAligned
  BY DEF Init, ColumnsAligned

LEMMA AlignedStep == Types /\ ColumnsAligned /\ Types' /\ [Next]_vars => ColumnsAligned'
<1> SUFFICES ASSUME Types, ColumnsSound, Types', [Next]_vars PROVE ColumnsSound'
  BY SoundFacts, SoundFactsNext
<1> USE SizesAreNat DEF geometry
\* The columns stay, and so does what they are aligned to.
<1>1. ASSUME UNCHANGED <<property, columns, ids>>, Idle' => Idle
      PROVE  ColumnsSound'
  BY <1>1 DEF ColumnsSound
<1>2. CASE Reset
  BY <1>2 DEF Reset, ColumnsSound
<1>3. ASSUME NEW name \in Names, NEW kind \in Kinds, AddProperty(name, kind)
      PROVE  ColumnsSound'
  <2> DEFINE popped == IF spare = <<>> THEN Column(kind) ELSE spare[Len(spare)]
             new == Resize(Restart(popped, kind), Len(ids))
             more == [name |-> name, kind |-> kind]
  <2>1. popped \in ColumnType
    <3>1. Column(kind) \in ColumnType
      BY DEF Column, ColumnType
    <3>2. spare # <<>> => spare[Len(spare)] \in ColumnType
      BY DEF Types
    <3> QED
      BY <3>1, <3>2
  <2>2. Sound(new, kind) /\ Len(new.present) = Len(ids)
    <3> HIDE DEF popped
    <3>1. Sound(Restart(popped, kind), kind)
      BY <2>1, RestartFacts DEF Sound
    <3> QED
      BY <3>1, ResizeSound
  <2>3. columns' = Append(columns, new) /\ property' = Append(property, more)
    BY <1>3 DEF AddProperty
  <2> HIDE DEF new
  <2>4. /\ Len(columns') = Len(columns) + 1 /\ columns'[Len(columns) + 1] = new
        /\ \A k \in 1..Len(columns) : columns'[k] = columns[k]
    BY <2>2, <2>3, AppendedFacts DEF Types, Sound
  <2>5. /\ Len(property) = Len(columns) /\ Len(property') = Len(property) + 1
        /\ property'[Len(property) + 1] = more
        /\ \A k \in 1..Len(property) : property'[k] = property[k]
    <3>1. more \in [name : Names, kind : Kinds]
      OBVIOUS
    <3> HIDE DEF more
    <3> QED
      BY <2>3, <3>1, AppendedFacts DEF Types, TypeOK, ColumnsSound
  <2>6. UNCHANGED <<ids, writer>> /\ Idle
    BY <1>3 DEF AddProperty
  <2>7. \A k \in 1..Len(columns') : k \in 1..Len(columns) \/ k = Len(columns) + 1
    BY <2>4
  <2> QED
    BY <2>2, <2>4, <2>5, <2>6, <2>7 DEF ColumnsSound, Idle
<1>4. ASSUME NEW type \in DOMAIN Family, Feature(type)
      PROVE  ColumnsSound'
  BY <1>4 DEF Feature, ColumnsSound
<1>5. ASSUME NEW id \in Ids \cup {NoId}, SetId(id)
      PROVE  ColumnsSound'
  <2>1. writer' \in Start
    BY <1>5 DEF SetId, Start
  <2> QED
    BY <1>1, <1>5, <2>1, NoDraftAssumption DEF SetId, Idle
<1>6. ASSUME NEW k \in DOMAIN property, NEW value \in ValuesOf[property[k].kind], SetProperty(k, value)
      PROVE  ColumnsSound'
  <2> DEFINE kind == property[k].kind
             new == Set(columns[k], Len(ids) + 1, value)
  <2>1. k \in 1..Len(columns) /\ kind \in Kinds
    <3>1. DOMAIN property = 1..Len(property) /\ property[k] \in [name : Names, kind : Kinds]
      BY ElementOf DEF Types, TypeOK
    <3> QED
      BY <3>1 DEF ColumnsSound
  <2>2. Sound(columns[k], kind) /\ Len(columns[k].present) \in Len(ids)..(Len(ids) + 1)
    BY <1>6, <2>1 DEF SetProperty, ColumnsSound
  <2>3. Sound(new, kind) /\ Len(new.present) = Len(ids) + 1
    <3> HIDE DEF kind
    <3>1. value \in ValuesOf[kind]
      BY DEF kind
    <3> QED
      BY <2>1, <2>2, <3>1, SetSound
  <2>4. columns' = [columns EXCEPT ![k] = new] /\ UNCHANGED <<property, ids, writer>> /\ ~Idle
    BY <1>6 DEF SetProperty
  <2> HIDE DEF new
  <2>5. /\ Len(columns') = Len(columns) /\ columns'[k] = new
        /\ \A j \in 1..Len(columns) : j # k => columns'[j] = columns[j]
    BY <2>1, <2>4 DEF Types
  <2>6. ~Idle'
    BY <2>4 DEF Idle
  <2> QED
    BY <2>3, <2>4, <2>5, <2>6 DEF ColumnsSound
<1>7. ASSUME NEW cs \in CoordLists, AddPoints(cs) \/ AddLine(cs) \/ ExteriorRing(cs) \/ Hole(cs)
      PROVE  ColumnsSound'
  BY <1>1, <1>7 DEF AddPoints, AddLine, ExteriorRing, Hole, AddPart, Idle
<1>8. CASE Discard \/ Overflow
  BY <1>8, RewindSound DEF Discard, Overflow
<1>9. CASE Finish
  <2>1. CASE Rewind
    BY <2>1, RewindSound
  <2>2. CASE /\ columns' = [k \in DOMAIN columns |-> Resize(columns[k], Len(ids) + 1)]
             /\ ids' = Append(ids, writer.id)
             /\ writer' = NoDraft
             /\ UNCHANGED property
    <3>1. Len(ids') = Len(ids) + 1 /\ Idle'
      BY <1>9, <2>2 DEF Finish, Types, TypeOK, Start, Idle
    <3>2. /\ Len(columns') = Len(columns)
          /\ \A k \in 1..Len(columns) : columns'[k] = Resize(columns[k], Len(ids) + 1)
      BY <2>2
    <3>3. ASSUME NEW k \in 1..Len(columns)
          PROVE  Sound(columns'[k], property[k].kind) /\ Len(columns'[k].present) = Len(ids) + 1
      <4>1. PICK len, kind, column : /\ len = Len(ids) + 1 /\ kind = property[k].kind
                                     /\ column = columns[k]
        OBVIOUS
      <4>2. len \in Nat /\ Sound(column, kind) /\ columns'[k] = Resize(column, len)
        BY <3>2, <4>1 DEF ColumnsSound
      <4>3. Sound(Resize(column, len), kind) /\ Len(Resize(column, len).present) = len
        BY <4>2, ResizeSound
      <4> QED
        BY <4>1, <4>2, <4>3
    <3> QED
      BY <2>2, <3>1, <3>2, <3>3 DEF ColumnsSound
  <2> QED
    BY <1>9, <2>1, <2>2 DEF Finish
<1>10. CASE UNCHANGED vars
  BY <1>1, <1>10 DEF vars, Idle
<1> QED
  BY <1>2, <1>3, <1>4, <1>5, <1>6, <1>7, <1>8, <1>9, <1>10 DEF Next

-----------------------------------------------------------------------------
(* Each step keeps the ends.                                                *)

LEMMA EndsInit == Init => EndsInv
  BY DEF Init, EndsInv, Rising, EndAt, CutBack, Idle

LEMMA EndTypes ==
  ASSUME Types
  PROVE  /\ part_ends \in Seq(Nat) /\ group_ends \in Seq(Nat) /\ feature_ends \in Seq(Nat)
         /\ Len(part_ends) \in Nat /\ Len(group_ends) \in Nat /\ Len(feature_ends) \in Nat
         /\ Len(coords) \in Nat /\ coords \in Seq(Coordinate)
         /\ ~Idle => writer.groups \in Nat /\ writer.parts \in Nat /\ writer.coords \in Nat
  BY SizesAreNat DEF Types, TypeOK

LEMMA PartEnds ==
  ASSUME Types, EndsInv, ~Idle, NEW cs \in CoordLists, NEW joins, joins => GroupBegun, AddPart(cs, joins)
  PROVE  EndsInv'
<1> USE EndTypes
<1>1. /\ cs \in Seq(Coordinate) /\ Len(cs) \in Nat
      /\ coords' = coords \o cs /\ part_ends' = Append(part_ends, Len(coords) + Len(cs))
      /\ UNCHANGED <<ids, types, feature_ends, writer>> /\ ~Idle'
  BY ListIsSeq DEF AddPart, Idle
<1>2. Len(coords') = Len(coords) + Len(cs)
  BY <1>1
<1>3. /\ Rising(part_ends') /\ EndAt(part_ends', Len(part_ends) + 1, Len(coords'))
      /\ \A m, k \in Nat : EndAt(part_ends, m, k) => EndAt(part_ends', m, k)
      /\ Len(part_ends') = Len(part_ends) + 1
  <2> DEFINE x == Len(coords) + Len(cs)
  <2>1. x \in Nat /\ Len(coords) <= x
    BY <1>1
  <2>2. part_ends' = Append(part_ends, x) /\ Len(coords') = x
    BY <1>1, <1>2
  <2> HIDE DEF x
  <2>3. Len(Append(part_ends, x)) = Len(part_ends) + 1
    BY <2>1, AppendedFacts
  <2> QED
    BY <2>1, <2>2, <2>3, RisingAppend DEF EndsInv
<1>4. /\ Rising(group_ends') /\ EndAt(group_ends', Len(group_ends'), Len(part_ends'))
      /\ Len(group_ends') > writer.groups
      /\ EndAt(group_ends', writer.groups, writer.parts)
  <2> DEFINE x == Len(part_ends) + 1
  <2>1. x \in Nat /\ Len(part_ends) <= x /\ Len(part_ends') = x
    BY <1>3
  <2>2. EndAt(group_ends, writer.groups, writer.parts) /\ writer.groups <= Len(group_ends)
    BY DEF EndsInv, CutBack, EndAt
  <2>3. CASE joins
    <3>1. Len(group_ends) > writer.groups /\ Len(group_ends) # 0
      BY <2>3 DEF GroupBegun
    <3>2. group_ends' = [group_ends EXCEPT ![Len(group_ends)] = x]
      BY <2>3, <3>1 DEF AddPart, EndsInv, EndAt
    <3> HIDE DEF x
    <3>3. /\ Len(group_ends') = Len(group_ends)
          /\ Rising(group_ends') /\ EndAt(group_ends', Len(group_ends), x)
          /\ \A m, k \in Nat : m < Len(group_ends) /\ EndAt(group_ends, m, k) => EndAt(group_ends', m, k)
      BY <2>1, <3>1, <3>2, RisingRaise DEF EndsInv
    <3> QED
      BY <2>1, <2>2, <3>1, <3>3
  <2>4. CASE ~joins
    <3>1. group_ends' = Append(group_ends, x)
      BY <2>4 DEF AddPart
    <3> HIDE DEF x
    <3>2. Len(group_ends') = Len(group_ends) + 1
      BY <2>1, <3>1, AppendedFacts
    <3>3. /\ Rising(group_ends') /\ EndAt(group_ends', Len(group_ends) + 1, x)
          /\ \A m, k \in Nat : EndAt(group_ends, m, k) => EndAt(group_ends', m, k)
      BY <2>1, <3>1, RisingAppend DEF EndsInv
    <3> QED
      BY <2>1, <2>2, <3>2, <3>3
  <2> QED
    BY <2>3, <2>4
<1>5. EndAt(part_ends', writer.parts, writer.coords) /\ Len(part_ends') > writer.parts
  <2>1. EndAt(part_ends, writer.parts, writer.coords)
    BY DEF EndsInv, CutBack
  <2>2. writer.parts \in 0..Len(part_ends) /\ writer.coords \in Nat
    BY <2>1 DEF EndAt
  <2> QED
    BY <1>3, <2>1, <2>2
<1> QED
  BY <1>1, <1>3, <1>4, <1>5 DEF EndsInv, CutBack, Idle

LEMMA PointsEnds ==
  ASSUME Types, EndsInv, ~Idle, GroupBegun, NEW cs \in CoordLists,
         coords' = coords \o cs,
         part_ends' = [part_ends EXCEPT ![Len(part_ends)] = Len(coords')],
         UNCHANGED <<ids, types, feature_ends, group_ends, writer>>
  PROVE  EndsInv'
<1> USE EndTypes
<1>1. Len(coords') \in Nat /\ Len(coords) <= Len(coords')
  BY ListIsSeq
<1>2. Len(part_ends) > writer.parts /\ Len(part_ends) # 0
  BY DEF EndsInv, CutBack
<1>3. /\ Len(part_ends') = Len(part_ends)
      /\ Rising(part_ends') /\ EndAt(part_ends', Len(part_ends), Len(coords'))
      /\ \A m, k \in Nat : m < Len(part_ends) /\ EndAt(part_ends, m, k) => EndAt(part_ends', m, k)
  BY <1>1, <1>2, RisingRaise DEF EndsInv
<1>4. EndAt(part_ends', writer.parts, writer.coords)
  BY <1>2, <1>3 DEF EndsInv, CutBack
<1>5. writer.coords <= Len(coords')
  BY <1>1 DEF EndsInv, CutBack
<1>6. CutBack'
  BY <1>2, <1>3, <1>4, <1>5 DEF EndsInv, CutBack, GroupBegun
<1> QED
  BY <1>3, <1>6 DEF EndsInv, Idle

LEMMA RewindEnds ==
  ASSUME Types, EndsInv, ~Idle, Rewind
  PROVE  EndsInv'
<1> USE EndTypes
<1>1. /\ group_ends' = Truncated(group_ends, writer.groups)
      /\ part_ends' = Truncated(part_ends, writer.parts)
      /\ coords' = Truncated(coords, writer.coords)
      /\ UNCHANGED <<ids, types, feature_ends>> /\ Idle'
  BY DEF Rewind, Idle
<1>2. /\ EndAt(group_ends, writer.groups, writer.parts)
      /\ EndAt(part_ends, writer.parts, writer.coords)
  BY DEF EndsInv, CutBack
<1>3. /\ Len(group_ends') = writer.groups /\ Rising(group_ends')
      /\ EndAt(group_ends', writer.groups, writer.parts)
  BY <1>1, <1>2, RisingTruncate DEF EndsInv
<1>4. /\ Len(part_ends') = writer.parts /\ Rising(part_ends')
      /\ EndAt(part_ends', writer.parts, writer.coords)
  BY <1>1, <1>2, RisingTruncate DEF EndsInv
<1>5. Len(coords') = writer.coords
  <2>1. writer.coords <= Len(coords)
    BY DEF EndsInv, CutBack
  <2> QED
    BY <1>1, <2>1, TruncatedFacts
<1> QED
  BY <1>1, <1>3, <1>4, <1>5 DEF EndsInv, CutBack, Idle

LEMMA EndsStep == Types /\ EndsInv /\ [Next]_vars => EndsInv'
<1> SUFFICES ASSUME Types, EndsInv, [Next]_vars PROVE EndsInv'
  OBVIOUS
<1> USE EndTypes DEF geometry
<1>1. CASE Reset
  BY <1>1 DEF Reset, EndsInv, Rising, EndAt, CutBack, Idle
<1>2. ASSUME NEW name \in Names, NEW kind \in Kinds, AddProperty(name, kind)
      PROVE  EndsInv'
  BY <1>2 DEF AddProperty, EndsInv, CutBack, Idle, GroupBegun
<1>3. ASSUME NEW type \in DOMAIN Family, Feature(type)
      PROVE  EndsInv'
  <2>1. /\ Idle /\ ~Idle' /\ writer'.groups = Len(group_ends)
        /\ writer'.parts = Len(part_ends) /\ writer'.coords = Len(coords)
        /\ UNCHANGED <<ids, geometry>>
    <3>1. writer' \in Start
      BY <1>3 DEF Feature, Start
    <3> QED
      BY <1>3, <3>1, NoDraftAssumption DEF Feature, Idle
  <2> QED
    BY <2>1 DEF EndsInv, CutBack, GroupBegun
<1>4. ASSUME NEW id \in Ids \cup {NoId}, SetId(id)
      PROVE  EndsInv'
  <2>1. /\ ~Idle /\ writer \in Start /\ writer' \in Start
        /\ writer'.groups = writer.groups /\ writer'.parts = writer.parts /\ writer'.coords = writer.coords
        /\ UNCHANGED <<ids, geometry>>
    BY <1>4, SizesAreNat DEF SetId, Start
  <2>2. ~Idle'
    BY <2>1, NoDraftAssumption DEF Idle
  <2> QED
    BY <2>1, <2>2 DEF EndsInv, CutBack, GroupBegun
<1>5. ASSUME NEW k \in DOMAIN property, NEW value \in ValuesOf[property[k].kind], SetProperty(k, value)
      PROVE  EndsInv'
  BY <1>5 DEF SetProperty, EndsInv, CutBack, Idle, GroupBegun
<1>6. ASSUME NEW cs \in CoordLists, AddPoints(cs)
      PROVE  EndsInv'
  <2>1. ~Idle
    BY <1>6 DEF AddPoints, check_family
  <2>2. CASE AddPart(cs, FALSE)
    BY <2>1, <2>2, PartEnds, Zenon
  <2>3. CASE ~AddPart(cs, FALSE)
    BY <1>6, <2>1, <2>3, PointsEnds DEF AddPoints
  <2> QED
    BY <2>2, <2>3
<1>7. ASSUME NEW cs \in CoordLists, AddLine(cs) \/ ExteriorRing(cs) \/ Hole(cs)
      PROVE  EndsInv'
  <2>1. ~Idle
    BY <1>7 DEF AddLine, ExteriorRing, Hole, check_family
  <2> QED
    BY <1>7, <2>1, PartEnds, Zenon DEF AddLine, ExteriorRing, Hole
<1>8. CASE Discard \/ Overflow
  BY <1>8, RewindEnds DEF Discard, Overflow
<1>9. CASE Finish
  <2>1. CASE Rewind
    BY <1>9, <2>1, RewindEnds DEF Finish
  <2>2. CASE /\ feature_ends' = Append(feature_ends, Len(group_ends))
             /\ types' = Append(types, writer.type)
             /\ ids' = Append(ids, writer.id)
             /\ writer' = NoDraft
             /\ UNCHANGED <<group_ends, part_ends, coords>>
    <3>1. ~Idle /\ writer \in Start /\ Idle'
      BY <1>9, <2>2, SizesAreNat DEF Finish, Idle
    <3>2. Len(ids') = Len(ids) + 1 /\ Len(types') = Len(types) + 1
      BY <2>2, <3>1, AppendedFacts DEF Types, TypeOK, Start
    <3>3. EndAt(feature_ends, Len(feature_ends), writer.groups) /\ writer.groups <= Len(group_ends)
      BY <3>1 DEF EndsInv, CutBack, EndAt
    <3>4. /\ Rising(feature_ends') /\ EndAt(feature_ends', Len(feature_ends) + 1, Len(group_ends))
          /\ Len(feature_ends') = Len(feature_ends) + 1
      BY <2>2, <3>1, <3>3, RisingAppend, AppendedFacts DEF EndsInv
    <3> QED
      BY <2>2, <3>1, <3>2, <3>4 DEF EndsInv, CutBack
  <2> QED
    BY <1>9, <2>1, <2>2 DEF Finish
<1>10. CASE UNCHANGED vars
  BY <1>10 DEF vars, EndsInv, CutBack, Idle, GroupBegun
<1> QED
  BY <1>2, <1>1, <1>3, <1>4, <1>5, <1>6, <1>7, <1>8, <1>9, <1>10 DEF Next

-----------------------------------------------------------------------------
(* The theorems.                                                            *)

LEMMA WInvAlways == Spec => []WInv
<1>1. Init => WInv
  BY TypesInit, EndsInit, AlignedInit DEF WInv
<1>2. WInv /\ [Next]_vars => WInv'
  BY TypesStep, EndsStep, AlignedStep DEF WInv
<1> QED
  BY <1>1, <1>2, PTL DEF Spec

\* Every list of the writer keeps its type and a layer never holds more vertices
\* than len32 allows (layer_writer.rs:545).
THEOREM LayerTypesHold == Spec => []TypeOK
<1>1. WInv => TypeOK
  BY DEF WInv, Types
<1> QED
  BY <1>1, WInvAlways, PTL

\* Between features every column has an entry per feature, whatever was added
\* late, reused or left unset, and each value is of its column's kind.
THEOREM ColumnsCorrect == Spec => []ColumnsAligned
<1>1. WInv => ColumnsAligned
  BY DEF WInv
<1> QED
  BY <1>1, WInvAlways, PTL

LEMMA PrefixCovers ==
  ASSUME NEW ends \in Seq(Nat), NEW m, NEW n, Rising(ends), EndAt(ends, m, n)
  PROVE  Cover(SubSeq(ends, 1, m), n)
<1> DEFINE prefix == SubSeq(ends, 1, m)
<1>1. /\ m \in Nat /\ m <= Len(ends) /\ Len(prefix) = m
      /\ \A i \in 1..m : prefix[i] = ends[i]
      /\ prefix = <<>> <=> m = 0
  BY DEF EndAt
<1> HIDE DEF prefix
<1>2. \A i \in 2..m : prefix[i - 1] <= prefix[i]
  <2> TAKE i \in 2..m
  <2>1. i - 1 \in 1..m /\ i \in 1..m /\ i - 1 \in 1..Len(ends) /\ i \in 1..Len(ends) /\ i - 1 <= i
    BY <1>1
  <2> QED
    BY <1>1, <2>1 DEF Rising
<1>3. n = IF m = 0 THEN 0 ELSE prefix[m]
  <2>1. m # 0 => m \in 1..m
    BY <1>1
  <2> QED
    BY <1>1, <2>1 DEF EndAt
<1> QED
  BY <1>1, <1>2, <1>3 DEF Cover, prefix

LEMMA EndsCover == WInv => EndsTile
<1> SUFFICES ASSUME WInv PROVE EndsTile
  OBVIOUS
<1> USE EndTypes DEF WInv
<1>1. /\ Cover(part_ends, Len(coords)) /\ Cover(group_ends, Len(part_ends))
      /\ Cover(feature_ends, IF Idle THEN Len(group_ends) ELSE writer.groups)
  <2>1. \A s \in Seq(Nat) : s = <<>> <=> Len(s) = 0
    OBVIOUS
  <2>2. ASSUME NEW ends \in Seq(Nat), NEW n, Rising(ends), EndAt(ends, Len(ends), n)
        PROVE  Cover(ends, n)
    <3>1. \A i \in 2..Len(ends) : i - 1 \in 1..Len(ends) /\ i \in 1..Len(ends) /\ i - 1 <= i
      OBVIOUS
    <3> QED
      BY <2>1, <2>2, <3>1 DEF Rising, EndAt, Cover
  <2> QED
    BY <2>2 DEF EndsInv
<1>2. ~Idle => /\ Cover(SubSeq(group_ends, 1, writer.groups), writer.parts)
               /\ Cover(SubSeq(part_ends, 1, writer.parts), writer.coords)
  BY PrefixCovers DEF EndsInv, CutBack
<1> QED
  BY <1>1, <1>2 DEF EndsTile, EndsInv

\* The three levels of ends tile the flat coordinates, and a dropped feature is
\* cut back to where the last finished one ends: no feature shares a coordinate,
\* part or group with another, and none is left over (layer_writer.rs:198).
THEOREM EndsCorrect == Spec => []EndsTile
  BY WInvAlways, EndsCover, PTL
=============================================================================
