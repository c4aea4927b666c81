--------------------------- MODULE PresenceCoding ---------------------------
(***************************************************************************)
(* The three codings of a presence mask in a v2 layer                      *)
(* (src/rust/mlt-core/src/codecs/presence_coding.rs): a bitmap, the lengths *)
(* of the runs of equal bits, and the nonzero bytes of the bitmap behind a  *)
(* summary of where they stand.  No coding stores its length: a reader ends *)
(* a mask from the number of its bits, with `split`, and counts the set     *)
(* bits of a payload it does not expand, with `popcount`.                  *)
(*                                                                         *)
(* A byte has ByteBits bits, the first of them the lowest, and a varint     *)
(* carries one bit less in each of its bytes; a mask is a sequence of       *)
(* Booleans, an input a sequence of bytes.                                  *)
(***************************************************************************)
EXTENDS Integers, SequencesExt

CONSTANT ByteBits   \* 8 in the code

ASSUME ByteBitsAssumption == ByteBits \in Nat /\ ByteBits >= 2

CeilDiv(n) == (n + ByteBits - 1) \div ByteBits

(* Bytes and the bits in them *)
BitOf(byte, j) == (byte \div 2^j) % 2 = 1
ByteOf(bits) ==
  FoldLeftDomain(LAMBDA acc, j: acc + (IF bits[j] THEN 2^(j - 1) ELSE 0), 0, bits)
Bits(bytes) ==
  [i \in 1..(ByteBits * Len(bytes)) |-> BitOf(bytes[CeilDiv(i)], (i - 1) % ByteBits)]
Pack(bits) ==
  [k \in 1..CeilDiv(Len(bits)) |->
     ByteOf(SubSeq(bits, ByteBits * (k - 1) + 1,
                   IF ByteBits * k < Len(bits) THEN ByteBits * k ELSE Len(bits)))]
Count(bits) == Cardinality({i \in DOMAIN bits : bits[i]})

-----------------------------------------------------------------------------
(* Varints: the low digits first, every byte but the last one raised *)
Payload == 2^(ByteBits - 1)

RECURSIVE Varint(_)
Varint(v) == IF v < Payload THEN <<v>>
             ELSE <<Payload + (v % Payload)>> \o Varint(v \div Payload)

Fail == [ok |-> FALSE]

(* A varint that ends in a zero byte could have been shorter: refused, and   *)
(* so is one of more bytes than the widest integer takes.                   *)
MaxVarint == 10

ParseVarint(input) ==
  LET ends == {i \in DOMAIN input : i <= MaxVarint /\ input[i] < Payload} IN
  IF ends = {} THEN Fail
  ELSE LET last == CHOOSE i \in ends : \A j \in ends : i <= j IN
       IF last > 1 /\ input[last] = 0 THEN Fail
       ELSE [ok    |-> TRUE,
             value |-> FoldLeftDomain(LAMBDA acc, i: acc + (input[i] % Payload) * Payload^(i - 1),
                                      0, SubSeq(input, 1, last)),
             rest  |-> SubSeq(input, last + 1, Len(input))]

-----------------------------------------------------------------------------
(* The lengths of the runs of equal bits.  The first run is of absent ones, *)
(* so a mask that starts with a present one opens with an empty run.        *)
Runs(bits) ==
  LET n == Len(bits)
      differs(i) == i > n \/ bits[i] # (IF i = 1 THEN FALSE ELSE bits[i - 1])
      starts == SelectSeq([i \in 1..(n + 1) |-> i], differs)
  IN IF n = 0 THEN <<>>
     ELSE [k \in DOMAIN starts |-> starts[k] - (IF k = 1 THEN 1 ELSE starts[k - 1])]

NonZero(bits) == [k \in 1..CeilDiv(Len(bits)) |-> Pack(bits)[k] # 0]

Write(bits, coding) ==
  CASE coding = "Bitmap" -> Pack(bits)
    [] coding = "Runs"   -> FlattenSeq([k \in DOMAIN Runs(bits) |-> Varint(Runs(bits)[k])])
    [] coding = "Sparse" -> Pack(NonZero(bits)) \o SelectSeq(Pack(bits), LAMBDA b: b # 0)

(* A bug seeded for the check: the empty first run is not counted. *)
SizeWithoutEmptyRun(bits, coding) ==
  CASE coding = "Bitmap" -> CeilDiv(Len(bits))
    [] coding = "Runs"   -> Len(SelectSeq(Runs(bits), LAMBDA len: len # 0))
    [] coding = "Sparse" -> CeilDiv(CeilDiv(Len(bits))) + Count(NonZero(bits))

(* What Write takes, foretold without writing. *)
Size(bits, coding) ==
  LET VarintLen(v) == CHOOSE n \in 1..(v + 1) : /\ v < Payload^n
                                                /\ n = 1 \/ v >= Payload^(n - 1)
  IN CASE coding = "Bitmap" -> CeilDiv(Len(bits))
       [] coding = "Runs"   -> FoldLeft(LAMBDA acc, len: acc + VarintLen(len), 0, Runs(bits))
       [] coding = "Sparse" -> CeilDiv(CeilDiv(Len(bits))) + Count(NonZero(bits))

All == <<"Bitmap", "Runs", "Sparse">>   \* in the order that breaks a tie

Smallest(bits) ==
  LET better(c, d) == Size(bits, All[c]) < Size(bits, All[d])
  IN All[CHOOSE c \in DOMAIN All : \A d \in DOMAIN All : IF d < c THEN better(c, d) ELSE ~better(d, c)]

-----------------------------------------------------------------------------
(* Runs are read until they fill the mask, and never past it. *)
RECURSIVE RunsFrom(_, _)
RunsFrom(input, n) ==
  IF n = 0 THEN [ok |-> TRUE, runs |-> <<>>, rest |-> input]
  ELSE LET v == ParseVarint(input) IN
       IF ~v.ok \/ v.value > n THEN Fail
       ELSE LET more == RunsFrom(v.rest, n - v.value) IN
            IF ~more.ok THEN Fail ELSE [more EXCEPT !.runs = <<v.value>> \o @]

BitsOfRuns(runs) ==
  FlattenSeq([k \in DOMAIN runs |-> [i \in 1..runs[k] |-> k % 2 = 0]])

(* The summary and the bytes stored behind it, as the reader finds them. *)
SparseParts(input, n) ==
  LET head == CeilDiv(CeilDiv(n))
      summary == Bits(SubSeq(input, 1, head))
      stored == Count(summary)
  IN IF Len(input) < head THEN Fail
     ELSE [ok |-> Len(input) >= head + stored, summary |-> summary,
           stored |-> SubSeq(input, head + 1, head + stored), len |-> head + stored]

Unsparse(parts, n) ==
  [k \in 1..CeilDiv(n) |->
     IF parts.summary[k] THEN parts.stored[Count(SubSeq(parts.summary, 1, k))] ELSE 0]

(* read: the mask and what is left of the input. *)
Read(input, n, coding) ==
  CASE coding = "Bitmap" ->
         IF Len(input) < CeilDiv(n) THEN Fail
         ELSE [ok |-> TRUE, bits |-> SubSeq(Bits(input), 1, n),
               rest |-> SubSeq(input, CeilDiv(n) + 1, Len(input))]
    [] coding = "Runs" ->
         LET r == RunsFrom(input, n) IN
         IF ~r.ok THEN Fail ELSE [ok |-> TRUE, bits |-> BitsOfRuns(r.runs), rest |-> r.rest]
    [] coding = "Sparse" ->
         LET p == SparseParts(input, n) IN
         IF ~p.ok THEN Fail
         ELSE IF \/ \E k \in DOMAIN p.summary : k > CeilDiv(n) /\ p.summary[k]
                 \/ \E i \in DOMAIN p.stored : p.stored[i] = 0
              THEN Fail
              ELSE [ok |-> TRUE, bits |-> SubSeq(Bits(Unsparse(p, n)), 1, n),
                    rest |-> SubSeq(input, p.len + 1, Len(input))]

(* split: the payload and what is left, without building the mask. *)
Split(input, n, coding) ==
  LET len == CASE coding = "Bitmap" -> CeilDiv(n)
               [] coding = "Runs"   -> LET r == RunsFrom(input, n) IN
                                       IF r.ok THEN Len(input) - Len(r.rest) ELSE -1
               [] coding = "Sparse" -> LET p == SparseParts(input, n) IN
                                       IF p.ok THEN p.len ELSE -1
  IN IF len < 0 \/ len > Len(input) THEN Fail
     ELSE [ok |-> TRUE, payload |-> SubSeq(input, 1, len), rest |-> SubSeq(input, len + 1, Len(input))]

(* popcount: the set bits of a payload that Split returned.  The bits of the *)
(* last byte past the end of the mask are masked off.                       *)
Popcount(payload, n, coding) ==
  CASE coding = "Bitmap" -> Count(SubSeq(Bits(payload), 1, n))
    [] coding = "Runs"   -> LET runs == RunsFrom(payload, n).runs IN
                            FoldLeftDomain(LAMBDA acc, k: acc + (IF k % 2 = 0 THEN runs[k] ELSE 0), 0, runs)
    [] coding = "Sparse" -> Count(SubSeq(Bits(Unsparse(SparseParts(payload, n), n)), 1, n))
=============================================================================
