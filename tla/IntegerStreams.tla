--------------------------- MODULE IntegerStreams ---------------------------
(***************************************************************************)
(* What a stream of values goes through between a column and its bytes:     *)
(* the logical techniques of src/rust/mlt-core/src/encoder/stream/ and      *)
(* src/rust/mlt-core/src/codecs/ (zigzag, deltas, deltas of deltas, runs),   *)
(* their inverses in src/rust/mlt-core/src/decoder/stream/, and the byte-RLE *)
(* of a v1 presence stream.  Words have WordBits bits and every subtraction  *)
(* wraps, so a delta between the two ends of the range comes back.           *)
(*                                                                         *)
(* A run counts at most the values of a layer, which a word always holds:    *)
(* the saturation in encode_rle is left out.                                *)
(***************************************************************************)
EXTENDS PresenceCoding

CONSTANT WordBits   \* 32 in the code

ASSUME WordBitsAssumption == WordBits \in Nat /\ WordBits >= 2

Modulus == 2^WordBits

ToWord(n) == n % Modulus
ToSigned(n) == LET w == ToWord(n) IN IF w >= Modulus \div 2 THEN w - Modulus ELSE w

(* zigzag: small magnitudes of either sign become small words. *)
Zigzag(s) == IF s >= 0 THEN 2 * s ELSE -2 * s - 1
Unzigzag(w) == IF w % 2 = 0 THEN w \div 2 ELSE -((w + 1) \div 2)

Deltas(s) == [i \in DOMAIN s |-> ToSigned(s[i] - (IF i = 1 THEN 0 ELSE s[i - 1]))]
Sums(d) == FoldLeft(LAMBDA acc, v: Append(acc, ToSigned(v + (IF acc = <<>> THEN 0 ELSE Last(acc)))), <<>>, d)
EachOf(Op(_), s) == [i \in DOMAIN s |-> Op(s[i])]

\* The sums of a reader are signed; a column is of type "U32" or "I32".
AsType(sums, type) == IF type = "I32" THEN sums ELSE EachOf(ToWord, sums)

(* The deltas that a reader sums, taken from the words of either type: an    *)
(* unsigned value is read as a signed one first.                            *)
encode_zigzag_delta(values) == EachOf(Zigzag, Deltas(EachOf(ToSigned, values)))
encode_zigzag_delta2(values) == EachOf(Zigzag, Deltas(Deltas(EachOf(ToSigned, values))))
decode_zigzag_delta(words, type) == AsType(Sums(EachOf(Unzigzag, words)), type)
decode_zigzag_delta2(words, type) == AsType(Sums(Sums(EachOf(Unzigzag, words))), type)

-----------------------------------------------------------------------------
(* Runs of equal words: the lengths, then the values (v1) or the two of each *)
(* run side by side (v2).                                                    *)
encode_rle(words) ==
  LET n == Len(words)
      starts == SelectSeq([i \in 1..(n + 1) |-> i],
                          LAMBDA i: i = 1 \/ i > n \/ words[i] # words[i - 1])
      count == IF n = 0 THEN 0 ELSE Len(starts) - 1
  IN [runs   |-> [k \in 1..count |-> starts[k + 1] - starts[k]],
      values |-> [k \in 1..count |-> words[starts[k]]]]

apply_rle(words, layout) ==
  LET r == encode_rle(words) IN
  IF layout = "Split" THEN r.runs \o r.values
  ELSE FlattenSeq([k \in DOMAIN r.runs |-> <<r.runs[k], r.values[k]>>])

Expand(runs, values) == FlattenSeq([k \in DOMAIN runs |-> [i \in 1..runs[k] |-> values[k]]])
Total(runs) == FoldLeft(LAMBDA a, b: a + b, 0, runs)

(* The reader knows the number of runs from the header (v1) or halves the    *)
(* words (v2), and both know how many values must come out.                 *)
decode_rle(words, layout, runs, num_rle_values) ==
  LET half  == IF layout = "Split" THEN runs ELSE Len(words) \div 2
      lens  == [k \in 1..half |-> IF layout = "Split" THEN words[k] ELSE words[2 * k - 1]]
      vals  == [k \in 1..half |-> IF layout = "Split" THEN words[half + k] ELSE words[2 * k]]
  IN IF Len(words) # 2 * half \/ Total(lens) # num_rle_values THEN Fail
     ELSE [ok |-> TRUE, values |-> Expand(lens, vals)]

-----------------------------------------------------------------------------
(* Byte-RLE, the only coding of a v1 presence stream: a control byte below   *)
(* Half repeats the next byte, one from Half on counts the bytes that follow *)
(* as they are.  Both counts have a limit, past which a run starts afresh.   *)
Half == 2^(ByteBits - 1)

RECURSIVE encode_byte_rle(_)
encode_byte_rle(data) ==
  LET n == Len(data)
      Repeats(i, k) == i + k - 1 <= n /\ \A j \in i..(i + k - 1) : data[j] = data[i]
      repeat  == Max({k \in 1..(Half + 2) : Repeats(1, k)})
      literal == Max({l \in 1..Half : l <= n /\ \A i \in 1..l : ~Repeats(i, 3)})
      After(k) == encode_byte_rle(SubSeq(data, k + 1, n))
  IN CASE n = 0       -> <<>>
       [] repeat >= 3 -> <<repeat - 3, data[1]>> \o After(repeat)
       [] OTHER       -> <<2 * Half - literal>> \o SubSeq(data, 1, literal) \o After(literal)

RECURSIVE decode_byte_rle(_, _)
decode_byte_rle(input, num_bytes) ==
  IF num_bytes <= 0 \/ input = <<>> THEN [ok |-> num_bytes = 0, bytes |-> <<>>]
  ELSE LET control == input[1]
           count == IF control >= Half THEN 2 * Half - control ELSE control + 3
           taken == IF control >= Half THEN count ELSE 1
           more  == decode_byte_rle(SubSeq(input, taken + 2, Len(input)), num_bytes - count)
           bytes == IF control >= Half THEN SubSeq(input, 2, count + 1)
                    ELSE [i \in 1..count |-> input[2]]
       IN IF Len(input) <= taken \/ ~more.ok THEN [ok |-> FALSE]
          ELSE [ok |-> TRUE, bytes |-> bytes \o more.bytes]

-----------------------------------------------------------------------------
(* The techniques an integer stream may be written with.  A stream without   *)
(* deltas zigzags a signed column and leaves an unsigned one as it is.       *)
Plain(values, type) == IF type = "I32" THEN EachOf(Zigzag, values) ELSE values
Unplain(words, type) == IF type = "I32" THEN EachOf(Unzigzag, words) ELSE words

(* The words a technique writes, and the number of runs the header keeps. *)
EncodeInts(values, type, technique, layout) ==
  LET deltas == encode_zigzag_delta(values)
      words == CASE technique = "None"     -> Plain(values, type)
                 [] technique = "Delta"    -> deltas
                 [] technique = "Delta2"   -> encode_zigzag_delta2(values)
                 [] technique = "Rle"      -> apply_rle(Plain(values, type), layout)
                 [] technique = "DeltaRle" -> apply_rle(deltas, layout)
      runs == CASE technique = "Rle"      -> Len(encode_rle(Plain(values, type)).runs)
                [] technique = "DeltaRle" -> Len(encode_rle(deltas).runs)
                [] OTHER -> 0
  IN [words |-> words, runs |-> runs]

DecodeInts(words, type, technique, layout, runs, count) ==
  LET expanded == IF technique \in {"Rle", "DeltaRle"} THEN decode_rle(words, layout, runs, count)
                  ELSE [ok |-> TRUE, values |-> words]
  IN IF ~expanded.ok THEN Fail
     ELSE [ok |-> TRUE,
           values |-> CASE technique \in {"None", "Rle"} -> Unplain(expanded.values, type)
                        [] technique \in {"Delta", "DeltaRle"} -> decode_zigzag_delta(expanded.values, type)
                        [] technique = "Delta2" -> decode_zigzag_delta2(expanded.values, type)]
=============================================================================
