------------------------ MODULE EncodePipelineProofs ------------------------
(***************************************************************************)
(* Proofs about EncodePipeline for any number of ids, encoders, permits    *)
(* and any out channel capacity: its types and its safety, and, as long as *)
(* no encoder panics, that a success leaves no tile behind and that the    *)
(* pipeline implements OrderedConversion.  See README.md for the argument. *)
(***************************************************************************)
EXTENDS EncodePipeline, FiniteSetTheorems, TLAPS

-----------------------------------------------------------------------------
(* Lemmas about the channels, which are sequences.                          *)

LEMMA AppendFacts ==
  ASSUME NEW S, NEW q \in Seq(S), NEW x \in S
  PROVE  /\ Append(q, x) \in Seq(S)
         /\ Len(Append(q, x)) = Len(q) + 1
         /\ Len(q) \in Nat
         /\ \A k \in 1..Len(q) : Append(q, x)[k] = q[k]
         /\ Append(q, x)[Len(q) + 1] = x
  OBVIOUS

LEMMA TailFacts ==
  ASSUME NEW S, NEW q \in Seq(S), q # <<>>
  PROVE  /\ Head(q) = q[1] /\ Head(q) \in S
         /\ Tail(q) \in Seq(S)
         /\ Len(q) \in Nat \ {0}
         /\ Len(Tail(q)) = Len(q) - 1
         /\ \A k \in 1..Len(Tail(q)) : Tail(q)[k] = q[k + 1]
  OBVIOUS

LEMMA ElementFacts ==
  ASSUME NEW S, NEW q \in Seq(S), NEW i \in 1..Len(q)
  PROVE  q[i] \in S
  OBVIOUS

LEMMA MessageFacts ==
  /\ Err \in Message /\ Err = -1
  /\ \A n \in Nat : n \in Message /\ n # Err
  /\ \A m \in Message : m \in Int /\ (m # Err => m \in Nat)
  BY DEF Message, Err

-----------------------------------------------------------------------------
(* Types and bounds of the sequence numbers.                                *)

\* The reader holds an id of the vector when it asks for a permit; sequence
\* numbers in flight index the raw channel's history.
SeqBounds ==
    /\ reader \in {"permit", "push"} => pos \in Ids
    /\ next <= Len(raw)
    /\ \A w \in Encoders : result[w] < Len(raw)
    /\ \A k \in 1..Len(res) : res[k] < Len(raw)
    /\ \A s \in buffer : s < Len(raw)
    /\ \A k \in 1..Len(out) : out[k] < Len(raw)

TInv == TypeOK /\ SeqBounds

\* A channel of messages all of which index the history raw.
Channel(q) == q \in Seq(Message) /\ \A k \in 1..Len(q) : q[k] < Len(raw)

LEMMA TInvInit == Init => TInv
  BY PipelineAssumption, MessageFacts DEF Init, TInv, TypeOK, SeqBounds, Ids

LEMMA SendResChannel ==
  ASSUME TInv, NEW m \in Message, m < Len(raw), SendRes(m), UNCHANGED raw
  PROVE  Channel(res)'
<1>1. /\ res \in Seq(Message) /\ \A k \in 1..Len(res) : res[k] < Len(raw)
      /\ Len(raw) \in Nat
  BY DEF TInv, TypeOK, SeqBounds
<1>2. CASE res' = res
  BY <1>1, <1>2 DEF Channel
<1>3. CASE res' = Append(res, m)
  BY <1>1, <1>3, AppendFacts DEF Channel
<1> QED
  BY <1>2, <1>3 DEF SendRes

\* A longer history keeps every bound.
LEMMA BoundsGrow ==
  ASSUME TInv, UNCHANGED <<next, result, res, buffer, out>>,
         reader' \notin {"permit", "push"}, Len(raw') = Len(raw) + 1
  PROVE  SeqBounds'
<1>1. Len(raw) \in Nat /\ next \in Nat /\ next <= Len(raw)
  BY DEF TInv, TypeOK, SeqBounds
<1>2. next' <= Len(raw')
  BY <1>1
<1>3. \A w \in Encoders : result[w] \in Int /\ result[w] < Len(raw)
  BY MessageFacts DEF TInv, TypeOK, SeqBounds
<1>4. \A w \in Encoders : result'[w] < Len(raw')
  BY <1>1, <1>3
<1>5. \A k \in 1..Len(res) : res[k] \in Int /\ res[k] < Len(raw)
  BY ElementFacts, MessageFacts DEF TInv, TypeOK, SeqBounds
<1>6. \A k \in 1..Len(res') : res'[k] < Len(raw')
  BY <1>1, <1>5
<1>7. \A s \in buffer' : s < Len(raw')
  BY <1>1 DEF TInv, TypeOK, SeqBounds
<1>8. \A k \in 1..Len(out) : out[k] \in Int /\ out[k] < Len(raw)
  BY ElementFacts, MessageFacts DEF TInv, TypeOK, SeqBounds
<1>9. \A k \in 1..Len(out') : out'[k] < Len(raw')
  BY <1>1, <1>8
<1> QED
  BY <1>2, <1>4, <1>6, <1>7, <1>9 DEF SeqBounds

LEMMA TInvStep == TInv /\ [Next]_vars => TInv'
<1> SUFFICES ASSUME TInv, [Next]_vars PROVE TInv'
  OBVIOUS
<1> USE PipelineAssumption, MessageFacts
        DEF TInv, TypeOK, SeqBounds, readerVars, encoderVars, emitterVars,
            consumerVars
<1>1. CASE ReaderStart
  <2>1. Channel(res)'
    <3>1. CASE UNCHANGED res
      BY <1>1, <3>1 DEF ReaderStart, Channel
    <3>2. CASE SendRes(Err)
      BY <1>1, <3>2, SendResChannel DEF ReaderStart
    <3> QED
      BY <1>1, <3>1, <3>2 DEF ReaderStart
  <2> QED
    BY <1>1, <2>1 DEF ReaderStart, Channel
<1>2. CASE ReaderGet
  <2>1. Channel(res)'
    <3>1. CASE UNCHANGED res
      BY <1>2, <3>1 DEF ReaderGet, Channel
    <3>2. CASE SendRes(Err)
      BY <1>2, <3>2, SendResChannel DEF ReaderGet
    <3> QED
      BY <1>2, <3>1, <3>2 DEF ReaderGet
  <2>2. pos' \in 1..(NumIds + 1) /\ (reader' = "permit" => pos' \in Ids)
    BY <1>2 DEF ReaderGet, Ids
  <2> QED
    BY <1>2, <2>1, <2>2 DEF ReaderGet, Channel
<1>3. CASE ReaderTakePermit
  BY <1>3 DEF ReaderTakePermit
<1>4. CASE ReaderPush
  <2>1. CASE raw' = raw
    BY <1>4, <2>1 DEF ReaderPush
  <2>2. CASE raw' = Append(raw, pos)
    <3>1. /\ raw' \in Seq(Ids)
          /\ Len(raw') = Len(raw) + 1
          /\ Len(raw) \in Nat
      BY <1>4, <2>2, AppendFacts DEF ReaderPush
    <3>2. pos' \in 1..(NumIds + 1)
      BY <1>4 DEF ReaderPush, Ids
    <3>3. TypeOK'
      BY <1>4, <3>1, <3>2 DEF ReaderPush
    <3>4. SeqBounds'
      <4>1. UNCHANGED <<next, result, res, buffer, out>>
        BY <1>4 DEF ReaderPush
      <4>2. reader' \notin {"permit", "push"}
        BY <1>4, <2>2, <3>1 DEF ReaderPush
      <4> QED
        BY <3>1, <4>1, <4>2, BoundsGrow
    <3> QED
      BY <3>3, <3>4
  <2> QED
    BY <1>4, <2>1, <2>2 DEF ReaderPush
<1>5. ASSUME NEW w \in Encoders, EncoderTake(w) PROVE TInv'
  <2>1. Len(raw) \in Nat /\ taken \in Nat /\ taken < Len(raw)
    BY <1>5 DEF EncoderTake
  <2>2. /\ result' \in [Encoders -> Message]
        /\ \A v \in Encoders : result'[v] < Len(raw)
    <3>1. CASE result' = [result EXCEPT ![w] = taken]
      BY <2>1, <3>1
    <3>2. CASE result' = [result EXCEPT ![w] = Err]
      BY <2>1, <3>2
    <3>3. CASE UNCHANGED result
      BY <3>3
    <3> QED
      BY <1>5, <3>1, <3>2, <3>3 DEF EncoderTake
  <2>3. enc' \in [Encoders -> {"recv", "send", "exited"}]
    BY <1>5 DEF EncoderTake
  <2> QED
    BY <1>5, <2>1, <2>2, <2>3 DEF EncoderTake
<1>6. ASSUME NEW w \in Encoders, EncoderClosed(w) PROVE TInv'
  BY <1>6 DEF EncoderClosed
<1>7. ASSUME NEW w \in Encoders, EncoderSend(w) PROVE TInv'
  <2>1. Channel(res)'
    BY <1>7, SendResChannel DEF EncoderSend
  <2> QED
    BY <1>7, <2>1 DEF EncoderSend, Channel
<1>8. CASE EmitterReceive
  <2>1. /\ Head(res) \in Message /\ Head(res) < Len(raw)
        /\ Channel(res)'
    BY <1>8, TailFacts DEF EmitterReceive, Channel
  <2> QED
    BY <1>8, <2>1 DEF EmitterReceive, Channel
<1>9. CASE EmitterClosed
  BY <1>9 DEF EmitterClosed
<1>10. CASE EmitterDrain
  <2>1. Channel(out)' /\ Len(out') <= OutCap
    BY <1>10, AppendFacts DEF EmitterDrain, Channel
  <2> QED
    BY <1>10, <2>1 DEF EmitterDrain, Channel
<1>11. CASE EmitterDrained
  BY <1>11 DEF EmitterDrained
<1>12. CASE EmitterForwardError
  <2>1. Channel(out)' /\ Len(out') <= OutCap
    BY <1>12, AppendFacts DEF EmitterForwardError, Channel
  <2> QED
    BY <1>12, <2>1 DEF EmitterForwardError, Channel
<1>13. CASE EmitterConsumerGone
  BY <1>13 DEF EmitterConsumerGone
<1>14. CASE EmitterJoin
  BY <1>14 DEF EmitterJoin
<1>15. CASE ConsumerReceive
  <2>1. Head(out) \in Message /\ Head(out) < Len(raw) /\ Len(raw) \in Nat
    BY <1>15, TailFacts DEF ConsumerReceive
  <2>2. Channel(out)' /\ Len(out') <= OutCap
    <3>1. CASE out' = Tail(out)
      BY <1>15, <3>1, TailFacts DEF ConsumerReceive, Channel
    <3>2. CASE out' = <<>>
      BY <1>15, <3>2 DEF ConsumerReceive, Channel
    <3> QED
      BY <1>15, <3>1, <3>2 DEF ConsumerReceive
  <2>3. written' \in Seq(Ids)
    <3>1. CASE UNCHANGED written
      BY <3>1
    <3>2. CASE Head(out) # Err /\ written' = Append(written, raw[Head(out) + 1])
      <4>1. raw[Head(out) + 1] \in Ids
        <5>1. Head(out) \in Nat
          BY <2>1, <3>2
        <5>2. Head(out) + 1 \in 1..Len(raw) /\ raw \in Seq(Ids)
          BY <2>1, <5>1
        <5> QED
          BY <5>2, ElementFacts
      <4> QED
        BY <3>2, <4>1, AppendFacts
    <3> QED
      BY <1>15, <3>1, <3>2 DEF ConsumerReceive
  <2> QED
    BY <1>15, <2>2, <2>3 DEF ConsumerReceive, Channel
<1>16. CASE ConsumerFinalize
  BY <1>16 DEF ConsumerFinalize
<1>17. CASE UNCHANGED vars
  BY <1>17 DEF vars
<1> QED
  BY <1>1, <1>2, <1>3, <1>4, <1>5, <1>6, <1>7, <1>8, <1>9, <1>10, <1>11,
     <1>12, <1>13, <1>14, <1>15, <1>16, <1>17
  DEF Next, Reader, Encoder, Emitter, Consumer, Returned

\* Every variable keeps its type, and no message carries a number the reader has
\* not sent.
THEOREM TypeCorrect == Spec => []TInv
  BY TInvInit, TInvStep, PTL DEF Spec

\* The plain type invariant the runs check.
THEOREM TypesHold == Spec => []TypeOK
  BY TypeCorrect, PTL DEF TInv

-----------------------------------------------------------------------------
(* Permits.                                                                 *)

PInv == PermitsConserved /\ InFlightBounded

LEMMA PInvInit == Init => PInv
  BY PipelineAssumption DEF Init, PInv, PermitsConserved, InFlightBounded

LEMMA PInvStep == TInv /\ PInv /\ [Next]_vars => PInv'
<1> SUFFICES ASSUME TInv, PInv, [Next]_vars PROVE PInv'
  OBVIOUS
<1> USE DEF PInv, PermitsConserved, InFlightBounded, readerVars, encoderVars,
            emitterVars, consumerVars
<1>1. /\ permits \in Nat /\ Len(raw) \in Nat /\ next \in Nat /\ Cap \in Nat
      /\ next <= Len(raw)
  BY PipelineAssumption DEF TInv, TypeOK, SeqBounds
<1>2. CASE UNCHANGED <<reader, permits, raw, next>>
  BY <1>1, <1>2
<1>3. CASE ReaderStart
  BY <1>1, <1>3 DEF ReaderStart
<1>4. CASE ReaderGet
  BY <1>1, <1>4 DEF ReaderGet
<1>5. CASE ReaderTakePermit
  BY <1>1, <1>5 DEF ReaderTakePermit
<1>6. CASE ReaderPush
  <2>1. CASE raw' = raw /\ reader' = "exited"
    BY <1>1, <1>6, <2>1 DEF ReaderPush
  <2>2. CASE raw' = Append(raw, pos) /\ reader' = "get"
    <3>1. Len(raw') = Len(raw) + 1
      BY <2>2, <1>6, AppendFacts DEF ReaderPush, TInv, TypeOK, SeqBounds
    <3> QED
      BY <1>1, <1>6, <2>2, <3>1 DEF ReaderPush
  <2> QED
    BY <1>6, <2>1, <2>2 DEF ReaderPush
<1>7. CASE EmitterDrain
  BY <1>1, <1>7 DEF EmitterDrain
<1> QED
  BY <1>2, <1>3, <1>4, <1>5, <1>6, <1>7
  DEF Next, vars, Reader, Encoder, EncoderTake, EncoderClosed, EncoderSend,
      Emitter, EmitterReceive, EmitterClosed, EmitterDrained,
      EmitterForwardError, EmitterConsumerGone, EmitterJoin, Consumer,
      ConsumerReceive, ConsumerFinalize, Returned

\* However the threads interleave, no permit is lost or made up while the reader
\* lives, so at most Cap tiles are ever between the reader and the output.
THEOREM PermitsCorrect == Spec => [](PermitsConserved /\ InFlightBounded)
<1>1. TInv /\ PInv /\ [Next]_vars => (TInv /\ PInv)'
  BY TInvStep, PInvStep
<1> QED
  BY <1>1, TInvInit, PInvInit, PTL DEF Spec, PInv

\* With the in-order emission stuck on one slow tile, raw, encoded and buffered
\* tiles together never exceed the permits (from_pmtiles.rs:168).
THEOREM InFlightCorrect == Spec => []InFlightBounded
  BY PermitsCorrect, PTL

-----------------------------------------------------------------------------
(* The order of the output.                                                 *)

NoErr(q, k) == \A j \in 1..k : q[j] # Err

OutInv ==
    /\ conv # "running" => out = <<>>
    /\ Len(written) <= Len(raw)
    /\ \A k \in 1..Len(written) : written[k] = raw[k]
    /\ \A k \in 1..Len(out) : NoErr(out, k) => out[k] = Len(written) + k - 1
    /\ conv = "running" /\ NoErr(out, Len(out)) =>
          next = Len(written) + Len(out)

LEMMA NoErrExtends ==
  ASSUME NEW q, NEW r, NEW n \in Nat, \A k \in 1..n : r[k] = q[k]
  PROVE  /\ \A k \in 0..n : NoErr(r, k) <=> NoErr(q, k)
         /\ NoErr(r, n + 1) <=> NoErr(q, n) /\ r[n + 1] # Err
<1>1. ASSUME NEW k \in 0..n PROVE NoErr(r, k) <=> NoErr(q, k)
  <2>1. \A j \in 1..k : j \in 1..n
    OBVIOUS
  <2> QED
    BY <2>1 DEF NoErr
<1>2. NoErr(r, n + 1) <=> NoErr(r, n) /\ r[n + 1] # Err
  <2>1. 1..(n + 1) = 1..n \cup {n + 1}
    OBVIOUS
  <2> QED
    BY <2>1 DEF NoErr
<1>3. n \in 0..n
  OBVIOUS
<1> QED
  BY <1>1, <1>2, <1>3

LEMMA OutInvInit == Init => OutInv
  BY DEF Init, OutInv, NoErr

LEMMA OutInvStep == TInv /\ OutInv /\ [Next]_vars => OutInv'
<1> SUFFICES ASSUME TInv, OutInv, [Next]_vars PROVE OutInv'
  OBVIOUS
<1> USE DEF OutInv, readerVars, encoderVars, emitterVars, consumerVars
<1>1. /\ raw \in Seq(Ids) /\ out \in Seq(Message) /\ written \in Seq(Ids)
      /\ Len(raw) \in Nat /\ Len(out) \in Nat /\ Len(written) \in Nat
      /\ next \in Nat
  BY DEF TInv, TypeOK
<1>2. CASE UNCHANGED <<raw, out, written, conv, next>>
  BY <1>2 DEF NoErr
<1>3. CASE ReaderPush
  <2>1. CASE raw' = raw
    BY <1>2, <1>3, <2>1 DEF ReaderPush
  <2>2. CASE raw' = Append(raw, pos)
    <3>1. /\ Len(raw') = Len(raw) + 1
          /\ \A k \in 1..Len(raw) : raw'[k] = raw[k]
      BY <1>1, <1>3, <2>2, AppendFacts DEF ReaderPush, TInv, SeqBounds
    <3>2. UNCHANGED <<out, written, conv, next>>
      BY <1>3 DEF ReaderPush
    <3> QED
      BY <1>1, <3>1, <3>2 DEF NoErr
  <2> QED
    BY <1>3, <2>1, <2>2 DEF ReaderPush
<1>4. CASE EmitterDrain \/ EmitterForwardError
  <2> DEFINE m == IF emitter = "drain" THEN next ELSE Err
  <2>1. /\ conv = "running" /\ out' = Append(out, m) /\ m \in Message
        /\ next' = (IF m = Err THEN next ELSE m + 1)
        /\ m # Err => m = next
        /\ UNCHANGED <<raw, written, conv>>
    BY <1>1, <1>4, MessageFacts DEF EmitterDrain, EmitterForwardError, ConsumerAlive
  <2> HIDE DEF m
  <2>2. /\ Len(out') = Len(out) + 1
        /\ \A k \in 1..Len(out) : out'[k] = out[k]
        /\ out'[Len(out) + 1] = m
    BY <1>1, <2>1, AppendFacts
  <2>3. /\ \A k \in 0..Len(out) : NoErr(out', k) <=> NoErr(out, k)
        /\ NoErr(out', Len(out) + 1) <=> NoErr(out, Len(out)) /\ m # Err
    <3> DEFINE n == Len(out)
               r == out'
    <3>1. n \in Nat /\ \A k \in 1..n : r[k] = out[k]
      BY <1>1, <2>2
    <3>2. r[n + 1] = m
      BY <2>2
    <3> HIDE DEF n, r
    <3>3. /\ \A k \in 0..n : NoErr(r, k) <=> NoErr(out, k)
          /\ NoErr(r, n + 1) <=> NoErr(out, n) /\ r[n + 1] # Err
      BY <3>1, NoErrExtends, SMTT(40)
    <3> QED
      BY <3>2, <3>3 DEF n, r
  <2>4. \A k \in 1..Len(out') : NoErr(out', k) => out'[k] = Len(written) + k - 1
    <3> SUFFICES ASSUME NEW k \in 1..Len(out'), NoErr(out', k)
                 PROVE  out'[k] = Len(written) + k - 1
      OBVIOUS
    <3>1. CASE k \in 1..Len(out)
      BY <1>1, <2>2, <2>3, <3>1
    <3>2. CASE k = Len(out) + 1
      BY <1>1, <2>1, <2>2, <2>3, <3>2
    <3> QED
      BY <1>1, <2>2, <3>1, <3>2
  <2>5. NoErr(out', Len(out')) => next' = Len(written') + Len(out')
    BY <1>1, <2>1, <2>2, <2>3
  <2> QED
    BY <1>1, <2>1, <2>4, <2>5
<1>5. CASE ConsumerReceive
  <2>1. CASE conv' = "failed" /\ out' = <<>> /\ UNCHANGED written
    BY <1>1, <1>5, <2>1 DEF ConsumerReceive, NoErr
  <2>2. CASE /\ Head(out) # Err /\ out' = Tail(out) /\ UNCHANGED conv
             /\ written' = Append(written, raw[Head(out) + 1])
    <3>1. /\ out # <<>> /\ conv = "running" /\ UNCHANGED <<raw, next>>
      BY <1>5 DEF ConsumerReceive, ConsumerAlive
    <3>2. /\ Len(out) \in Nat \ {0}
          /\ Head(out) = out[1]
          /\ Len(out') = Len(out) - 1
          /\ \A k \in 1..Len(out') : out'[k] = out[k + 1]
      BY <1>1, <2>2, <3>1, TailFacts
    <3>3. Head(out) = Len(written) /\ Len(written) < Len(raw)
      <4>1. NoErr(out, 1)
        BY <2>2, <3>2 DEF NoErr
      <4> QED
        BY <1>1, <3>2, <4>1 DEF TInv, SeqBounds
    <3>4. /\ Len(written') = Len(written) + 1
          /\ \A k \in 1..Len(written) : written'[k] = written[k]
          /\ written'[Len(written) + 1] = raw[Len(written) + 1]
      <4>1. raw[Len(written) + 1] \in Ids
        BY <1>1, <3>3, ElementFacts
      <4> QED
        BY <1>1, <2>2, <3>3, <4>1, AppendFacts
    <3>5. \A k \in 0..Len(out') : NoErr(out', k) <=> NoErr(out, k + 1)
      <4>1. ASSUME NEW k \in 0..Len(out'), NoErr(out', k)
            PROVE  NoErr(out, k + 1)
        <5> SUFFICES ASSUME NEW j \in 1..(k + 1) PROVE out[j] # Err
          BY DEF NoErr
        <5>1. CASE j = 1
          BY <2>2, <3>2, <5>1
        <5>2. CASE j # 1
          <6>1. j - 1 \in 1..k /\ j - 1 \in 1..Len(out')
            BY <5>2, <3>2
          <6>2. out'[j - 1] = out[j - 1 + 1] /\ j - 1 + 1 = j
            BY <3>2, <6>1
          <6>3. out'[j - 1] # Err
            BY <4>1, <6>1 DEF NoErr
          <6> QED
            BY <6>2, <6>3
        <5> QED
          BY <5>1, <5>2
      <4>2. ASSUME NEW k \in 0..Len(out'), NoErr(out, k + 1)
            PROVE  NoErr(out', k)
        <5> SUFFICES ASSUME NEW j \in 1..k PROVE out'[j] # Err
          BY DEF NoErr
        <5> QED
          BY <3>2, <4>2, SMTT(40) DEF NoErr
      <4> QED
        BY <4>1, <4>2
    <3>6. \A k \in 1..Len(out') : NoErr(out', k) => out'[k] = Len(written') + k - 1
      BY <1>1, <3>2, <3>4, <3>5
    <3>7. NoErr(out', Len(out')) => next' = Len(written') + Len(out')
      BY <1>1, <3>1, <3>2, <3>4, <3>5
    <3>8. \A k \in 1..Len(written') : written'[k] = raw'[k]
      BY <1>1, <3>1, <3>4
    <3> QED
      BY <1>1, <2>2, <3>1, <3>3, <3>4, <3>6, <3>7, <3>8
  <2> QED
    BY <1>5, <2>1, <2>2 DEF ConsumerReceive
<1>6. CASE ConsumerFinalize
  BY <1>1, <1>6 DEF ConsumerFinalize, NoErr
<1> QED
  BY <1>2, <1>3, <1>4, <1>5, <1>6
  DEF Next, vars, Reader, ReaderStart, ReaderGet, ReaderTakePermit, Encoder,
      EncoderTake, EncoderClosed, EncoderSend, Emitter, EmitterReceive,
      EmitterClosed, EmitterDrained, EmitterConsumerGone, EmitterJoin,
      Consumer, Returned

\* The writer receives the tiles the reader read, in the reader's order and with
\* no gap, whatever the order in which encoders finish and whatever fails.
THEOREM OutputCorrect == Spec => []OutputInOrder
<1>1. TInv /\ OutInv /\ [Next]_vars => (TInv /\ OutInv)'
  BY TInvStep, OutInvStep
<1>2. TInv /\ OutInv => OutputInOrder
  <2> SUFFICES ASSUME TInv, OutInv PROVE OutputInOrder
    OBVIOUS
  <2>1. DOMAIN written = 1..Len(written) /\ DOMAIN out = 1..Len(out)
    BY DEF TInv, TypeOK
  <2> QED
    BY <2>1 DEF OutInv, OutputInOrder, NoErr
<1> QED
  BY <1>1, <1>2, TInvInit, OutInvInit, PTL DEF Spec

-----------------------------------------------------------------------------
(* One place per tile.                                                      *)

\* What has left the raw channel carries a number below taken.
Passed ==
    /\ \A w \in Encoders : enc[w] = "send" => result[w] < taken
    /\ \A k \in 1..Len(res) : res[k] < taken
    /\ \A s \in buffer : s < taken
    /\ next <= taken

\* Encoders, the res channel, the buffer and the output share no number.
Apart ==
    /\ \A w \in Encoders : enc[w] = "send" /\ result[w] # Err =>
          /\ \A v \in Encoders : enc[v] = "send" /\ result[v] = result[w] => v = w
          /\ \A k \in 1..Len(res) : res[k] # result[w]
          /\ result[w] \notin buffer /\ result[w] >= next
    /\ \A k \in 1..Len(res) : res[k] # Err =>
          /\ \A j \in 1..Len(res) : res[j] = res[k] => j = k
          /\ res[k] \notin buffer /\ res[k] >= next
    /\ \A s \in buffer : s >= next

PlaceInv == Passed /\ Apart

LEMMA PlaceInvInit == Init => PlaceInv
  BY PipelineAssumption DEF Init, PlaceInv, Passed, Apart

LEMMA PlaceInvStep == TInv /\ PlaceInv /\ [Next]_vars => PlaceInv'
<1> SUFFICES ASSUME TInv, PlaceInv, [Next]_vars PROVE PlaceInv'
  OBVIOUS
<1> USE MessageFacts DEF PlaceInv, readerVars, encoderVars, emitterVars, consumerVars
<1>1. /\ taken \in Nat /\ next \in Nat /\ res \in Seq(Message) /\ Len(res) \in Nat
      /\ raw \in Seq(Ids) /\ Len(raw) \in Nat
      /\ \A w \in Encoders : result[w] \in Message
      /\ \A k \in 1..Len(res) : res[k] \in Message
      /\ buffer \subseteq Nat
  BY ElementFacts DEF TInv, TypeOK
<1>2. CASE UNCHANGED <<taken, enc, result, res, buffer, next>>
  BY <1>2 DEF Passed, Apart
\* A number joins the channel that no other place has.
<1>3. ASSUME NEW m \in Message, SendRes(m), UNCHANGED <<taken, result, buffer, next>>,
             m < taken,
             \A w \in Encoders : enc'[w] = "send" => enc[w] = "send",
             m # Err =>
                /\ \A w \in Encoders : enc'[w] = "send" => result[w] # m
                /\ \A k \in 1..Len(res) : res[k] # m
                /\ m \notin buffer /\ m >= next
      PROVE  PlaceInv'
  <2>1. CASE UNCHANGED res
    BY <1>3, <2>1 DEF Passed, Apart
  <2>2. CASE res' = Append(res, m)
    <3>1. /\ Len(res') = Len(res) + 1
          /\ \A k \in 1..Len(res) : res'[k] = res[k]
          /\ res'[Len(res) + 1] = m
      BY <1>1, <1>3, <2>2, AppendFacts
    <3>2. \A k \in 1..Len(res') : k \in 1..Len(res) \/ k = Len(res) + 1
      BY <1>1, <3>1
    <3>3. Passed'
      BY <1>1, <1>3, <3>1, <3>2 DEF Passed
    <3>4. Apart'
      BY <1>1, <1>3, <3>1, <3>2 DEF Apart
    <3> QED
      BY <3>3, <3>4
  <2> QED
    BY <1>3, <2>1, <2>2 DEF SendRes
<1>4. CASE ReaderStart
  BY <1>1, <1>2, <1>3, <1>4 DEF ReaderStart
<1>5. CASE ReaderGet
  BY <1>1, <1>2, <1>3, <1>5 DEF ReaderGet
<1>6. ASSUME NEW w \in Encoders, EncoderTake(w)
      PROVE  PlaceInv'
  <2>1. /\ taken' = taken + 1 /\ enc[w] = "recv" /\ UNCHANGED <<res, buffer, next>>
        /\ \A v \in Encoders \ {w} : enc'[v] = enc[v] /\ result'[v] = result[v]
        /\ enc'[w] = "send" => result'[w] \in {taken, Err}
    BY <1>6 DEF EncoderTake, TInv, TypeOK
  <2>2. Passed'
    <3>1. \A x \in Int : x < taken => x < taken'
      BY <1>1, <2>1
    <3>2. \A v \in Encoders : enc'[v] = "send" => result'[v] < taken'
      <4>1. taken < taken' /\ Err < taken'
        BY <1>1, <2>1
      <4>2. \A v \in Encoders \ {w} : enc'[v] = "send" => result'[v] < taken'
        BY <1>1, <2>1, <3>1 DEF Passed
      <4> QED
        BY <2>1, <4>1, <4>2
    <3>3. next <= taken'
      BY <1>1, <2>1 DEF Passed
    <3> QED
      BY <1>1, <2>1, <3>1, <3>2, <3>3 DEF Passed
  <2>3. \A v \in Encoders \ {w} : enc[v] = "send" => result[v] # taken
    BY <1>1 DEF Passed
  <2>4. (\A k \in 1..Len(res) : res[k] # taken) /\ taken \notin buffer /\ taken >= next
    BY <1>1 DEF Passed
  <2>5. Apart'
    <3>1. \A v \in Encoders : enc'[v] = "send" /\ result'[v] # Err =>
             \/ v # w /\ enc[v] = "send" /\ result'[v] = result[v] /\ result[v] # taken
             \/ v = w /\ result'[v] = taken
      BY <2>1, <2>3
    <3>2. \A v \in Encoders : enc'[v] = "send" /\ result'[v] # Err =>
             \A u \in Encoders : enc'[u] = "send" /\ result'[u] = result'[v] => u = v
      BY <3>1 DEF Apart
    <3>3. \A v \in Encoders : enc'[v] = "send" /\ result'[v] # Err =>
             /\ \A k \in 1..Len(res) : res[k] # result'[v]
             /\ result'[v] \notin buffer /\ result'[v] >= next
      BY <2>4, <3>1 DEF Apart
    <3> QED
      BY <2>1, <3>2, <3>3 DEF Apart
  <2> QED
    BY <2>2, <2>5
<1>7. ASSUME NEW w \in Encoders, EncoderClosed(w)
      PROVE  PlaceInv'
  <2>1. \A v \in Encoders : enc'[v] = "send" => enc[v] = "send"
    BY <1>7 DEF EncoderClosed, TInv, TypeOK
  <2> QED
    BY <1>7, <2>1 DEF EncoderClosed, Passed, Apart
<1>8. ASSUME NEW w \in Encoders, EncoderSend(w)
      PROVE  PlaceInv'
  <2>1. /\ enc[w] = "send" /\ SendRes(result[w])
        /\ UNCHANGED <<taken, result, buffer, next>>
        /\ enc'[w] # "send" /\ \A v \in Encoders \ {w} : enc'[v] = enc[v]
    BY <1>8 DEF EncoderSend, TInv, TypeOK
  <2>2. \A v \in Encoders : enc'[v] = "send" => enc[v] = "send" /\ v # w
    BY <2>1
  <2>3. result[w] # Err =>
           /\ \A v \in Encoders : enc'[v] = "send" => result[v] # result[w]
           /\ \A k \in 1..Len(res) : res[k] # result[w]
           /\ result[w] \notin buffer /\ result[w] >= next
    BY <2>1, <2>2 DEF Apart
  <2> QED
    BY <1>1, <1>3, <2>1, <2>2, <2>3 DEF Passed
<1>9. CASE EmitterReceive
  <2>1. /\ res # <<>> /\ res' = Tail(res) /\ UNCHANGED <<taken, enc, result, next>>
        /\ \/ Head(res) # Err /\ buffer' = buffer \cup {Head(res)}
           \/ UNCHANGED buffer
    BY <1>9 DEF EmitterReceive
  <2>2. /\ Head(res) = res[1] /\ 1 \in 1..Len(res) /\ Len(res') = Len(res) - 1
        /\ \A k \in 1..Len(res') : k + 1 \in 1..Len(res) /\ k + 1 # 1 /\ res'[k] = res[k + 1]
    BY <1>1, <2>1, TailFacts
  <2>3. Passed'
    BY <1>1, <2>1, <2>2 DEF Passed
  <2>4. \A k \in 1..Len(res') : res'[k] # Err =>
           /\ \A j \in 1..Len(res') : res'[j] = res'[k] => j = k
           /\ res'[k] \notin buffer' /\ res'[k] >= next
    <3> TAKE k \in 1..Len(res')
    <3> HAVE res'[k] # Err
    <3>1. /\ k + 1 \in 1..Len(res) /\ res[k + 1] = res'[k] /\ k + 1 # 1
      BY <2>2
    <3>2. res[k + 1] # res[1]
      BY <2>2, <3>1 DEF Apart
    <3>3. \A j \in 1..Len(res') : res'[j] = res'[k] => j + 1 = k + 1
      BY <2>2, <3>1 DEF Apart
    <3>4. \A j \in 1..Len(res') : j + 1 = k + 1 => j = k
      BY <1>1, <2>2
    <3>5. res[k + 1] \notin buffer /\ res[k + 1] >= next
      BY <3>1 DEF Apart
    <3> QED
      BY <2>1, <2>2, <3>1, <3>2, <3>3, <3>4, <3>5
  <2>5. \A w \in Encoders : enc[w] = "send" /\ result[w] # Err =>
           /\ \A k \in 1..Len(res') : res'[k] # result[w]
           /\ result[w] \notin buffer'
    BY <2>1, <2>2 DEF Apart
  <2>6. \A s \in buffer' : s >= next
    BY <2>1, <2>2 DEF Apart
  <2>7. Apart'
    BY <2>1, <2>4, <2>5, <2>6 DEF Apart
  <2> QED
    BY <2>3, <2>7
<1>10. CASE EmitterDrain
  <2>1. /\ next \in buffer /\ buffer' = buffer \ {next} /\ next' = next + 1
        /\ UNCHANGED <<taken, enc, result, res>>
    BY <1>10 DEF EmitterDrain
  <2>2. Passed'
    BY <1>1, <2>1 DEF Passed
  <2>0. \A x \in Int : x >= next /\ x # next => x >= next'
    BY <1>1, <2>1
  <2>3. \A w \in Encoders : enc[w] = "send" /\ result[w] # Err =>
           result[w] \notin buffer' /\ result[w] >= next'
    BY <1>1, <2>0, <2>1, ZenonT(40) DEF Apart
  <2>4. \A k \in 1..Len(res) : res[k] # Err => res[k] \notin buffer' /\ res[k] >= next'
    BY <1>1, <2>0, <2>1 DEF Apart
  <2>5. \A s \in buffer' : s >= next'
    BY <1>1, <2>1 DEF Apart
  <2>6. Apart'
    BY <2>1, <2>3, <2>4, <2>5 DEF Apart
  <2> QED
    BY <2>2, <2>6
<1>11. CASE EmitterConsumerGone
  BY <1>11 DEF EmitterConsumerGone, Passed, Apart
<1> QED
  BY <1>2, <1>4, <1>5, <1>6, <1>7, <1>8, <1>9, <1>10, <1>11
  DEF Next, vars, Reader, ReaderTakePermit, ReaderPush, Encoder, Emitter, EmitterClosed,
      EmitterDrained, EmitterForwardError, EmitterJoin, Consumer, ConsumerReceive,
      ConsumerFinalize, Returned

LEMMA PlacesCount == TInv /\ PlaceInv => TileInOnePlace
<1> SUFFICES ASSUME TInv, PlaceInv, NEW s \in 0..(Len(raw) - 1)
             PROVE  Cardinality(Slots(s)) <= 1
  BY DEF TileInOnePlace
<1>1. /\ s \in Nat /\ s # Err /\ taken \in Nat /\ next \in Nat /\ Len(raw) \in Nat
      /\ DOMAIN res = 1..Len(res)
  BY MessageFacts DEF TInv, TypeOK
<1> DEFINE raws == IF s \in taken..(Len(raw) - 1) THEN {<<"raw", 0>>} ELSE {}
           encs == {<<"enc", w>> : w \in {v \in Encoders : enc[v] = "send" /\ result[v] = s}}
           ress == {<<"res", k>> : k \in {j \in DOMAIN res : res[j] = s}}
           bufs == IF s \in buffer THEN {<<"buffer", 0>>} ELSE {}
           outs == IF s < next THEN {<<"emitted", 0>>} ELSE {}
<1>2. Slots(s) = raws \cup encs \cup ress \cup bufs \cup outs
  BY Zenon DEF Slots
<1>3. /\ raws # {} => encs = {} /\ ress = {} /\ bufs = {} /\ outs = {}
      /\ encs # {} => ress = {} /\ bufs = {} /\ outs = {}
      /\ ress # {} => bufs = {} /\ outs = {}
      /\ bufs # {} => outs = {}
  <2>1. CASE s >= taken
    <3>1. encs = {} /\ ress = {}
      BY <1>1, <2>1 DEF PlaceInv, Passed
    <3>2. bufs = {} /\ outs = {}
      BY <1>1, <2>1 DEF PlaceInv, Passed
    <3> QED
      BY <3>1, <3>2
  <2>2. CASE s < taken
    <3>1. raws = {}
      BY <1>1, <2>2
    <3>2. encs # {} => ress = {} /\ s \notin buffer /\ ~(s < next)
      <4> SUFFICES ASSUME NEW w \in Encoders, enc[w] = "send", result[w] = s
                   PROVE  ress = {} /\ s \notin buffer /\ ~(s < next)
        OBVIOUS
      <4>1. (\A k \in 1..Len(res) : res[k] # s) /\ s \notin buffer /\ s >= next
        BY <1>1 DEF PlaceInv, Apart
      <4> QED
        BY <1>1, <4>1
    <3>3. ress # {} => s \notin buffer /\ ~(s < next)
      BY <1>1 DEF PlaceInv, Apart
    <3>4. s \in buffer => ~(s < next)
      BY <1>1 DEF PlaceInv, Apart
    <3> QED
      BY <3>1, <3>2, <3>3, <3>4
  <2> QED
    BY <1>1, <2>1, <2>2
<1>4. /\ \A a, b \in encs : a = b
      /\ \A a, b \in ress : a = b
  BY <1>1 DEF PlaceInv, Apart
<1>5. \A a, b \in Slots(s) : a = b
  <2>1. (\A a, b \in raws : a = b) /\ (\A a, b \in bufs : a = b) /\ (\A a, b \in outs : a = b)
    OBVIOUS
  <2> HIDE DEF raws, encs, ress, bufs, outs
  <2> QED
    BY <1>2, <1>3, <1>4, <2>1
<1>6. Slots(s) = {} \/ \E a : Slots(s) = {a}
  BY <1>5
<1>7. Cardinality(Slots(s)) \in {0, 1}
  BY <1>6, FS_EmptySet, FS_Singleton
<1> QED
  BY <1>7

\* From the reader's send to the out channel a tile is at one place: nothing is
\* encoded, buffered or forwarded twice (from_pmtiles.rs:215-289).
THEOREM PlacesCorrect == Spec => []TileInOnePlace
<1>1. TInv /\ PlaceInv /\ [Next]_vars => (TInv /\ PlaceInv)'
  BY TInvStep, PlaceInvStep
<1> QED
  BY <1>1, TInvInit, PlaceInvInit, PlacesCount, PTL DEF Spec

-----------------------------------------------------------------------------
(* Conversions in which no encoder panics.  A panic is swallowed by the     *)
(* join, and the conversion reports success without the tile.               *)

NoPanic == "panics" \notin Outcomes

-----------------------------------------------------------------------------
(* What the reader has sent.                                                *)

\* raw lists exactly the ids with a tile that the reader has passed, ascending.
RawInv ==
    /\ \A k \in 1..Len(raw) : raw[k] < pos /\ archive[raw[k]] # "missing"
    /\ \A j, k \in 1..Len(raw) : j < k => raw[j] < raw[k]
    /\ \A id \in Ids : id < pos /\ archive[id] # "missing" =>
          \E k \in 1..Len(raw) : raw[k] = id
    /\ reader \in {"permit", "push"} => archive[pos] # "missing"

LEMMA RawInvInit == Init => RawInv
  BY PipelineAssumption DEF Init, RawInv, Ids

LEMMA RawInvStep == TInv /\ RawInv /\ [Next]_vars => RawInv'
<1> SUFFICES ASSUME TInv, RawInv, [Next]_vars PROVE RawInv'
  OBVIOUS
<1> USE DEF readerVars, encoderVars, emitterVars, consumerVars
<1>1. /\ raw \in Seq(Ids) /\ Len(raw) \in Nat /\ pos \in 1..(NumIds + 1)
      /\ NumIds \in Nat
      /\ \A k \in 1..Len(raw) : raw[k] \in Ids
  BY PipelineAssumption, ElementFacts DEF TInv, TypeOK
<1>2. CASE UNCHANGED <<archive, raw, pos, reader>>
  BY <1>2 DEF RawInv
<1>3. CASE ReaderStart
  BY <1>3 DEF ReaderStart, RawInv
<1>4. CASE ReaderGet
  <2>1. CASE UNCHANGED pos
    BY <1>4, <2>1 DEF ReaderGet, RawInv
  <2>2. CASE pos' = pos + 1 /\ archive[pos] = "missing" /\ UNCHANGED reader
    BY <1>1, <1>4, <2>2 DEF ReaderGet, RawInv, Ids
  <2> QED
    BY <1>4, <2>1, <2>2 DEF ReaderGet
<1>5. CASE ReaderTakePermit
  BY <1>5 DEF ReaderTakePermit, RawInv
<1>6. CASE ReaderPush
  <2>1. CASE UNCHANGED <<raw, pos>> /\ reader' = "exited"
    BY <1>6, <2>1 DEF ReaderPush, RawInv
  <2>2. CASE raw' = Append(raw, pos) /\ pos' = pos + 1 /\ reader' = "get"
    <3>1. /\ pos \in Ids /\ archive[pos] # "missing" /\ UNCHANGED archive
          /\ pos \in Nat
      BY <1>1, <1>6 DEF ReaderPush, TInv, SeqBounds, RawInv
    <3>2. /\ Len(raw') = Len(raw) + 1
          /\ \A k \in 1..Len(raw) : raw'[k] = raw[k]
          /\ raw'[Len(raw) + 1] = pos
      BY <1>1, <2>2, <3>1, AppendFacts
    <3>3. \A k \in 1..Len(raw') : k \in 1..Len(raw) \/ k = Len(raw) + 1
      BY <1>1, <3>2
    <3>4. \A k \in 1..Len(raw) : raw[k] \in Int /\ raw[k] < pos
      BY <1>1 DEF RawInv, Ids
    <3>5. \A k \in 1..Len(raw') : raw'[k] < pos' /\ archive'[raw'[k]] # "missing"
      BY <2>2, <3>1, <3>2, <3>3, <3>4 DEF RawInv
    <3>6. \A j, k \in 1..Len(raw') : j < k => raw'[j] < raw'[k]
      BY <1>1, <3>2, <3>3, <3>4 DEF RawInv
    <3>7. \A id \in Ids : id < pos' /\ archive'[id] # "missing" =>
             \E k \in 1..Len(raw') : raw'[k] = id
      <4> SUFFICES ASSUME NEW id \in Ids, id < pos', archive'[id] # "missing"
                   PROVE  \E k \in 1..Len(raw') : raw'[k] = id
        OBVIOUS
      <4>1. CASE id = pos
        BY <1>1, <3>2, <4>1
      <4>2. CASE id < pos
        BY <1>1, <3>1, <3>2, <4>2 DEF RawInv
      <4> QED
        BY <2>2, <3>1, <4>1, <4>2 DEF Ids
    <3> QED
      BY <2>2, <3>5, <3>6, <3>7 DEF RawInv
  <2> QED
    BY <1>6, <2>1, <2>2 DEF ReaderPush
<1> QED
  BY <1>2, <1>3, <1>4, <1>5, <1>6
  DEF Next, vars, Reader, Encoder, EncoderTake, EncoderClosed, EncoderSend,
      Emitter, EmitterReceive, EmitterClosed, EmitterDrain, EmitterDrained,
      EmitterForwardError, EmitterConsumerGone, EmitterJoin, Consumer,
      ConsumerReceive, ConsumerFinalize, Returned

-----------------------------------------------------------------------------
(* Nothing is lost while the conversion runs.                               *)

\* Message m is in channel q.
In(m, q) == \E k \in 1..Len(q) : q[k] = m

LEMMA InAppend ==
  ASSUME NEW q \in Seq(Message), NEW x \in Message
  PROVE  /\ In(x, Append(q, x))
         /\ \A m : In(m, q) => In(m, Append(q, x))
<1>1. /\ Len(Append(q, x)) = Len(q) + 1 /\ Len(q) \in Nat
      /\ \A k \in 1..Len(q) : Append(q, x)[k] = q[k]
      /\ Append(q, x)[Len(q) + 1] = x
  BY AppendFacts
<1>2. In(x, Append(q, x))
  BY <1>1 DEF In
<1>3. ASSUME NEW m, In(m, q) PROVE In(m, Append(q, x))
  BY <1>1, <1>3 DEF In
<1> QED
  BY <1>2, <1>3

LEMMA InTail ==
  ASSUME NEW q \in Seq(Message), q # <<>>, NEW m, In(m, q), m # Head(q)
  PROVE  In(m, Tail(q))
<1>1. /\ Head(q) = q[1] /\ Len(q) \in Nat \ {0}
      /\ Len(Tail(q)) = Len(q) - 1
      /\ \A k \in 1..Len(Tail(q)) : Tail(q)[k] = q[k + 1]
  BY TailFacts
<1>2. PICK k \in 1..Len(q) : q[k] = m
  BY DEF In
<1>3. k - 1 \in 1..Len(Tail(q)) /\ k - 1 + 1 = k
  BY <1>1, <1>2
<1>4. Tail(q)[k - 1] = m
  BY <1>1, <1>2, <1>3
<1> QED
  BY <1>3, <1>4 DEF In

\* An Err is on its way to the consumer, which will fail the conversion.
ErrPending ==
    \/ \E w \in Encoders : enc[w] = "send" /\ result[w] = Err
    \/ In(Err, res)
    \/ emitter = "forward"
    \/ In(Err, out)

\* Tile s is forwarded, buffered, or on its way to the emitter.
Accounted(s) ==
    \/ s < next
    \/ s \in buffer
    \/ \E w \in Encoders : enc[w] = "send" /\ result[w] = s
    \/ In(s, res)

\* The threads leave in order: encoders after the reader and with the raw channel
\* drained, the emitter's loop after both and with the res channel drained.
ShutdownInv ==
    conv = "running" =>
        /\ \A w \in Encoders : enc[w] = "exited" =>
              reader = "exited" /\ taken = Len(raw)
        /\ emitter \in {"join", "exited"} =>
              reader = "exited" /\ EncodersExited /\ res = <<>>
        /\ emitter # "drain" => next \notin buffer

FlowInv ==
    conv = "running" =>
        \/ ErrPending
        \/ /\ reader = "exited" => pos > NumIds
           /\ \A s \in 0..(taken - 1) : Accounted(s)

DoneInv ==
    conv = "done" =>
        /\ reader = "exited" /\ EncodersExited /\ emitter = "exited"
        /\ Len(written) = Len(raw)
        /\ pos > NumIds

CInv == RawInv /\ ShutdownInv /\ FlowInv /\ DoneInv


LEMMA CInvInit == Init => CInv
  BY RawInvInit DEF Init, CInv, ShutdownInv, FlowInv, DoneInv

LEMMA RunningBackwards == Next /\ conv' = "running" => conv = "running"
  BY DEF Next, Reader, ReaderStart, ReaderGet, ReaderTakePermit, ReaderPush,
     Encoder, EncoderTake, EncoderClosed, EncoderSend, Emitter, EmitterReceive,
     EmitterClosed, EmitterDrain, EmitterDrained, EmitterForwardError,
     EmitterConsumerGone, EmitterJoin, Consumer, ConsumerReceive,
     ConsumerFinalize, Returned, ConsumerAlive, vars, consumerVars

\* While the conversion runs, a reader or an encoder that is there to act finds
\* the emitter in its loop.
LEMMA LoopWhileWorking ==
  ASSUME ShutdownInv, TInv, conv = "running",
         reader # "exited" \/ ~EncodersExited
  PROVE  EmitterLoops
  BY DEF ShutdownInv, TInv, TypeOK, EmitterLoops

LEMMA SendResKeeps ==
  ASSUME TInv, NEW m \in Message, SendRes(m)
  PROVE  /\ \A x : In(x, res) => In(x, res')
         /\ EmitterLoops => In(m, res')
<1>1. res \in Seq(Message)
  BY DEF TInv, TypeOK
<1> QED
  BY <1>1, InAppend DEF SendRes

\* An encoder's result reaches the res channel.
LEMMA EncoderSendKeeps ==
  ASSUME TInv, ShutdownInv, conv = "running", NEW w \in Encoders, EncoderSend(w)
  PROVE  /\ \A x : In(x, res) => In(x, res')
         /\ In(result[w], res')
         /\ \A v \in Encoders \ {w} : enc'[v] = enc[v]
         /\ UNCHANGED <<result, reader, pos, taken, raw, buffer, next, emitter, out>>
<1>1. EmitterLoops
  BY LoopWhileWorking DEF EncoderSend, EncodersExited
<1>2. result[w] \in Message /\ enc \in [Encoders -> {"recv", "send", "exited"}]
  BY DEF TInv, TypeOK
<1> QED
  BY <1>1, <1>2, SendResKeeps
  DEF EncoderSend, readerVars, emitterVars, consumerVars

LEMMA ErrPendingStep ==
  ASSUME TInv, ShutdownInv, Next, conv' = "running", ErrPending
  PROVE  ErrPending'
<1> USE MessageFacts
        DEF ErrPending, readerVars, encoderVars, emitterVars, consumerVars
<1>0. /\ conv = "running"
      /\ res \in Seq(Message) /\ out \in Seq(Message)
      /\ enc \in [Encoders -> {"recv", "send", "exited"}]
      /\ result \in [Encoders -> Message]
  BY RunningBackwards DEF TInv, TypeOK
<1>1. CASE UNCHANGED <<enc, result, res, emitter, out>>
  BY <1>1
<1>2. CASE ReaderStart \/ ReaderGet
  <2>1. \A x : In(x, res) => In(x, res')
    BY <1>2, SendResKeeps DEF ReaderStart, ReaderGet
  <2> QED
    BY <1>2, <2>1 DEF ReaderStart, ReaderGet
<1>3. ASSUME NEW w \in Encoders, EncoderTake(w) PROVE ErrPending'
  BY <1>0, <1>3 DEF EncoderTake
<1>4. ASSUME NEW w \in Encoders, EncoderClosed(w) PROVE ErrPending'
  BY <1>0, <1>4 DEF EncoderClosed
<1>5. ASSUME NEW w \in Encoders, EncoderSend(w) PROVE ErrPending'
  BY <1>0, <1>5, EncoderSendKeeps
<1>6. CASE EmitterReceive
  BY <1>0, <1>6, InTail DEF EmitterReceive
<1>7. CASE EmitterClosed
  BY <1>7 DEF EmitterClosed
<1>8. CASE EmitterDrain
  BY <1>0, <1>8, InAppend DEF EmitterDrain, TInv, TypeOK
<1>9. CASE EmitterDrained
  BY <1>9 DEF EmitterDrained
<1>10. CASE EmitterForwardError
  BY <1>0, <1>10, InAppend DEF EmitterForwardError
<1>11. CASE EmitterConsumerGone
  BY <1>0, <1>11 DEF EmitterConsumerGone, ConsumerAlive
<1>12. CASE EmitterJoin
  BY <1>12 DEF EmitterJoin
<1>13. CASE ConsumerReceive
  BY <1>0, <1>13, InTail DEF ConsumerReceive
<1>14. CASE ConsumerFinalize
  BY <1>14 DEF ConsumerFinalize
<1> QED
  BY <1>1, <1>2, <1>3, <1>4, <1>5, <1>6, <1>7, <1>8, <1>9, <1>10, <1>11,
     <1>12, <1>13, <1>14
  DEF Next, vars, Reader, ReaderTakePermit, ReaderPush, Encoder, Emitter,
      Consumer, Returned


LEMMA AccountedStep ==
  ASSUME TInv, ShutdownInv, Next, conv' = "running",
         NEW s \in Nat, Accounted(s)
  PROVE  Accounted(s)'
<1> USE MessageFacts
        DEF Accounted, readerVars, encoderVars, emitterVars, consumerVars
<1>0. /\ conv = "running" /\ next \in Nat /\ s # Err
      /\ res \in Seq(Message)
      /\ enc \in [Encoders -> {"recv", "send", "exited"}]
      /\ result \in [Encoders -> Message]
  BY RunningBackwards DEF TInv, TypeOK
<1>1. CASE UNCHANGED <<enc, result, res, buffer, next>>
  BY <1>1
<1>2. CASE ReaderStart \/ ReaderGet
  <2>1. \A x : In(x, res) => In(x, res')
    BY <1>2, SendResKeeps DEF ReaderStart, ReaderGet
  <2> QED
    BY <1>2, <2>1 DEF ReaderStart, ReaderGet
<1>3. ASSUME NEW w \in Encoders, EncoderTake(w) PROVE Accounted(s)'
  BY <1>0, <1>3 DEF EncoderTake
<1>4. ASSUME NEW w \in Encoders, EncoderClosed(w) PROVE Accounted(s)'
  BY <1>0, <1>4 DEF EncoderClosed
<1>5. ASSUME NEW w \in Encoders, EncoderSend(w) PROVE Accounted(s)'
  BY <1>0, <1>5, EncoderSendKeeps
<1>6. CASE EmitterReceive
  BY <1>0, <1>6, InTail DEF EmitterReceive
<1>7. CASE EmitterDrain
  BY <1>0, <1>7 DEF EmitterDrain
<1>8. CASE EmitterConsumerGone
  BY <1>0, <1>8 DEF EmitterConsumerGone, ConsumerAlive
<1> QED
  BY <1>1, <1>2, <1>3, <1>4, <1>5, <1>6, <1>7, <1>8
  DEF Next, vars, Reader, ReaderTakePermit, ReaderPush, Encoder, Emitter,
      EmitterClosed, EmitterDrained, EmitterForwardError, EmitterJoin,
      Consumer, ConsumerReceive, ConsumerFinalize, Returned

LEMMA ShutdownStep ==
  ASSUME NoPanic, TInv, ShutdownInv, [Next]_vars
  PROVE  ShutdownInv'
<1> SUFFICES ASSUME conv' = "running" PROVE ShutdownInv'
  BY DEF ShutdownInv
<1> USE DEF ShutdownInv, readerVars, encoderVars, emitterVars, consumerVars,
            EncodersExited
<1>0. /\ conv = "running"
      /\ taken \in Nat /\ Len(raw) \in Nat /\ next \in Nat
      /\ enc \in [Encoders -> {"recv", "send", "exited"}]
      /\ emitter \in {"recv", "drain", "forward", "join", "exited"}
  BY RunningBackwards DEF TInv, TypeOK, vars
<1>1. CASE UNCHANGED <<reader, taken, raw, enc, emitter, res, buffer, next, conv>>
  BY <1>1
<1>2. CASE Reader
  <2>1. reader # "exited" /\ EmitterLoops /\ ~EncodersExited
    <3>1. reader # "exited"
      BY <1>2 DEF Reader, ReaderStart, ReaderGet, ReaderTakePermit, ReaderPush
    <3> QED
      BY <1>0, <3>1, LoopWhileWorking, PipelineAssumption
  <2>2. UNCHANGED <<taken, enc, emitter, buffer, next>>
    BY <1>2 DEF Reader, ReaderStart, ReaderGet, ReaderTakePermit, ReaderPush
  <2> QED
    BY <1>0, <2>1, <2>2 DEF EmitterLoops
<1>3. ASSUME NEW w \in Encoders, EncoderTake(w) PROVE ShutdownInv'
  <2>1. archive[raw[taken + 1]] # "panics"
    <3>1. raw[taken + 1] \in Ids
      BY <1>0, <1>3, ElementFacts DEF EncoderTake, TInv, TypeOK
    <3> QED
      BY <3>1 DEF TInv, TypeOK, NoPanic
  <2>2. /\ enc[w] = "recv" /\ enc' = [enc EXCEPT ![w] = "send"]
        /\ taken # Len(raw)
        /\ UNCHANGED <<reader, raw, emitter, res, buffer, next>>
    BY <1>0, <1>3, <2>1 DEF EncoderTake
  <2>3. \A v \in Encoders : enc[v] # "exited"
    BY <1>0, <2>2
  <2> QED
    BY <1>0, <2>2, <2>3
<1>4. ASSUME NEW w \in Encoders, EncoderClosed(w) PROVE ShutdownInv'
  BY <1>0, <1>4 DEF EncoderClosed
<1>5. ASSUME NEW w \in Encoders, EncoderSend(w) PROVE ShutdownInv'
  <2>1. EmitterLoops
    BY <1>0, <1>5, LoopWhileWorking DEF EncoderSend
  <2> QED
    BY <1>0, <1>5, <2>1 DEF EncoderSend, EmitterLoops
<1>6. CASE EmitterReceive
  BY <1>0, <1>6 DEF EmitterReceive
<1>7. CASE EmitterClosed
  BY <1>0, <1>7 DEF EmitterClosed
<1>8. CASE EmitterDrain
  BY <1>0, <1>8 DEF EmitterDrain
<1>9. CASE EmitterDrained
  BY <1>0, <1>9 DEF EmitterDrained
<1>10. CASE EmitterForwardError
  BY <1>0, <1>10 DEF EmitterForwardError
<1>11. CASE EmitterConsumerGone
  BY <1>0, <1>11 DEF EmitterConsumerGone, ConsumerAlive
<1>12. CASE EmitterJoin
  BY <1>0, <1>12 DEF EmitterJoin
<1> QED
  BY <1>0, <1>1, <1>2, <1>3, <1>4, <1>5, <1>6, <1>7, <1>8, <1>9, <1>10, <1>11,
     <1>12
  DEF Next, vars, Encoder, Emitter, Consumer, ConsumerReceive,
      ConsumerFinalize, Returned, ConsumerAlive

LEMMA FlowStep ==
  ASSUME NoPanic, TInv, ShutdownInv, FlowInv, [Next]_vars
  PROVE  FlowInv'
<1> SUFFICES ASSUME conv' = "running", ~ErrPending' PROVE
       /\ reader' = "exited" => pos' > NumIds
       /\ \A s \in 0..(taken' - 1) : Accounted(s)'
  BY DEF FlowInv
<1> USE DEF readerVars, encoderVars, emitterVars, consumerVars
<1>1. CASE UNCHANGED vars
  BY <1>1 DEF vars, FlowInv, ErrPending, Accounted
<1>2. CASE Next
  <2>0. conv = "running"
    BY <1>2, RunningBackwards
  <2>1. ~ErrPending
    BY <1>2, ErrPendingStep
  <2>2. /\ reader = "exited" => pos > NumIds
        /\ \A s \in 0..(taken - 1) : Accounted(s)
    BY <2>0, <2>1 DEF FlowInv
  <2>3. taken \in Nat /\ taken' \in Nat
    BY TInvStep DEF TInv, TypeOK
  <2>4. \A s \in 0..(taken - 1) : Accounted(s)'
    BY <1>2, <2>2, <2>3, AccountedStep
  <2>5. reader' = "exited" => pos' > NumIds
    <3>1. CASE UNCHANGED <<reader, pos>>
      BY <2>2, <3>1
    <3>2. CASE Reader
      <4>1. reader # "exited" /\ EmitterLoops /\ ~EncodersExited
        <5>1. reader # "exited"
          BY <3>2 DEF Reader, ReaderStart, ReaderGet, ReaderTakePermit, ReaderPush
        <5> QED
          BY <2>0, <5>1, LoopWhileWorking, PipelineAssumption
          DEF ShutdownInv, EncodersExited
      <4>2. ~SendRes(Err)
        BY <4>1, SendResKeeps, MessageFacts DEF ErrPending
      <4> QED
        BY <3>2, <4>1, <4>2, PipelineAssumption
        DEF Reader, ReaderStart, ReaderGet, ReaderTakePermit, ReaderPush,
            TInv, TypeOK
    <3> QED
      BY <1>2, <3>1, <3>2
      DEF Next, vars, Encoder, EncoderTake, EncoderClosed, EncoderSend, Emitter,
          EmitterReceive, EmitterClosed, EmitterDrain, EmitterDrained,
          EmitterForwardError, EmitterConsumerGone, EmitterJoin, Consumer,
          ConsumerReceive, ConsumerFinalize, Returned
  <2>6. \A s \in 0..(taken' - 1) : Accounted(s)'
    <3>1. CASE UNCHANGED taken
      BY <2>4, <3>1
    <3>2. ASSUME NEW w \in Encoders, EncoderTake(w)
          PROVE  \A s \in 0..(taken' - 1) : Accounted(s)'
      <4>1. archive[raw[taken + 1]] # "panics"
        <5>1. raw[taken + 1] \in Ids
          BY <2>3, <3>2, ElementFacts DEF EncoderTake, TInv, TypeOK
        <5> QED
          BY <5>1 DEF TInv, TypeOK, NoPanic
      <4>2. /\ taken' = taken + 1
            /\ enc'[w] = "send"
            /\ result'[w] = Err \/ result'[w] = taken
        BY <3>2, <4>1 DEF EncoderTake, TInv, TypeOK
      <4>3. result'[w] = taken
        BY <4>2 DEF ErrPending
      <4>4. ASSUME NEW s \in Nat, s = taken PROVE Accounted(s)'
        BY <4>2, <4>3, <4>4 DEF Accounted
      <4> SUFFICES ASSUME NEW s \in 0..(taken' - 1) PROVE Accounted(s)'
        OBVIOUS
      <4>5. s \in 0..(taken - 1) \/ s = taken
        BY <2>3, <4>2
      <4>6. s \in Nat
        OBVIOUS
      <4> QED
        BY <2>4, <4>4, <4>5, <4>6
    <3> QED
      BY <1>2, <3>1, <3>2
      DEF Next, vars, Reader, ReaderStart, ReaderGet, ReaderTakePermit,
          ReaderPush, Encoder, EncoderClosed, EncoderSend, Emitter,
          EmitterReceive, EmitterClosed, EmitterDrain, EmitterDrained,
          EmitterForwardError, EmitterConsumerGone, EmitterJoin, Consumer,
          ConsumerReceive, ConsumerFinalize, Returned
  <2> QED
    BY <2>5, <2>6
<1> QED
  BY <1>1, <1>2


\* What holds when the consumer sees the out channel closed and empty.
LEMMA ClosedIsComplete ==
  ASSUME TInv, OutInv, ShutdownInv, FlowInv,
         conv = "running", out = <<>>, emitter = "exited"
  PROVE  /\ reader = "exited" /\ EncodersExited
         /\ Len(written) = Len(raw)
         /\ pos > NumIds
<1>1. /\ reader = "exited" /\ EncodersExited /\ res = <<>>
      /\ next \notin buffer
      /\ taken = Len(raw)
  BY PipelineAssumption DEF ShutdownInv, EncodersExited
<1>2. ~ErrPending
  BY <1>1 DEF ErrPending, EncodersExited, In
<1>3. pos > NumIds /\ \A s \in 0..(taken - 1) : Accounted(s)
  BY <1>1, <1>2 DEF FlowInv
<1>4. \A s \in 0..(taken - 1) : s < next \/ s \in buffer
  BY <1>1, <1>3 DEF Accounted, EncodersExited, In
<1>5. /\ next \in Nat /\ taken \in Nat /\ next <= Len(raw)
      /\ Len(written) \in Nat
  BY DEF TInv, TypeOK, SeqBounds
<1>6. next = Len(raw)
  BY <1>1, <1>4, <1>5
<1>7. next = Len(written)
  BY <1>5 DEF OutInv, NoErr
<1> QED
  BY <1>1, <1>3, <1>6, <1>7

LEMMA DoneStep ==
  ASSUME TInv, OutInv, ShutdownInv, FlowInv, DoneInv, [Next]_vars
  PROVE  DoneInv'
<1> SUFFICES ASSUME conv' = "done" PROVE DoneInv'
  BY DEF DoneInv
<1> USE DEF readerVars, encoderVars, emitterVars, consumerVars
<1>1. CASE conv = "done"
  <2>1. reader = "exited" /\ EncodersExited /\ emitter = "exited" /\ ~ConsumerAlive
    BY <1>1 DEF DoneInv, ConsumerAlive
  <2>2. \A w \in Encoders : enc[w] = "exited"
    BY <2>1 DEF EncodersExited
  <2>3. UNCHANGED vars
    BY <2>1, <2>2
    DEF Next, Reader, ReaderStart, ReaderGet, ReaderTakePermit, ReaderPush,
        Encoder, EncoderTake, EncoderClosed, EncoderSend, Emitter,
        EmitterReceive, EmitterClosed, EmitterDrain, EmitterDrained,
        EmitterForwardError, EmitterConsumerGone, EmitterJoin, Consumer,
        ConsumerReceive, ConsumerFinalize, Returned
  <2> QED
    BY <1>1, <2>3 DEF vars, DoneInv, EncodersExited
<1>2. CASE conv # "done"
  <2>1. /\ ConsumerFinalize /\ conv = "running" /\ out = <<>>
        /\ emitter = "exited"
        /\ UNCHANGED <<reader, pos, enc, emitter, raw, written>>
    BY <1>2
    DEF Next, vars, Reader, ReaderStart, ReaderGet, ReaderTakePermit, ReaderPush,
        Encoder, EncoderTake, EncoderClosed, EncoderSend, Emitter,
        EmitterReceive, EmitterClosed, EmitterDrain, EmitterDrained,
        EmitterForwardError, EmitterConsumerGone, EmitterJoin, Consumer,
        ConsumerReceive, ConsumerFinalize, Returned, ConsumerAlive
  <2> QED
    BY <2>1, ClosedIsComplete DEF DoneInv, EncodersExited
<1> QED
  BY <1>1, <1>2

IInv == TInv /\ OutInv /\ CInv

LEMMA IInvStep == NoPanic /\ IInv /\ [Next]_vars => IInv'
  BY TInvStep, OutInvStep, RawInvStep, ShutdownStep, FlowStep, DoneStep
  DEF IInv, CInv

\* The inductive invariant of a pipeline whose encoders never panic.
THEOREM IInvHolds == NoPanic /\ Spec => []IInv
<1>1. Init => IInv
  BY TInvInit, OutInvInit, CInvInit DEF IInv
<1>2. CASE NoPanic
  <2>1. IInv /\ [Next]_vars => IInv'
    BY <1>2, IInvStep
  <2> QED
    BY <1>1, <2>1, PTL DEF Spec
<1> QED
  BY <1>2

\* If encode_tile never panics, a conversion that reports success has written
\* every tile the reader read, and all its threads have ended.
THEOREM DoneIsCompleteHolds == NoPanic /\ Spec => []DoneIsComplete
<1>1. IInv => DoneIsComplete
  BY DEF IInv, CInv, DoneInv, DoneIsComplete
<1> QED
  BY <1>1, IInvHolds, PTL

-----------------------------------------------------------------------------
(* The refinement.                                                          *)

LEMMA RefinementInit == Init => Conversion!Init
  BY DEF Init, Conversion!Init, Ids, Conversion!Ids

LEMMA WrittenIdsLemma ==
  ASSUME IInv
  PROVE  \A id \in Ids : id \in Conversion!WrittenIds <=>
            \E k \in 1..Len(written) : raw[k] = id
<1>1. DOMAIN written = 1..Len(written)
  BY DEF IInv, TInv, TypeOK
<1>2. \A k \in 1..Len(written) : written[k] = raw[k]
  BY DEF IInv, OutInv
<1> QED
  BY <1>1, <1>2 DEF Conversion!WrittenIds

LEMMA WriteStep ==
  ASSUME IInv, ConsumerReceive, UNCHANGED conv
  PROVE  Conversion!Next
<1> DEFINE n == Len(written) + 1
           id == raw[n]
<1>1. /\ conv = "running" /\ out # <<>> /\ Head(out) # Err
      /\ written' = Append(written, raw[Head(out) + 1])
      /\ UNCHANGED archive
  BY DEF ConsumerReceive, ConsumerAlive
<1>2. /\ raw \in Seq(Ids) /\ out \in Seq(Message) /\ written \in Seq(Ids)
      /\ Len(raw) \in Nat /\ Len(out) \in Nat \ {0} /\ Len(written) \in Nat
      /\ Head(out) = out[1] /\ out[1] < Len(raw)
      /\ Len(written) <= Len(raw)
  BY <1>1, TailFacts DEF IInv, TInv, TypeOK, SeqBounds, OutInv
<1>3. out[1] = Len(written)
  <2>1. NoErr(out, 1)
    BY <1>1, <1>2 DEF NoErr
  <2> QED
    BY <1>2, <2>1 DEF IInv, OutInv
<1>4. n \in 1..Len(raw) /\ id \in Ids /\ written' = Append(written, id)
  BY <1>1, <1>2, <1>3, ElementFacts
<1>5. \A k \in 1..Len(raw) : raw[k] \in Ids /\ raw[k] \in Int
  <2>1. \A k \in 1..Len(raw) : raw[k] \in Ids
    BY <1>2, ElementFacts
  <2> QED
    BY <2>1 DEF Ids
<1>6. archive[id] # "missing" /\ id < pos
  BY <1>4 DEF IInv, CInv, RawInv
<1>7. \A k \in 1..Len(written) : raw[k] < id
  BY <1>2, <1>4 DEF IInv, CInv, RawInv
<1>8. id \notin Conversion!WrittenIds
  BY <1>2, <1>4, <1>5, <1>7, WrittenIdsLemma
<1>9. ASSUME NEW j \in Ids, j < id, archive[j] # "missing"
      PROVE  j \in Conversion!WrittenIds
  <2>1. j < pos
    BY <1>4, <1>6, <1>9 DEF IInv, TInv, TypeOK, Ids
  <2>2. PICK k \in 1..Len(raw) : raw[k] = j
    BY <1>9, <2>1 DEF IInv, CInv, RawInv
  <2>3. k < n
    <3>1. \A i, k2 \in 1..Len(raw) : i < k2 => raw[i] < raw[k2]
      BY DEF IInv, CInv, RawInv
    <3>2. CASE k = n
      BY <1>5, <1>9, <2>2, <3>2
    <3>3. CASE n < k
      BY <1>4, <1>5, <1>9, <2>2, <3>1, <3>3
    <3> QED
      BY <1>2, <3>2, <3>3
  <2> QED
    BY <1>2, <2>2, <2>3, WrittenIdsLemma
<1> HIDE DEF id
<1>10. Conversion!Write(id)
  BY <1>1, <1>4, <1>6, <1>8, <1>9
  DEF Conversion!Write, Conversion!Held, Conversion!Ids, Ids
<1> QED
  BY <1>4, <1>10 DEF Conversion!Next, Conversion!Ids, Ids

LEMMA FinishStep ==
  ASSUME IInv, ConsumerFinalize, conv' = "done"
  PROVE  Conversion!Next
<1>1. /\ conv = "running" /\ UNCHANGED <<archive, written>>
      /\ Len(written) = Len(raw) /\ pos > NumIds
  BY ClosedIsComplete DEF ConsumerFinalize, ConsumerAlive, IInv, CInv
<1>2. ASSUME NEW id \in Ids, archive[id] # "missing"
      PROVE  id \in Conversion!WrittenIds
  <2>1. id < pos
    BY <1>1, PipelineAssumption DEF Ids, IInv, TInv, TypeOK
  <2> QED
    BY <1>1, <1>2, <2>1, WrittenIdsLemma DEF IInv, CInv, RawInv
<1>3. Conversion!Finish
  BY <1>1, <1>2
  DEF Conversion!Finish, Conversion!Held, Conversion!Ids, Ids
<1> QED
  BY <1>3 DEF Conversion!Next

LEMMA RefinementStep == IInv /\ [Next]_vars => [Conversion!Next]_(Conversion!vars)
<1> SUFFICES ASSUME IInv, [Next]_vars, ~UNCHANGED Conversion!vars
             PROVE  Conversion!Next
  OBVIOUS
<1> USE DEF readerVars, encoderVars, emitterVars, consumerVars
<1>1. ConsumerReceive \/ ConsumerFinalize
  BY DEF Next, vars, Reader, ReaderStart, ReaderGet, ReaderTakePermit,
     ReaderPush, Encoder, EncoderTake, EncoderClosed, EncoderSend, Emitter,
     EmitterReceive, EmitterClosed, EmitterDrain, EmitterDrained,
     EmitterForwardError, EmitterConsumerGone, EmitterJoin, Consumer, Returned,
     Conversion!vars
<1>2. CASE conv' = "failed"
  <2>1. Conversion!Fail
    BY <1>1, <1>2
    DEF ConsumerReceive, ConsumerFinalize, ConsumerAlive, Conversion!Fail
  <2> QED
    BY <2>1 DEF Conversion!Next
<1>3. CASE ConsumerReceive /\ conv' # "failed"
  BY <1>3, WriteStep DEF ConsumerReceive
<1>4. CASE ConsumerFinalize /\ conv' # "failed"
  BY <1>4, FinishStep DEF ConsumerFinalize
<1> QED
  BY <1>1, <1>2, <1>3, <1>4

\* If encode_tile never panics, the threads together implement the sequential
\* promise of OrderedConversion.
THEOREM PipelineRefines == NoPanic /\ Spec => ConversionSpec
<1>1. NoPanic /\ Spec => Conversion!Init /\ [][Conversion!Next]_(Conversion!vars)
  BY RefinementInit, RefinementStep, IInvHolds, PTL DEF Spec
<1> QED
  BY <1>1 DEF ConversionSpec, Conversion!Spec

=============================================================================
