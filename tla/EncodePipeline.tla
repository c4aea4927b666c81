--------------------------- MODULE EncodePipeline ---------------------------
(***************************************************************************)
(* The PMTiles encode pipeline of rust/mlt/src/convert/from_pmtiles.rs:    *)
(* a reader thread, a pool of encoder threads and an emitter thread joined *)
(* by channels, and the conversion that consumes the ordered output.       *)
(*                                                                         *)
(*   reader --raw--> encoders --res--> emitter --out--> consumer           *)
(*      ^------------- permits -----------'                                *)
(*                                                                         *)
(* A message is the tile's sequence number, or Err for the Err arm.  The   *)
(* raw channel is kept as its whole history: encoders have received the    *)
(* first `taken` of its tiles, so Len(raw) is also the reader's `seq`.     *)
(***************************************************************************)
EXTENDS Integers, Sequences, FiniteSets

CONSTANTS NumIds,    \* length of the `ids` vector; ids are 1..NumIds, ascending
          Outcomes,  \* what reading and encoding an id may come to, see Outcome
          Encoders,  \* the encoder threads (`parallelism` of them)
          Cap,       \* permits: max(parallelism * 32, 8) in the code
          OutCap,    \* capacity of the out channel (`parallelism` in the code)
          Faults     \* failures of the environment, see Fault

\* "tile": read and encoded; "missing": Ok(None); "unreadable": get_tile fails;
\* "unencodable": encode_tile returns Err; "panics": encode_tile panics.
Outcome == {"tile", "missing", "unreadable", "unencodable", "panics"}

\* "runtime": the reader's tokio runtime is not built; "write": add_tile fails;
\* "finalize": the writer's finalize fails.
Fault == {"runtime", "write", "finalize"}

ASSUME PipelineAssumption ==
    /\ NumIds \in Nat
    /\ Outcomes \subseteq Outcome
    /\ Encoders # {}
    /\ Cap \in Nat \ {0}
    /\ OutCap \in Nat \ {0}
    /\ Faults \subseteq Fault

Ids == 1..NumIds
Err == -1

VARIABLES archive,   \* the input: archive[id] \in Outcomes, fixed
          reader,    \* reader thread: "start", "get", "permit", "push", "exited"
          pos,       \* the id the reader's loop is at
          permits,   \* tokens in the permit channel
          raw,       \* ids ever sent into the raw channel, in order
          taken,     \* how many of them encoders have received
          enc,       \* enc[w]: "recv", "send" or "exited"
          result,    \* result[w]: the message encoder w is about to send
          res,       \* the res channel
          emitter,   \* "recv", "drain", "forward", "join" or "exited"
          buffer,    \* sequence numbers in the emitter's reorder buffer
          next,      \* the sequence number the emitter waits for
          out,       \* the out channel
          written,   \* ids added to the output archive, in order
          conv       \* the conversion: "running", "done" or "failed"

readerVars  == <<reader, pos>>
encoderVars == <<taken, enc, result>>
emitterVars == <<emitter, buffer, next>>
consumerVars == <<written, conv>>
vars == <<archive, readerVars, permits, raw, encoderVars, res, emitterVars,
          out, consumerVars>>

Message == Nat \cup {Err}

TypeOK ==
    /\ archive \in [Ids -> Outcomes]
    /\ reader \in {"start", "get", "permit", "push", "exited"}
    /\ pos \in 1..(NumIds + 1)
    /\ permits \in Nat
    /\ raw \in Seq(Ids)
    /\ taken \in 0..Len(raw)
    /\ enc \in [Encoders -> {"recv", "send", "exited"}]
    /\ result \in [Encoders -> Message]
    /\ res \in Seq(Message)
    /\ emitter \in {"recv", "drain", "forward", "join", "exited"}
    /\ buffer \subseteq Nat
    /\ next \in Nat
    /\ out \in Seq(Message)
    /\ Len(out) <= OutCap
    /\ written \in Seq(Ids)
    /\ conv \in {"running", "done", "failed"}

-----------------------------------------------------------------------------
(* Which ends of the channels are alive.                                    *)

\* res_rx and tok_tx live until the emitter leaves its loop.
EmitterLoops == emitter \in {"recv", "drain", "forward"}
\* Every encoder owns a clone of raw_rx and of res_tx.
EncodersExited == \A w \in Encoders : enc[w] = "exited"
\* The conversion owns out_rx.
ConsumerAlive == conv = "running"

SendRes(m) == res' = IF EmitterLoops THEN Append(res, m) ELSE res

-----------------------------------------------------------------------------
Init ==
    /\ archive \in [Ids -> Outcomes]
    /\ reader = "start" /\ pos = 1
    /\ permits = Cap
    /\ raw = <<>> /\ taken = 0
    /\ enc = [w \in Encoders |-> "recv"]
    /\ result = [w \in Encoders |-> Err]
    /\ res = <<>>
    /\ emitter = "recv" /\ buffer = {} /\ next = 0
    /\ out = <<>>
    /\ written = <<>> /\ conv = "running"

-----------------------------------------------------------------------------
(* The reader thread.                                                       *)

ReaderStart ==
    /\ reader = "start"
    /\ \/ /\ reader' = "get"
          /\ UNCHANGED res
       \/ /\ "runtime" \in Faults
          /\ reader' = "exited"
          /\ SendRes(Err)
    /\ UNCHANGED <<archive, pos, permits, raw, encoderVars, emitterVars, out,
                   consumerVars>>

\* Mutant: an unreadable tile is skipped like a missing one.
ReaderGetSkipsErrors ==
    /\ reader = "get"
    /\ \/ /\ pos > NumIds
          /\ reader' = "exited"
          /\ UNCHANGED pos
       \/ /\ pos <= NumIds
          /\ archive[pos] \in {"missing", "unreadable"}
          /\ pos' = pos + 1
          /\ UNCHANGED reader
       \/ /\ pos <= NumIds
          /\ archive[pos] \notin {"missing", "unreadable"}
          /\ reader' = "permit"
          /\ UNCHANGED pos
    /\ UNCHANGED <<archive, permits, raw, encoderVars, res, emitterVars, out,
                   consumerVars>>

\* One turn of `for id in ids` up to the match on get_tile's answer.
ReaderGet ==
    /\ reader = "get"
    /\ \/ /\ pos > NumIds
          /\ reader' = "exited"
          /\ UNCHANGED <<pos, res>>
       \/ /\ pos <= NumIds
          /\ archive[pos] = "missing"
          /\ pos' = pos + 1
          /\ UNCHANGED <<reader, res>>
       \/ /\ pos <= NumIds
          /\ archive[pos] = "unreadable"
          /\ reader' = "exited"
          /\ SendRes(Err)
          /\ UNCHANGED pos
       \/ /\ pos <= NumIds
          /\ archive[pos] \notin {"missing", "unreadable"}
          /\ reader' = "permit"
          /\ UNCHANGED <<pos, res>>
    /\ UNCHANGED <<archive, permits, raw, encoderVars, emitterVars, out,
                   consumerVars>>

\* Mutant: the reader looks for a token and does not take it.
ReaderTakePermitFree ==
    /\ reader = "permit"
    /\ permits > 0
    /\ reader' = "push"
    /\ UNCHANGED <<archive, pos, permits, raw, encoderVars, res, emitterVars, out,
                   consumerVars>>

\* Mutant: tok_tx is not dropped before the reader is joined.
ReaderTakePermitParked ==
    /\ reader = "permit"
    /\ permits > 0
    /\ permits' = permits - 1
    /\ reader' = "push"
    /\ UNCHANGED <<archive, pos, raw, encoderVars, res, emitterVars, out,
                   consumerVars>>

\* tok_rx.recv(): takes a token, fails once none is left and tok_tx is dropped.
ReaderTakePermit ==
    /\ reader = "permit"
    /\ \/ /\ permits > 0
          /\ permits' = permits - 1
          /\ reader' = "push"
       \/ /\ permits = 0
          /\ ~EmitterLoops
          /\ reader' = "exited"
          /\ UNCHANGED permits
    /\ UNCHANGED <<archive, pos, raw, encoderVars, res, emitterVars, out,
                   consumerVars>>

\* raw_tx.send((seq, coord, data)): fails when no encoder is left to receive.
ReaderPush ==
    /\ reader = "push"
    /\ \/ /\ ~EncodersExited
          /\ raw' = Append(raw, pos)
          /\ pos' = pos + 1
          /\ reader' = "get"
       \/ /\ EncodersExited
          /\ reader' = "exited"
          /\ UNCHANGED <<raw, pos>>
    /\ UNCHANGED <<archive, permits, encoderVars, res, emitterVars, out,
                   consumerVars>>

Reader == ReaderStart \/ ReaderGet \/ ReaderTakePermit \/ ReaderPush

-----------------------------------------------------------------------------
(* The encoder threads.                                                     *)

\* Mutant: an encoder logs a tile that does not encode and goes on.
EncoderTakeLogsErrors(w) ==
    /\ enc[w] = "recv"
    /\ taken < Len(raw)
    /\ \/ /\ archive[raw[taken + 1]] = "tile"
          /\ enc' = [enc EXCEPT ![w] = "send"]
          /\ result' = [result EXCEPT ![w] = taken]
       \/ /\ archive[raw[taken + 1]] # "tile"
          /\ UNCHANGED <<enc, result>>
    /\ taken' = taken + 1
    /\ UNCHANGED <<archive, readerVars, permits, raw, res, emitterVars, out,
                   consumerVars>>

\* Receive a raw tile and encode it: the Ok arm keeps seq, the Err arm drops it.
EncoderTake(w) ==
    /\ enc[w] = "recv"
    /\ taken < Len(raw)
    /\ LET outcome == archive[raw[taken + 1]] IN
       \/ /\ outcome = "tile"
          /\ enc' = [enc EXCEPT ![w] = "send"]
          /\ result' = [result EXCEPT ![w] = taken]
       \/ /\ outcome = "unencodable"
          /\ enc' = [enc EXCEPT ![w] = "send"]
          /\ result' = [result EXCEPT ![w] = Err]
       \/ /\ outcome = "panics"
          /\ enc' = [enc EXCEPT ![w] = "exited"]
          /\ UNCHANGED result
    /\ taken' = taken + 1
    /\ UNCHANGED <<archive, readerVars, permits, raw, res, emitterVars, out,
                   consumerVars>>

\* raw_rx is empty and the reader, its only sender, is gone.
EncoderClosed(w) ==
    /\ enc[w] = "recv"
    /\ taken = Len(raw)
    /\ reader = "exited"
    /\ enc' = [enc EXCEPT ![w] = "exited"]
    /\ UNCHANGED <<archive, readerVars, permits, raw, taken, result, res,
                   emitterVars, out, consumerVars>>

EncoderSend(w) ==
    /\ enc[w] = "send"
    /\ enc' = [enc EXCEPT ![w] = IF EmitterLoops THEN "recv" ELSE "exited"]
    /\ SendRes(result[w])
    /\ UNCHANGED <<archive, readerVars, permits, raw, taken, result,
                   emitterVars, out, consumerVars>>

Encoder(w) == EncoderTake(w) \/ EncoderClosed(w) \/ EncoderSend(w)

-----------------------------------------------------------------------------
(* The emitter thread.                                                      *)

EmitterReceive ==
    /\ emitter = "recv"
    /\ res # <<>>
    /\ res' = Tail(res)
    /\ \/ /\ Head(res) # Err
          /\ buffer' = buffer \cup {Head(res)}
          /\ emitter' = "drain"
       \/ /\ Head(res) = Err
          /\ emitter' = "forward"
          /\ UNCHANGED buffer
    /\ UNCHANGED <<archive, readerVars, permits, raw, encoderVars, next, out,
                   consumerVars>>

\* res_rx is empty and its senders, the reader and the encoders, are gone.
EmitterClosed ==
    /\ emitter = "recv"
    /\ res = <<>>
    /\ reader = "exited"
    /\ EncodersExited
    /\ emitter' = "join"
    /\ UNCHANGED <<archive, readerVars, permits, raw, encoderVars, res, buffer,
                   next, out, consumerVars>>

\* Mutant: an unbounded out channel.
EmitterDrainUnbounded ==
    /\ emitter = "drain"
    /\ next \in buffer
    /\ ConsumerAlive
    /\ out' = Append(out, next)
    /\ buffer' = buffer \ {next}
    /\ permits' = permits + 1
    /\ next' = next + 1
    /\ UNCHANGED <<archive, readerVars, raw, encoderVars, res, emitter,
                   consumerVars>>

\* Mutant: the permit of a forwarded tile is not returned.
EmitterDrainKeepPermit ==
    /\ emitter = "drain"
    /\ next \in buffer
    /\ ConsumerAlive
    /\ Len(out) < OutCap
    /\ out' = Append(out, next)
    /\ buffer' = buffer \ {next}
    /\ UNCHANGED permits
    /\ next' = next + 1
    /\ UNCHANGED <<archive, readerVars, raw, encoderVars, res, emitter,
                   consumerVars>>

\* Mutant: buffer.get in the place of buffer.remove.
EmitterDrainGet ==
    /\ emitter = "drain"
    /\ next \in buffer
    /\ ConsumerAlive
    /\ Len(out) < OutCap
    /\ out' = Append(out, next)
    /\ UNCHANGED buffer
    /\ permits' = permits + 1
    /\ next' = next + 1
    /\ UNCHANGED <<archive, readerVars, raw, encoderVars, res, emitter,
                   consumerVars>>

\* Mutant: whatever is buffered is forwarded, in the order encoders finish.
EmitterDrainAnyOrder ==
    /\ emitter = "drain"
    /\ Len(out) < OutCap /\ ConsumerAlive
    /\ \E s \in buffer : out' = Append(out, s) /\ buffer' = buffer \ {s}
    /\ permits' = permits + 1
    /\ next' = next + 1
    /\ UNCHANGED <<archive, readerVars, raw, encoderVars, res, emitter,
                   consumerVars>>

\* One turn of `while let Some(tile) = buffer.remove(&next)`: forward the tile
\* once the out channel has room, return a permit, wait for the next number.
\* A permit sent after the reader left is never received.
EmitterDrain ==
    /\ emitter = "drain"
    /\ next \in buffer
    /\ ConsumerAlive
    /\ Len(out) < OutCap
    /\ out' = Append(out, next)
    /\ buffer' = buffer \ {next}
    /\ permits' = permits + 1
    /\ next' = next + 1
    /\ UNCHANGED <<archive, readerVars, raw, encoderVars, res, emitter,
                   consumerVars>>

EmitterDrained ==
    /\ emitter = "drain"
    /\ next \notin buffer
    /\ emitter' = "recv"
    /\ UNCHANGED <<archive, readerVars, permits, raw, encoderVars, res, buffer,
                   next, out, consumerVars>>

EmitterForwardError ==
    /\ emitter = "forward"
    /\ ConsumerAlive
    /\ Len(out) < OutCap
    /\ out' = Append(out, Err)
    /\ emitter' = "recv"
    /\ UNCHANGED <<archive, readerVars, permits, raw, encoderVars, res, buffer,
                   next, consumerVars>>

\* blocking_send fails: leave the loop, which drops res_rx, and drop tok_tx.
EmitterConsumerGone ==
    /\ \/ emitter = "drain" /\ next \in buffer
       \/ emitter = "forward"
    /\ ~ConsumerAlive
    /\ emitter' = "join"
    /\ buffer' = buffer \ {next}
    /\ UNCHANGED <<archive, readerVars, permits, raw, encoderVars, res, next,
                   out, consumerVars>>

\* Both joins have returned; out_tx is dropped with the thread.
EmitterJoin ==
    /\ emitter = "join"
    /\ reader = "exited"
    /\ EncodersExited
    /\ emitter' = "exited"
    /\ UNCHANGED <<archive, readerVars, permits, raw, encoderVars, res, buffer,
                   next, out, consumerVars>>

Emitter == \/ EmitterReceive \/ EmitterClosed \/ EmitterDrain
           \/ EmitterDrained \/ EmitterForwardError \/ EmitterConsumerGone
           \/ EmitterJoin

-----------------------------------------------------------------------------
(* The consumer: convert_pmtiles_to_pmtiles.  Returning drops out_rx, and   *)
(* with it the messages still in the out channel.                           *)

ConsumerReceive ==
    /\ ConsumerAlive
    /\ out # <<>>
    /\ \/ /\ Head(out) # Err
          /\ written' = Append(written, raw[Head(out) + 1])
          /\ out' = Tail(out)
          /\ UNCHANGED conv
       \/ /\ Head(out) = Err \/ "write" \in Faults
          /\ conv' = "failed"
          /\ out' = <<>>
          /\ UNCHANGED written
    /\ UNCHANGED <<archive, readerVars, permits, raw, encoderVars, res,
                   emitterVars>>

\* recv() answers None: the channel is empty and the emitter thread has ended.
ConsumerFinalize ==
    /\ ConsumerAlive
    /\ out = <<>>
    /\ emitter = "exited"
    /\ \/ conv' = "done"
       \/ "finalize" \in Faults /\ conv' = "failed"
    /\ UNCHANGED <<archive, readerVars, permits, raw, encoderVars, res,
                   emitterVars, out, written>>

Consumer == ConsumerReceive \/ ConsumerFinalize

\* The conversion has returned to main: nothing more is waited for.
Returned == ~ConsumerAlive /\ UNCHANGED vars

Next == \/ Reader
        \/ \E w \in Encoders : Encoder(w)
        \/ Emitter
        \/ Consumer
        \/ Returned

Spec == Init /\ [][Next]_vars

\* Every thread the operating system runs is eventually scheduled.
FairSpec ==
    /\ Spec
    /\ WF_vars(Reader)
    /\ \A w \in Encoders : WF_vars(Encoder(w))
    /\ WF_vars(Emitter)
    /\ WF_vars(Consumer)

-----------------------------------------------------------------------------
(* Safety.                                                                  *)

\* The permit pool is a faithful count: as long as the reader is there to take
\* one, permits not taken, the one in the reader's hand and the tiles sent but
\* not yet forwarded in order make up Cap.  A permit returned twice, or not
\* returned for a forwarded tile, breaks it ("Permits cap how far the reader
\* can run ahead of in-order emission").
PermitsConserved ==
    reader # "exited" =>
        permits + (IF reader = "push" THEN 1 ELSE 0) + (Len(raw) - next) = Cap

\* Memory is bounded: with the in-order emission stuck on one slow tile, raw,
\* encoded and buffered tiles together never exceed Cap.
InFlightBounded == Len(raw) - next <= Cap

\* The places a tile's sequence number can be between the reader and the out
\* channel, each as a set of pairs that names the slot.
Slots(s) ==
    (IF s \in taken..(Len(raw) - 1) THEN {<<"raw", 0>>} ELSE {})
        \cup {<<"enc", w>> : w \in {v \in Encoders : enc[v] = "send" /\ result[v] = s}}
        \cup {<<"res", k>> : k \in {j \in DOMAIN res : res[j] = s}}
        \cup (IF s \in buffer THEN {<<"buffer", 0>>} ELSE {})
        \cup (IF s < next THEN {<<"emitted", 0>>} ELSE {})

\* A tile is never in two places: nothing is encoded, buffered or forwarded
\* twice, whichever encoder took it and in whatever order results came back.
TileInOnePlace == \A s \in 0..(Len(raw) - 1) : Cardinality(Slots(s)) <= 1

\* What the consumer has written and what the out channel still holds, up to the
\* first error, are the first sequence numbers, in order and without a gap,
\* although encoders finish in any order: the writer stays clustered.
OutputInOrder ==
    /\ Len(written) <= Len(raw)
    /\ \A k \in DOMAIN written : written[k] = raw[k]
    /\ \A k \in DOMAIN out :
          (\A j \in 1..k : out[j] # Err) => out[k] = Len(written) + k - 1

\* A conversion reported as successful leaves nothing behind: every thread has
\* been joined, and every tile the reader sent has been written, none is still
\* queued, stuck in the reorder buffer or lost on the way ("Re-encodes every
\* tile", line 148).
DoneIsComplete ==
    conv = "done" =>
        /\ reader = "exited" /\ EncodersExited /\ emitter = "exited"
        /\ Len(written) = Len(raw)

\* The conversion implements the abstract one: each present tile written once,
\* in ascending id order, and success only when all of them are.
Conversion == INSTANCE OrderedConversion
ConversionSpec == Conversion!Spec

-----------------------------------------------------------------------------
(* Liveness.                                                                *)

\* Backpressure never stops the pipeline for good: the conversion returns.
ConversionReturns == <>(conv # "running")

ThreadsEnded == reader = "exited" /\ EncodersExited /\ emitter = "exited"

Encodable == \A id \in Ids : archive[id] # "unencodable"

\* When every tile encodes, a conversion that gave up leaves no thread parked on a
\* permit or on a channel: the emitter notices the dropped receiver with the next
\* tile it forwards, and the dropped channel ends wake the others (line 275).
TornDownIfEncodable == (conv = "failed" /\ Encodable) ~> ThreadsEnded

\* Once the consumer has dropped the receiver every pipeline thread ends:
\* "consumer dropped the receiver; tear down" (line 275).
TornDown == (conv = "failed") ~> ThreadsEnded
=============================================================================
