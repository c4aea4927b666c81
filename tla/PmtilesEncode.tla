--------------------------- MODULE PmtilesEncode ---------------------------
(***************************************************************************)
(* The multi-threaded PMTiles encoder of the Java command line tool        *)
(* (mlt-cli, PMTiles.kt, ThreadPoolTaskRunner.kt, TaskRunner.kt).          *)
(*                                                                         *)
(* A root task reads the directory and submits one task per tile range to  *)
(* a bounded thread pool; a task that finds the queue full runs on the     *)
(* submitting thread.  Ranges whose input bytes are the same share one     *)
(* entry of offsetToHashMap, and only one of them hands the encoded bytes  *)
(* to the writer, which deduplicates by content hash.  A range's tiles are *)
(* written in one monitor section, so a range is the unit of writing.      *)
(***************************************************************************)
EXTENDS Naturals, Sequences, FiniteSets

CONSTANTS NumRanges,   \* tile ranges in the directory, in order 1..NumRanges
          Offsets,     \* byte offsets of distinct tile contents in the input
          Tracked,     \* offsets whose length is at most maxTileTrackSize
          Hashes,      \* content hashes of encoded tiles
          NoHash,      \* no hash: absent from a map, or not computed
          Encodings,   \* Encodings[o]: hashes that encoding the tile at o can give
          Outcomes,    \* what may become of the tile at an offset, see Outcome
          Workers,     \* threads of the pool (threadCount - 1)
          QueueCap,    \* capacity of the task queue
          Faults       \* failures of the environment, see Fault

\* "ok": converted; "empty": converted to nothing; "invalid": decompress or
\* convertTile fails, which the task reports; "unreadable": getBytes throws.
Outcome == {"ok", "empty", "invalid", "unreadable"}

\* "directory": reading the directory throws; "write": the tile writer throws;
\* "finish": writer.finish throws an IOException.
Fault == {"directory", "write", "finish"}

ASSUME EncodeAssumption ==
    /\ NumRanges \in Nat
    /\ Tracked \subseteq Offsets
    /\ NoHash \notin Hashes
    /\ Encodings \in [Offsets -> (SUBSET Hashes) \ {{}}]
    /\ Outcomes \subseteq Outcome
    /\ Workers # {} /\ IsFiniteSet(Workers)
    /\ QueueCap \in Nat \ {0}
    /\ Faults \subseteq Fault

Ranges == 1..NumRanges

VARIABLES offset,     \* offset[r]: where the input has range r's tile, fixed
          outcome,    \* outcome[o]: what processing the tile at o comes to, fixed
          continueOnError,   \* the command line option, fixed
          root,       \* the root task: "reading", "returned" or "threw"
          rootThread, \* the worker it runs on
          dir,        \* the range the root task reads next
          uncaught,   \* the ranges whose task an exception ended
          queue,      \* the pool's task queue
          shutdown,   \* threadPool.shutdown() has been called
          pc,         \* what each worker is at
          job,        \* the range each worker processes or processed last
          hash,       \* the hash its task will pass to the writer
          offsetToHashMap,   \* the shared map, NoHash where it has no entry
          success,    \* ConversionState.success
          entry,      \* the output directory: the hash a range refers to
          stored,     \* the output data: what the writer stored for a hash
          main        \* "waiting", "finished" (success) or "failed"

input == <<offset, outcome, continueOnError>>
rootVars == <<root, rootThread, dir, uncaught>>
poolVars == <<queue, shutdown>>
taskVars == <<pc, job, hash>>
stateVars == <<offsetToHashMap, success>>
archive == <<entry, stored>>
vars == <<input, rootVars, poolVars, taskVars, stateVars, archive, main>>

TypeOK ==
    /\ offset \in [Ranges -> Offsets]
    /\ outcome \in [Offsets -> Outcomes]
    /\ continueOnError \in BOOLEAN
    /\ root \in {"reading", "returned", "threw"}
    /\ rootThread \in Workers
    /\ dir \in 1..(NumRanges + 1)
    /\ uncaught \subseteq Ranges
    /\ queue \in Seq(Ranges)
    /\ Len(queue) <= QueueCap
    /\ shutdown \in BOOLEAN
    /\ pc \in [Workers -> {"new", "idle", "check", "convert", "publish",
                           "writeData", "writeEmpty"}]
    /\ job \in [Workers -> Ranges \cup {0}]
    /\ hash \in [Workers -> Hashes \cup {NoHash}]
    /\ offsetToHashMap \in [Offsets -> Hashes \cup {NoHash}]
    /\ success \in BOOLEAN
    /\ entry \in [Ranges -> Hashes \cup {NoHash}]
    /\ stored \in [Hashes -> {"nothing", "data", "empty"}]
    /\ main \in {"waiting", "finished", "failed"}

Init ==
    /\ offset \in [Ranges -> Offsets]
    /\ outcome \in [Offsets -> Outcomes]
    /\ continueOnError \in BOOLEAN
    /\ root = "reading" /\ dir = 1 /\ uncaught = {}
    /\ rootThread \in Workers
    /\ queue = <<>> /\ shutdown = FALSE
    /\ pc = [w \in Workers |-> IF w = rootThread THEN "idle" ELSE "new"]
    /\ job = [w \in Workers |-> 0]
    /\ hash = [w \in Workers |-> NoHash]
    /\ offsetToHashMap = [o \in Offsets |-> NoHash]
    /\ success = TRUE
    /\ entry = [r \in Ranges |-> NoHash]
    /\ stored = [h \in Hashes |-> "nothing"]
    /\ main = "waiting"

-----------------------------------------------------------------------------
(* The root task: processTiles, then shutdown.                              *)

Busy(w) == pc[w] \notin {"new", "idle"}

\* The root task proceeds when its thread is not inside a task it runs itself.
RootRuns == root = "reading" /\ ~Busy(rootThread)

StartTask(w, r) ==
    /\ pc' = [pc EXCEPT ![w] = "check"]
    /\ job' = [job EXCEPT ![w] = r]
    /\ UNCHANGED hash

\* Mutant: a queue that never refuses a task.
SubmitUnbounded(r) ==
    \/ /\ \E w \in Workers : pc[w] = "new" /\ StartTask(w, r)
       /\ UNCHANGED queue
    \/ /\ \A w \in Workers : pc[w] # "new"
       /\ queue' = Append(queue, r)
       /\ UNCHANGED taskVars

\* Mutant: a rejected task runs on the caller and is queued as well.
SubmitTwice(r) ==
    \/ /\ \E w \in Workers : pc[w] = "new" /\ StartTask(w, r)
       /\ UNCHANGED queue
    \/ /\ \A w \in Workers : pc[w] # "new"
       /\ queue' = Append(queue, r)
       /\ IF Len(queue) < QueueCap THEN UNCHANGED taskVars
          ELSE StartTask(rootThread, r)

\* taskRunner.run: ThreadPoolExecutor starts a worker while there are fewer than
\* its core size, else queues the task, else (CallerRunsPolicy) runs it here.
Submit(r) ==
    \/ /\ \E w \in Workers : pc[w] = "new" /\ StartTask(w, r)
       /\ UNCHANGED queue
    \/ /\ \A w \in Workers : pc[w] # "new"
       /\ Len(queue) < QueueCap
       /\ queue' = Append(queue, r)
       /\ UNCHANGED taskVars
    \/ /\ \A w \in Workers : pc[w] # "new"
       /\ Len(queue) = QueueCap
       /\ StartTask(rootThread, r)
       /\ UNCHANGED queue

\* One turn of `tileSeq.forEach`.
ProcessNextRange ==
    /\ RootRuns
    /\ dir <= NumRanges
    /\ \/ /\ continueOnError \/ success
          /\ Submit(dir)
       \/ /\ ~continueOnError /\ ~success
          /\ UNCHANGED <<queue, taskVars>>
    /\ dir' = dir + 1
    /\ UNCHANGED <<input, root, rootThread, uncaught, shutdown, stateVars, archive,
                   main>>

\* The directory is complete; the root task shuts the pool down and returns.
RootShutdown ==
    /\ RootRuns
    /\ dir > NumRanges
    /\ root' = "returned"
    /\ shutdown' = TRUE
    /\ UNCHANGED <<input, rootThread, dir, uncaught, queue, taskVars, stateVars,
                   archive, main>>

\* Reading a leaf directory throws out of the root task: no shutdown() follows.
RootThrows ==
    /\ RootRuns
    /\ "directory" \in Faults
    /\ root' = "threw"
    /\ UNCHANGED <<input, rootThread, dir, uncaught, poolVars, taskVars, stateVars,
                   archive, main>>

Root == ProcessNextRange \/ RootShutdown \/ RootThrows

-----------------------------------------------------------------------------
(* The tasks: processTileRange on a worker.                                 *)

\* Mutant: a worker takes no more tasks once the pool is shut down.
TakeTaskWhileOpen(w) ==
    /\ pc[w] = "idle"
    /\ w = rootThread => root # "reading"
    /\ queue # <<>> /\ ~shutdown
    /\ queue' = Tail(queue)
    /\ StartTask(w, Head(queue))
    /\ UNCHANGED <<input, rootVars, shutdown, stateVars, archive, main>>

\* A worker that has nothing to do takes the next task of the queue.
TakeTask(w) ==
    /\ pc[w] = "idle"
    /\ w = rootThread => root # "reading"
    /\ queue # <<>>
    /\ queue' = Tail(queue)
    /\ StartTask(w, Head(queue))
    /\ UNCHANGED <<input, rootVars, shutdown, stateVars, archive, main>>

Return(w) == pc' = [pc EXCEPT ![w] = "idle"]

\* An exception nobody catches ends the task (the pool replaces the thread); out
\* of a task the root task runs itself it ends the root task too.
Uncaught(w) ==
    /\ Return(w)
    /\ root' = IF root = "reading" /\ w = rootThread THEN "threw" ELSE root
    /\ uncaught' = uncaught \cup {job[w]}
    /\ UNCHANGED <<job, hash, rootThread, dir>>

\* offsetToHashMap.get: the input tile was processed for another range already.
CheckMap(w) ==
    /\ pc[w] = "check"
    /\ LET o == offset[job[w]] IN
       IF o \in Tracked /\ offsetToHashMap[o] # NoHash
       THEN /\ hash' = [hash EXCEPT ![w] = offsetToHashMap[o]]
            /\ pc' = [pc EXCEPT ![w] = "writeEmpty"]
       ELSE /\ pc' = [pc EXCEPT ![w] = "convert"]
            /\ UNCHANGED hash
    /\ UNCHANGED <<input, rootVars, poolVars, job, stateVars, archive, main>>

\* Mutant: a tile that cannot be converted is only logged.
ConvertLogsOnly(w) ==
    /\ pc[w] = "convert"
    /\ LET o == offset[job[w]] IN
       \/ /\ outcome[o] = "ok"
          /\ \E h \in Encodings[o] : hash' = [hash EXCEPT ![w] = h]
          /\ pc' = [pc EXCEPT ![w] = "publish"]
       \/ /\ outcome[o] # "ok"
          /\ Return(w)
          /\ UNCHANGED hash
    /\ UNCHANGED <<input, rootVars, poolVars, job, stateVars, archive, main>>

\* getBytes, decompress and convertTile: work on the task's own data.
Convert(w) ==
    /\ pc[w] = "convert"
    /\ LET o == offset[job[w]] IN
       \/ /\ outcome[o] = "ok"
          /\ \E h \in Encodings[o] : hash' = [hash EXCEPT ![w] = h]
          /\ pc' = [pc EXCEPT ![w] = "publish"]
          /\ UNCHANGED <<rootVars, job, success>>
       \/ /\ outcome[o] = "empty"
          /\ Return(w)
          /\ UNCHANGED <<rootVars, job, hash, success>>
       \/ /\ outcome[o] = "invalid"
          /\ success' = FALSE
          /\ Return(w)
          /\ UNCHANGED <<rootVars, job, hash>>
       \/ /\ outcome[o] = "unreadable"
          /\ Uncaught(w)
          /\ UNCHANGED success
    /\ UNCHANGED <<input, poolVars, offsetToHashMap, archive, main>>

\* Mutant: put instead of putIfAbsent.
PublishPut(w) ==
    /\ pc[w] = "publish"
    /\ offsetToHashMap' = [offsetToHashMap EXCEPT ![offset[job[w]]] = hash[w]]
    /\ pc' = [pc EXCEPT ![w] = "writeData"]
    /\ UNCHANGED <<input, rootVars, poolVars, job, hash, success, archive, main>>

\* offsetToHashMap.putIfAbsent: whoever comes first writes the data, the others
\* only refer to its hash; another hash for the same input is an error.
Publish(w) ==
    /\ pc[w] = "publish"
    /\ LET o == offset[job[w]]
           existing == IF o \in Tracked THEN offsetToHashMap[o] ELSE NoHash IN
       \/ /\ existing = NoHash
          /\ offsetToHashMap' = IF o \in Tracked
                                THEN [offsetToHashMap EXCEPT ![o] = hash[w]]
                                ELSE offsetToHashMap
          /\ pc' = [pc EXCEPT ![w] = "writeData"]
          /\ UNCHANGED success
       \/ /\ existing = hash[w]
          /\ pc' = [pc EXCEPT ![w] = "writeEmpty"]
          /\ UNCHANGED stateVars
       \/ /\ existing \notin {NoHash, hash[w]}
          /\ success' = FALSE
          /\ Return(w)
          /\ UNCHANGED offsetToHashMap
    /\ UNCHANGED <<input, rootVars, poolVars, job, hash, archive, main>>

\* External: the deduplicating tile archive writer stores the bytes that come
\* with the first write of a hash and drops the bytes of later ones.
ArchiveWrite(r, h, bytes) ==
    /\ stored' = IF stored[h] = "nothing" THEN [stored EXCEPT ![h] = bytes] ELSE stored
    /\ entry' = [entry EXCEPT ![r] = h]

\* writeTiles, one section of the writer's monitor; processTileRange returns true.
WriteTiles(w) ==
    /\ \/ /\ pc[w] = "writeData"
          /\ ArchiveWrite(job[w], hash[w], "data")
       \/ /\ pc[w] = "writeEmpty"
          /\ ArchiveWrite(job[w], hash[w], "empty")
    /\ Return(w)
    /\ UNCHANGED <<input, rootVars, poolVars, job, hash, stateVars, main>>

WriteThrows(w) ==
    /\ pc[w] \in {"writeData", "writeEmpty"}
    /\ "write" \in Faults
    /\ Uncaught(w)
    /\ UNCHANGED <<input, poolVars, stateVars, archive, main>>

Task(w) == \/ TakeTask(w) \/ CheckMap(w) \/ Convert(w) \/ Publish(w)
           \/ WriteTiles(w) \/ WriteThrows(w)

-----------------------------------------------------------------------------
(* The main thread: awaitTermination, then finish.                          *)

\* Mutant: a pool with an empty queue counts as terminated.
PoolDrained == shutdown /\ queue = <<>>

\* What awaitTermination waits for.
PoolTerminated ==
    shutdown /\ queue = <<>> /\ root # "reading" /\ \A w \in Workers : ~Busy(w)

Main ==
    /\ main = "waiting"
    /\ PoolTerminated
    /\ \/ success /\ main' = "finished"
       \/ ~success /\ main' = "failed"
       \/ success /\ "finish" \in Faults /\ main' = "failed"
    /\ UNCHANGED <<input, rootVars, poolVars, taskVars, stateVars, archive>>

Returned == main # "waiting" /\ UNCHANGED vars

Next == Root \/ (\E w \in Workers : Task(w)) \/ Main \/ Returned

Spec == Init /\ [][Next]_vars

\* Threads are scheduled by the operating system; nothing else is assumed.
FairSpec ==
    /\ Spec
    /\ WF_vars(Root)
    /\ \A w \in Workers : WF_vars(Task(w))
    /\ WF_vars(Main)

-----------------------------------------------------------------------------
(* Safety.                                                                  *)

Submitted == {r \in Ranges : r < dir}
Queued == {queue[k] : k \in DOMAIN queue}
InProgress == {job[w] : w \in {v \in Workers : Busy(v)}}

\* A range is handed to at most one thread: never queued twice, never queued while
\* a thread runs it (on the caller, when the queue was full), never run by two.
TasksRunOnce ==
    /\ Cardinality(Queued) = Len(queue)
    /\ Queued \cap InProgress = {}
    /\ Cardinality(InProgress) = Cardinality({w \in Workers : Busy(w)})
    /\ Queued \cup InProgress \subseteq Submitted
    /\ \A r \in Queued \cup InProgress : entry[r] = NoHash

\* Whatever threads raced for an input tile, all the ranges that share it refer to
\* one hash, the one the map holds, and it is a hash of that tile's encoding.
EntriesAgree ==
    \A r \in Ranges : entry[r] # NoHash =>
        /\ entry[r] \in Encodings[offset[r]]
        /\ offset[r] \in Tracked => entry[r] = offsetToHashMap[offset[r]]

\* At most one task per tracked input tile is on its way to write its bytes, and
\* it is the one whose hash the map holds: the others refer to what it writes.
OneDataWriter ==
    \A o \in Tracked :
        LET writers == {w \in Workers : pc[w] = "writeData" /\ offset[job[w]] = o} IN
        /\ Cardinality(writers) <= 1
        /\ \A w \in writers : hash[w] = offsetToHashMap[o]

\* "Finalizing" comes after every task: no thread still writes to the archive
\* when main has reported.
FinishedIsQuiet == main # "waiting" => queue = <<>> /\ \A w \in Workers : ~Busy(w)

\* A conversion reported as successful lacks no range but those whose task an
\* exception ended that nobody caught (PMTiles.kt:393, outside the try blocks).
OnlyUncaughtLost ==
    main = "finished" =>
        \A r \in Ranges : outcome[offset[r]] # "empty" /\ entry[r] = NoHash =>
            r \in uncaught

\* A conversion reported as successful has an entry for every range whose tile
\* encodes to something ("Whether the conversion is successful so far", line 539).
SuccessIsComplete ==
    main = "finished" =>
        \A r \in Ranges : outcome[offset[r]] # "empty" => entry[r] # NoHash

\* The empty placeholder bytes are never stored as a tile: "Rely on
\* WritablePmtiles.DeduplicatingTileArchiveWriter to locate the previous entry
\* and never write this empty result" (lines 383-385).
NoEmptyTile == \A h \in Hashes : stored[h] # "empty"

-----------------------------------------------------------------------------
(* Liveness.                                                                *)

\* "Wait for all tasks to complete" (TaskRunner.kt:15) ends.
MainReturns == <>(main # "waiting")

\* Once the root task has shut the pool down every task ends, whatever it throws,
\* and main reports.
ShutdownEnds == shutdown ~> main # "waiting"
=============================================================================
