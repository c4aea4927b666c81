------------------------ MODULE PmtilesEncodeProofs ------------------------
(***************************************************************************)
(* The safety of PmtilesEncode for any number of ranges, any pool, queue,    *)
(* input and failure.  See README.md for the argument.                      *)
(***************************************************************************)
EXTENDS PmtilesEncode, FiniteSetTheorems, TLAPS

-----------------------------------------------------------------------------
(* What is inductive.                                                       *)

\* A range is at one place only: ahead of the root task, in the queue once, at one
\* thread, or done.
OnePlace ==
    /\ \A j, k \in 1..Len(queue) : queue[j] = queue[k] => j = k
    /\ \A k \in 1..Len(queue) : queue[k] < dir
    /\ \A w \in Workers : Busy(w) =>
          /\ job[w] \in Ranges /\ job[w] < dir
          /\ \A k \in 1..Len(queue) : queue[k] # job[w]
          /\ \A v \in Workers : Busy(v) /\ job[v] = job[w] => v = w
    /\ \A r \in Ranges : entry[r] # NoHash =>
          /\ r < dir
          /\ \A k \in 1..Len(queue) : queue[k] # r
          /\ \A w \in Workers : Busy(w) => job[w] # r

RunInv == TypeOK /\ OnePlace

\* The map holds hashes of what it maps, and a thread that is about to write holds
\* the hash of its tile, the map's one if the tile is tracked.
MapHolds ==
    \A o \in Offsets : offsetToHashMap[o] # NoHash => offsetToHashMap[o] \in Encodings[o]

HashHeld ==
    \A w \in Workers :
        /\ pc[w] \in {"publish", "writeData", "writeEmpty"} => hash[w] \in Encodings[offset[job[w]]]
        /\ pc[w] = "writeEmpty" => offset[job[w]] \in Tracked
        /\ pc[w] \in {"writeData", "writeEmpty"} /\ offset[job[w]] \in Tracked =>
              hash[w] = offsetToHashMap[offset[job[w]]]

OneWriter ==
    \A v, w \in Workers :
        /\ pc[v] = "writeData" /\ pc[w] = "writeData"
        /\ offset[job[v]] \in Tracked /\ offset[job[v]] = offset[job[w]]
        => v = w

DataInv == RunInv /\ MapHolds /\ HashHeld /\ OneWriter /\ EntriesAgree

\* Every range the root task is done with is somewhere, as long as nothing failed.
Accounted ==
    success => \A r \in Ranges : r < dir =>
        \/ \E k \in 1..Len(queue) : queue[k] = r
        \/ \E w \in Workers : Busy(w) /\ job[w] = r
        \/ entry[r] # NoHash
        \/ outcome[offset[r]] = "empty"
        \/ r \in uncaught

Ended ==
    /\ shutdown => dir = NumRanges + 1 /\ root = "returned"
    /\ main # "waiting" => PoolTerminated
    /\ main = "finished" => success

EndInv == RunInv /\ Accounted /\ Ended

-----------------------------------------------------------------------------
(* The queue.                                                               *)

LEMMA QueuedLast ==
  ASSUME NEW q \in Seq(Ranges), NEW r \in Ranges
  PROVE  /\ Append(q, r) \in Seq(Ranges)
         /\ Len(q) \in Nat /\ Len(Append(q, r)) = Len(q) + 1
         /\ \A k \in 1..Len(q) : Append(q, r)[k] = q[k]
         /\ Append(q, r)[Len(q) + 1] = r
  OBVIOUS

LEMMA TakenFirst ==
  ASSUME NEW q \in Seq(Ranges), q # <<>>
  PROVE  /\ Head(q) = q[1] /\ Head(q) \in Ranges /\ 1 \in 1..Len(q)
         /\ Tail(q) \in Seq(Ranges)
         /\ Len(q) \in Nat /\ Len(Tail(q)) = Len(q) - 1
         /\ \A k \in 1..Len(Tail(q)) : k + 1 \in 1..Len(q) /\ Tail(q)[k] = q[k + 1]
  OBVIOUS

-----------------------------------------------------------------------------
(* Types, and one place for every range.                                    *)

LEMMA RunInvInit == Init => RunInv
<1> SUFFICES ASSUME Init PROVE RunInv
  OBVIOUS
<1>1. TypeOK
  <2>1. dir \in 1..(NumRanges + 1)
    BY EncodeAssumption DEF Init
  <2>2. queue \in Seq(Ranges) /\ Len(queue) <= QueueCap
    BY EncodeAssumption DEF Init
  <2>3. pc \in [Workers -> {"new", "idle", "check", "convert", "publish", "writeData", "writeEmpty"}]
    BY DEF Init
  <2> QED
    BY <2>1, <2>2, <2>3 DEF Init, TypeOK
<1>2. OnePlace
  BY DEF Init, OnePlace, Busy
<1> QED
  BY <1>1, <1>2 DEF RunInv

\* A thread that has nothing to do starts on a range that is nowhere else.
LEMMA StartKeepsPlaces ==
  ASSUME RunInv, NEW w \in Workers, ~Busy(w), NEW r \in Ranges, StartTask(w, r),
         UNCHANGED entry, r < dir', dir' \in Nat, dir <= dir',
         entry[r] = NoHash, \A v \in Workers : Busy(v) => job[v] # r,
         \A k \in 1..Len(queue') : queue'[k] # r,
         \A k \in 1..Len(queue') : \E j \in 1..Len(queue) : queue'[k] = queue[j],
         \A j, k \in 1..Len(queue') : queue'[j] = queue'[k] => j = k
  PROVE  OnePlace'
<1>1. /\ Busy(w)' /\ job'[w] = r
      /\ \A v \in Workers \ {w} : (Busy(v)' <=> Busy(v)) /\ job'[v] = job[v]
  BY DEF StartTask, Busy, RunInv, TypeOK
<1>2. dir \in Nat /\ (\A k \in 1..Len(queue) : queue[k] \in Nat) /\ Ranges \subseteq Nat
  BY EncodeAssumption DEF RunInv, TypeOK, Ranges
<1> HIDE DEF Ranges
<1>7. \A s \in Nat : s < dir => s < dir'
  BY <1>2
<1>3. \A k \in 1..Len(queue') : queue'[k] < dir'
  BY <1>2, <1>7 DEF RunInv, OnePlace
<1>4. \A v \in Workers : Busy(v)' =>
          /\ job'[v] \in Ranges /\ job'[v] < dir'
          /\ \A k \in 1..Len(queue') : queue'[k] # job'[v]
          /\ \A u \in Workers : Busy(u)' /\ job'[u] = job'[v] => u = v
  <2> SUFFICES ASSUME NEW v \in Workers, Busy(v)'
               PROVE  /\ job'[v] \in Ranges /\ job'[v] < dir'
                      /\ \A k \in 1..Len(queue') : queue'[k] # job'[v]
                      /\ \A u \in Workers : Busy(u)' /\ job'[u] = job'[v] => u = v
    OBVIOUS
  <2>1. CASE v = w
    BY <1>1, <2>1
  <2>2. CASE v # w
    <3>1. /\ Busy(v) /\ job'[v] = job[v] /\ job[v] # r
          /\ job[v] \in Ranges /\ job[v] < dir
          /\ \A k \in 1..Len(queue) : queue[k] # job[v]
          /\ \A u \in Workers : Busy(u) /\ job[u] = job[v] => u = v
      BY <1>1, <2>2 DEF RunInv, OnePlace
    <3> QED
      BY <1>1, <1>2, <1>7, <3>1, ZenonT(40)
  <2> QED
    BY <2>1, <2>2
<1>5. \A s \in Ranges : entry'[s] # NoHash =>
          /\ s < dir'
          /\ \A k \in 1..Len(queue') : queue'[k] # s
          /\ \A v \in Workers : Busy(v)' => job'[v] # s
  <2> SUFFICES ASSUME NEW s \in Ranges, entry'[s] # NoHash
               PROVE  /\ s < dir'
                      /\ \A k \in 1..Len(queue') : queue'[k] # s
                      /\ \A v \in Workers : Busy(v)' => job'[v] # s
    OBVIOUS
  <2>1. /\ s # r /\ s < dir
        /\ \A k \in 1..Len(queue) : queue[k] # s
        /\ \A v \in Workers : Busy(v) => job[v] # s
    BY DEF RunInv, OnePlace
  <2>2. s < dir'
    BY <1>2, <1>7, <2>1
  <2>3. \A v \in Workers : Busy(v)' => job'[v] # s
    BY <1>1, <2>1
  <2> QED
    BY <2>1, <2>2, <2>3
<1> QED
  BY <1>3, <1>4, <1>5 DEF OnePlace

\* A thread goes on with its range, or is done with it; it may have written it.
LEMMA GoingOnKeepsPlaces ==
  ASSUME RunInv, NEW w \in Workers, Busy(w), UNCHANGED <<queue, job, dir>>,
         \A v \in Workers \ {w} : pc'[v] = pc[v],
         \A r \in Ranges : entry'[r] = entry[r] \/ (r = job[w] /\ ~Busy(w)')
  PROVE  OnePlace'
<1>1. \A v \in Workers : Busy(v)' => Busy(v)
  BY DEF Busy
<1>2. \A r \in Ranges : entry'[r] # NoHash =>
          /\ r < dir'
          /\ \A k \in 1..Len(queue') : queue'[k] # r
          /\ \A v \in Workers : Busy(v)' => job'[v] # r
  BY <1>1 DEF RunInv, OnePlace
<1> QED
  BY <1>1, <1>2 DEF RunInv, OnePlace

LEMMA SubmitKeepsRun ==
  ASSUME RunInv, ProcessNextRange
  PROVE  RunInv'
<1>1. /\ dir \in Nat /\ dir' = dir + 1 /\ dir \in Ranges /\ dir' \in 1..(NumRanges + 1)
      /\ UNCHANGED <<input, root, rootThread, uncaught, shutdown, stateVars, archive, main>>
  BY EncodeAssumption DEF ProcessNextRange, RunInv, TypeOK, Ranges
<1>2. /\ \A k \in 1..Len(queue) : queue[k] # dir
      /\ \A w \in Workers : Busy(w) => job[w] # dir
      /\ entry[dir] = NoHash
  BY <1>1 DEF RunInv, OnePlace
<1>7. \A r \in Ranges : r < dir => r < dir'
  BY <1>1 DEF Ranges
<1>8. \A k \in 1..Len(queue) : queue[k] \in Ranges
  BY DEF RunInv, TypeOK
<1>3. ASSUME NEW w \in Workers, ~Busy(w), StartTask(w, dir), UNCHANGED queue
      PROVE  RunInv'
  <2>1. TypeOK'
    BY <1>1, <1>3 DEF RunInv, TypeOK, StartTask, input, stateVars, archive
  <2>2. OnePlace'
    BY <1>1, <1>2, <1>3, StartKeepsPlaces DEF RunInv, OnePlace, archive
  <2> QED
    BY <2>1, <2>2 DEF RunInv
<1>4. CASE UNCHANGED <<queue, taskVars>>
  <2>1. TypeOK'
    BY <1>1, <1>4 DEF RunInv, TypeOK, taskVars, input, stateVars, archive
  <2>2. OnePlace'
    <3>1. /\ UNCHANGED <<queue, pc, job, entry>>
          /\ \A w \in Workers : Busy(w)' <=> Busy(w)
      BY <1>1, <1>4 DEF taskVars, archive, Busy
    <3> QED
      BY <1>7, <1>8, <3>1 DEF RunInv, OnePlace
  <2> QED
    BY <2>1, <2>2 DEF RunInv
<1>5. CASE queue' = Append(queue, dir) /\ Len(queue) < QueueCap /\ UNCHANGED taskVars
  <2>1. /\ queue' \in Seq(Ranges) /\ Len(queue') = Len(queue) + 1 /\ Len(queue) \in Nat
        /\ \A k \in 1..Len(queue) : queue'[k] = queue[k]
        /\ queue'[Len(queue) + 1] = dir
    BY <1>1, <1>5, QueuedLast DEF RunInv, TypeOK
  <2>2. TypeOK'
    BY <1>1, <1>5, <2>1, EncodeAssumption DEF RunInv, TypeOK, taskVars, input, stateVars, archive
  <2>3. \A k \in 1..Len(queue') : k \in 1..Len(queue) \/ (k = Len(queue) + 1 /\ queue'[k] = dir)
    BY <2>1
  <2>4. \A j, k \in 1..Len(queue') : queue'[j] = queue'[k] => j = k
    BY <1>2, <2>1, <2>3 DEF RunInv, OnePlace
  <2>5. \A k \in 1..Len(queue') : queue'[k] < dir'
    <3>1. \A k \in 1..Len(queue) : queue[k] < dir'
      BY <1>7, <1>8 DEF RunInv, OnePlace
    <3> QED
      BY <1>1, <2>1, <2>3, <3>1
  <2>6. \A w \in Workers : Busy(w)' =>
          /\ job'[w] \in Ranges /\ job'[w] < dir'
          /\ \A k \in 1..Len(queue') : queue'[k] # job'[w]
          /\ \A v \in Workers : Busy(v)' /\ job'[v] = job'[w] => v = w
    BY <1>1, <1>2, <1>5, <2>1, <2>3 DEF RunInv, OnePlace, TypeOK, Busy, taskVars, Ranges
  <2>7. \A r \in Ranges : entry'[r] # NoHash =>
          /\ r < dir'
          /\ \A k \in 1..Len(queue') : queue'[k] # r
          /\ \A w \in Workers : Busy(w)' => job'[w] # r
    BY <1>1, <1>2, <1>5, <2>1, <2>3 DEF RunInv, OnePlace, Busy, taskVars, archive, Ranges
  <2> QED
    BY <2>2, <2>4, <2>5, <2>6, <2>7 DEF RunInv, OnePlace
<1>6. CASE Submit(dir)
  <2>1. ~Busy(rootThread) /\ rootThread \in Workers
    BY DEF ProcessNextRange, RootRuns, RunInv, TypeOK
  <2>2. \A w \in Workers : pc[w] = "new" => ~Busy(w)
    BY DEF Busy
  <2> QED
    BY <1>3, <1>5, <1>6, <2>1, <2>2 DEF Submit
<1> QED
  BY <1>4, <1>6 DEF ProcessNextRange

LEMMA RunInvStep == RunInv /\ [Next]_vars => RunInv'
<1> SUFFICES ASSUME RunInv, [Next]_vars PROVE RunInv'
  OBVIOUS
<1> USE DEF input, rootVars, poolVars, taskVars, stateVars, archive
<1>1. CASE ProcessNextRange
  BY <1>1, SubmitKeepsRun
<1>2. CASE RootShutdown \/ RootThrows \/ Main \/ UNCHANGED vars
  <2>1. UNCHANGED <<queue, pc, job, dir, entry>>
    BY <1>2 DEF RootShutdown, RootThrows, Main, vars
  <2>2. TypeOK'
    BY <1>2 DEF RunInv, TypeOK, RootShutdown, RootThrows, Main, vars
  <2>3. OnePlace'
    BY <2>1 DEF RunInv, OnePlace, Busy
  <2> QED
    BY <2>2, <2>3 DEF RunInv
<1>3. ASSUME NEW w \in Workers, TakeTask(w)
      PROVE  RunInv'
  <2>1. /\ Head(queue) = queue[1] /\ Head(queue) \in Ranges /\ 1 \in 1..Len(queue)
        /\ queue' \in Seq(Ranges) /\ Len(queue) \in Nat /\ Len(queue') = Len(queue) - 1
        /\ \A k \in 1..Len(queue') : k + 1 \in 1..Len(queue) /\ queue'[k] = queue[k + 1]
    BY <1>3, TakenFirst DEF TakeTask, RunInv, TypeOK
  <2>2. TypeOK'
    BY <1>3, <2>1, EncodeAssumption DEF TakeTask, RunInv, TypeOK, StartTask
  <2>3. \A k \in 1..Len(queue') : queue'[k] # Head(queue)
    BY <2>1 DEF RunInv, OnePlace
  <2>4. \A j, k \in 1..Len(queue') : queue'[j] = queue'[k] => j = k
    BY <2>1 DEF RunInv, OnePlace
  <2>5. /\ ~Busy(w) /\ StartTask(w, Head(queue)) /\ UNCHANGED <<entry, dir>>
    BY <1>3 DEF TakeTask, Busy
  <2>6. /\ Head(queue) < dir /\ entry[Head(queue)] = NoHash
        /\ \A v \in Workers : Busy(v) => job[v] # Head(queue)
    BY <2>1 DEF RunInv, OnePlace
  <2>7. dir' \in Nat /\ dir <= dir'
    BY <2>5, EncodeAssumption DEF RunInv, TypeOK
  <2>8. \A k \in 1..Len(queue') : \E j \in 1..Len(queue) : queue'[k] = queue[j]
    BY <2>1
  <2>9. OnePlace'
    BY <2>1, <2>3, <2>4, <2>5, <2>6, <2>7, <2>8, StartKeepsPlaces
  <2> QED
    BY <2>2, <2>9 DEF RunInv
<1>4. ASSUME NEW w \in Workers, CheckMap(w) \/ Convert(w) \/ Publish(w) \/ WriteTiles(w) \/ WriteThrows(w)
      PROVE  RunInv'
  <2>1. /\ Busy(w) /\ UNCHANGED <<queue, job, dir>>
        /\ \A v \in Workers \ {w} : pc'[v] = pc[v]
    BY <1>4 DEF CheckMap, Convert, Publish, WriteTiles, WriteThrows, Uncaught, Return, Busy, RunInv, TypeOK
  <2>2. \A r \in Ranges : entry'[r] = entry[r] \/ (r = job[w] /\ ~Busy(w)')
    BY <1>4 DEF CheckMap, Convert, Publish, WriteTiles, WriteThrows, Uncaught, Return, Busy, ArchiveWrite,
                RunInv, TypeOK
  <2>3. OnePlace'
    BY <2>1, <2>2, GoingOnKeepsPlaces
  <2>4. /\ job[w] \in Ranges /\ offset[job[w]] \in Offsets /\ hash[w] \in Hashes \cup {NoHash}
        /\ Encodings[offset[job[w]]] \subseteq Hashes
    BY <2>1, EncodeAssumption DEF RunInv, OnePlace, TypeOK
  <2>5. TypeOK'
    <3>1. CASE CheckMap(w)
      BY <2>4, <3>1 DEF CheckMap, RunInv, TypeOK
    <3>2. CASE Convert(w)
      <4>1. hash' \in [Workers -> Hashes \cup {NoHash}]
        BY <2>4, <3>2 DEF Convert, Uncaught, RunInv, TypeOK
      <4>2. pc' \in [Workers -> {"new", "idle", "check", "convert", "publish", "writeData", "writeEmpty"}]
        BY <3>2 DEF Convert, Uncaught, Return, RunInv, TypeOK
      <4> QED
        BY <2>4, <3>2, <4>1, <4>2 DEF Convert, Uncaught, RunInv, TypeOK
    <3>3. CASE Publish(w)
      BY <2>4, <3>3 DEF Publish, Return, RunInv, TypeOK
    <3>4. CASE WriteTiles(w)
      BY <2>4, <3>4 DEF WriteTiles, ArchiveWrite, Return, RunInv, TypeOK
    <3>5. CASE WriteThrows(w)
      BY <2>4, <3>5 DEF WriteThrows, Uncaught, Return, RunInv, TypeOK
    <3> QED
      BY <1>4, <3>1, <3>2, <3>3, <3>4, <3>5
  <2> QED
    BY <2>3, <2>5 DEF RunInv
<1> QED
  BY <1>1, <1>2, <1>3, <1>4 DEF Next, Root, Task, Returned

LEMMA RunInvAlways == Spec => []RunInv
  BY RunInvInit, RunInvStep, PTL DEF Spec

\* Types: every variable has values of its set, and the queue holds no more tasks
\* than its capacity.
THEOREM EncodeTypesHold == Spec => []TypeOK
  BY RunInvAlways, PTL DEF RunInv

-----------------------------------------------------------------------------
(* Tasks run once.                                                          *)

LEMMA SameNumber ==
  ASSUME NEW S, NEW T, IsFiniteSet(S), NEW f \in [S -> T],
         \A t \in T : \E s \in S : f[s] = t,
         \A s, u \in S : f[s] = f[u] => s = u
  PROVE  Cardinality(T) = Cardinality(S)
<1>1. f \in Bijection(S, T)
  BY DEF Bijection, Injection, Surjection, IsInjective
<1> QED
  BY <1>1, FS_Bijection DEF ExistsBijection

LEMMA OnePlaceCounts == RunInv => TasksRunOnce
<1> SUFFICES ASSUME RunInv PROVE TasksRunOnce
  OBVIOUS
<1>1. /\ queue \in Seq(Ranges) /\ Len(queue) \in Nat /\ DOMAIN queue = 1..Len(queue)
      /\ \A k \in 1..Len(queue) : queue[k] \in Ranges
  BY DEF RunInv, TypeOK
<1>2. Cardinality(Queued) = Len(queue)
  <2> DEFINE f == [k \in 1..Len(queue) |-> queue[k]]
  <2>1. IsFiniteSet(1..Len(queue)) /\ Cardinality(1..Len(queue)) = Len(queue)
    <3>1. /\ IsFiniteSet(1..Len(queue))
          /\ Cardinality(1..Len(queue)) = IF 1 > Len(queue) THEN 0 ELSE Len(queue) - 1 + 1
      BY <1>1, FS_Interval
    <3> QED
      BY <1>1, <3>1
  <2>2. f \in [1..Len(queue) -> Queued]
    BY <1>1 DEF Queued
  <2>3. \A r \in Queued : \E k \in 1..Len(queue) : f[k] = r
    BY <1>1 DEF Queued
  <2>4. \A j, k \in 1..Len(queue) : f[j] = f[k] => j = k
    BY DEF RunInv, OnePlace
  <2> HIDE DEF f
  <2> QED
    BY <2>1, <2>2, <2>3, <2>4, SameNumber
<1>3. Cardinality(InProgress) = Cardinality({w \in Workers : Busy(w)})
  <2> DEFINE busy == {w \in Workers : Busy(w)}
             f == [w \in busy |-> job[w]]
  <2>1. IsFiniteSet(busy)
    BY EncodeAssumption, FS_Subset
  <2>2. f \in [busy -> InProgress]
    BY DEF InProgress
  <2>3. \A r \in InProgress : \E w \in busy : f[w] = r
    BY DEF InProgress
  <2>4. \A v, w \in busy : f[v] = f[w] => v = w
    BY DEF RunInv, OnePlace
  <2> HIDE DEF f, busy
  <2>5. Cardinality(InProgress) = Cardinality(busy)
    BY <2>1, <2>2, <2>3, <2>4, SameNumber
  <2> QED
    BY <2>5 DEF busy
<1>4. Queued \cap InProgress = {}
  BY <1>1 DEF RunInv, OnePlace, Queued, InProgress
<1>5. Queued \cup InProgress \subseteq Submitted
  BY <1>1 DEF RunInv, OnePlace, Queued, InProgress, Submitted
<1>6. \A r \in Queued \cup InProgress : entry[r] = NoHash
  BY <1>1 DEF RunInv, OnePlace, Queued, InProgress
<1> QED
  BY <1>2, <1>3, <1>4, <1>5, <1>6 DEF TasksRunOnce

\* A range is handed to at most one thread and is not written before its turn,
\* whatever the pool, the queue and the failures (ThreadPoolTaskRunner.kt).
THEOREM TasksCorrect == Spec => []TasksRunOnce
  BY RunInvAlways, OnePlaceCounts, PTL

-----------------------------------------------------------------------------
(* Hashes: the map, the threads and the entries agree.                      *)

LEMMA DataInvInit == Init => DataInv
<1> SUFFICES ASSUME Init PROVE DataInv
  OBVIOUS
<1>1. /\ \A w \in Workers : pc[w] \in {"idle", "new"}
      /\ \A o \in Offsets : offsetToHashMap[o] = NoHash
      /\ \A r \in Ranges : entry[r] = NoHash
  BY DEF Init
<1> QED
  BY <1>1, RunInvInit DEF DataInv, MapHolds, HashHeld, OneWriter, EntriesAgree

\* A step that changes neither the map nor an entry nor what the writing threads hold.
LEMMA DataFrame ==
  ASSUME DataInv, RunInv', UNCHANGED <<offset, offsetToHashMap, entry>>,
         \A w \in Workers : pc'[w] \in {"publish", "writeData", "writeEmpty"} =>
            pc'[w] = pc[w] /\ job'[w] = job[w] /\ hash'[w] = hash[w]
  PROVE  DataInv'
<1>1. MapHolds' /\ EntriesAgree'
  BY DEF DataInv, MapHolds, EntriesAgree
<1>2. HashHeld'
  BY DEF DataInv, HashHeld
<1>3. OneWriter'
  BY DEF DataInv, OneWriter
<1> QED
  BY <1>1, <1>2, <1>3 DEF DataInv

\* What a busy thread works on.
LEMMA TileOf ==
  ASSUME RunInv, NEW w \in Workers, Busy(w)
  PROVE  /\ job[w] \in Ranges /\ offset[job[w]] \in Offsets
         /\ Encodings[offset[job[w]]] \subseteq Hashes
         /\ NoHash \notin Encodings[offset[job[w]]]
  BY EncodeAssumption DEF RunInv, OnePlace, TypeOK

LEMMA DataInvStep == DataInv /\ RunInv' /\ [Next]_vars => DataInv'
<1> SUFFICES ASSUME DataInv, RunInv', [Next]_vars PROVE DataInv'
  OBVIOUS
<1> USE DEF input, rootVars, poolVars, taskVars, stateVars, archive
<1>1. CASE RootShutdown \/ RootThrows \/ Main \/ UNCHANGED vars
  BY <1>1, DataFrame DEF RootShutdown, RootThrows, Main, vars
<1>2. CASE ProcessNextRange
  <2>1. UNCHANGED <<offset, offsetToHashMap, entry>>
    BY <1>2 DEF ProcessNextRange
  <2>2. \A w \in Workers : pc'[w] \in {"publish", "writeData", "writeEmpty"} =>
            pc'[w] = pc[w] /\ job'[w] = job[w] /\ hash'[w] = hash[w]
    BY <1>2 DEF ProcessNextRange, Submit, StartTask, DataInv, RunInv, TypeOK
  <2> QED
    BY <2>1, <2>2, DataFrame
<1>3. ASSUME NEW w \in Workers, TakeTask(w) \/ WriteThrows(w)
      PROVE  DataInv'
  <2>1. \A v \in Workers : pc'[v] \in {"publish", "writeData", "writeEmpty"} =>
            pc'[v] = pc[v] /\ job'[v] = job[v] /\ hash'[v] = hash[v]
    BY <1>3 DEF TakeTask, WriteThrows, StartTask, Uncaught, Return, DataInv, RunInv, TypeOK
  <2> QED
    BY <1>3, <2>1, DataFrame DEF TakeTask, WriteThrows
<1>4. ASSUME NEW w \in Workers, CheckMap(w)
      PROVE  DataInv'
  <2>1. /\ pc[w] = "check" /\ Busy(w)
        /\ UNCHANGED <<offset, offsetToHashMap, entry, job>>
        /\ \A v \in Workers \ {w} : pc'[v] = pc[v] /\ hash'[v] = hash[v]
    BY <1>4 DEF CheckMap, Busy, DataInv, RunInv, TypeOK
  <2>2. CASE pc'[w] = "convert"
    BY <2>1, <2>2, DataFrame
  <2>3. CASE /\ pc'[w] = "writeEmpty" /\ hash'[w] = offsetToHashMap[offset[job[w]]]
             /\ offset[job[w]] \in Tracked /\ offsetToHashMap[offset[job[w]]] # NoHash
    <3>1. hash'[w] \in Encodings[offset[job[w]]]
      BY <2>1, <2>3, TileOf DEF DataInv, MapHolds
    <3>2. HashHeld'
      BY <2>1, <2>3, <3>1 DEF DataInv, HashHeld
    <3>3. OneWriter'
      BY <2>1, <2>3 DEF DataInv, OneWriter
    <3>4. MapHolds' /\ EntriesAgree'
      BY <2>1 DEF DataInv, MapHolds, EntriesAgree
    <3> QED
      BY <3>2, <3>3, <3>4 DEF DataInv
  <2> QED
    BY <1>4, <2>2, <2>3 DEF CheckMap, DataInv, RunInv, TypeOK
<1>5. ASSUME NEW w \in Workers, Convert(w)
      PROVE  DataInv'
  <2>1. /\ pc[w] = "convert" /\ Busy(w)
        /\ UNCHANGED <<offset, offsetToHashMap, entry, job>>
        /\ \A v \in Workers \ {w} : pc'[v] = pc[v] /\ hash'[v] = hash[v]
    BY <1>5 DEF Convert, Uncaught, Return, Busy, DataInv, RunInv, TypeOK
  <2>2. CASE pc'[w] = "idle"
    BY <2>1, <2>2, DataFrame
  <2>3. CASE pc'[w] = "publish" /\ hash'[w] \in Encodings[offset[job[w]]]
    <3>1. HashHeld'
      BY <2>1, <2>3 DEF DataInv, HashHeld
    <3>2. OneWriter'
      BY <2>1, <2>3 DEF DataInv, OneWriter
    <3>3. MapHolds' /\ EntriesAgree'
      BY <2>1 DEF DataInv, MapHolds, EntriesAgree
    <3> QED
      BY <3>1, <3>2, <3>3 DEF DataInv
  <2> QED
    BY <1>5, <2>2, <2>3 DEF Convert, Uncaught, Return, DataInv, RunInv, TypeOK
<1>6. ASSUME NEW w \in Workers, Publish(w)
      PROVE  DataInv'
  <2> DEFINE o == offset[job[w]]
  <2>1. /\ pc[w] = "publish" /\ Busy(w) /\ hash[w] \in Encodings[o]
        /\ UNCHANGED <<offset, entry, job, hash>>
        /\ \A v \in Workers \ {w} : pc'[v] = pc[v]
    BY <1>6 DEF Publish, Return, Busy, DataInv, HashHeld, RunInv, TypeOK
  <2>2. /\ o \in Offsets /\ NoHash \notin Encodings[o] /\ hash[w] # NoHash
    BY <2>1, TileOf DEF DataInv
  <2>3. CASE pc'[w] = "idle" /\ UNCHANGED offsetToHashMap
    BY <2>1, <2>3, DataFrame
  <2>4. CASE pc'[w] = "writeEmpty" /\ o \in Tracked /\ offsetToHashMap[o] = hash[w] /\ UNCHANGED offsetToHashMap
    <3>1. HashHeld'
      BY <2>1, <2>4 DEF DataInv, HashHeld
    <3>2. OneWriter'
      BY <2>1, <2>4 DEF DataInv, OneWriter
    <3>3. MapHolds' /\ EntriesAgree'
      BY <2>1, <2>4 DEF DataInv, MapHolds, EntriesAgree
    <3> QED
      BY <3>1, <3>2, <3>3 DEF DataInv
  <2>5. CASE pc'[w] = "writeData" /\ o \notin Tracked /\ UNCHANGED offsetToHashMap
    <3>1. HashHeld'
      BY <2>1, <2>5 DEF DataInv, HashHeld
    <3>2. OneWriter'
      BY <2>1, <2>5 DEF DataInv, OneWriter
    <3>3. MapHolds' /\ EntriesAgree'
      BY <2>1, <2>5 DEF DataInv, MapHolds, EntriesAgree
    <3> QED
      BY <3>1, <3>2, <3>3 DEF DataInv
  <2>6. CASE /\ pc'[w] = "writeData" /\ o \in Tracked /\ offsetToHashMap[o] = NoHash
             /\ offsetToHashMap' = [offsetToHashMap EXCEPT ![o] = hash[w]]
    <3>1. /\ offsetToHashMap'[o] = hash[w]
          /\ \A p \in Offsets \ {o} : offsetToHashMap'[p] = offsetToHashMap[p]
      BY <2>2, <2>6 DEF DataInv, RunInv, TypeOK
    \* A thread that writes, or an entry, of this tile would hold the map's hash.
    <3>2. \A v \in Workers : pc[v] \in {"writeData", "writeEmpty"} => offset[job[v]] # o
      <4> SUFFICES ASSUME NEW v \in Workers, pc[v] \in {"writeData", "writeEmpty"}, offset[job[v]] = o
                   PROVE  FALSE
        OBVIOUS
      <4>1. hash[v] \in Encodings[o] /\ hash[v] = offsetToHashMap[o]
        BY <2>6 DEF DataInv, HashHeld
      <4> QED
        BY <2>2, <2>6, <4>1
    <3>3. \A r \in Ranges : entry[r] # NoHash => offset[r] # o
      BY <2>6 DEF DataInv, EntriesAgree
    <3>4. \A v \in Workers : pc[v] \in {"publish", "writeData", "writeEmpty"} => offset[job[v]] \in Offsets
      BY TileOf DEF DataInv, Busy
    <3>5. \A r \in Ranges : offset[r] \in Offsets
      BY DEF DataInv, RunInv, TypeOK
    <3>6. MapHolds'
      BY <2>1, <3>1 DEF DataInv, MapHolds
    <3>7. HashHeld'
      BY <2>1, <2>6, <3>1, <3>2, <3>4 DEF DataInv, HashHeld
    <3>8. OneWriter'
      BY <2>1, <3>2 DEF DataInv, OneWriter
    <3>9. EntriesAgree'
      BY <2>1, <3>1, <3>3, <3>5 DEF DataInv, EntriesAgree
    <3> QED
      BY <3>6, <3>7, <3>8, <3>9 DEF DataInv
  <2> QED
    BY <1>6, <2>1, <2>2, <2>3, <2>4, <2>5, <2>6 DEF Publish, Return, DataInv, RunInv, TypeOK
<1>7. ASSUME NEW w \in Workers, WriteTiles(w)
      PROVE  DataInv'
  <2>1. /\ pc[w] \in {"writeData", "writeEmpty"} /\ Busy(w) /\ pc'[w] = "idle"
        /\ UNCHANGED <<offset, job, hash, offsetToHashMap>>
        /\ \A v \in Workers \ {w} : pc'[v] = pc[v]
        /\ job[w] \in Ranges
        /\ entry' = [entry EXCEPT ![job[w]] = hash[w]]
    BY <1>7, TileOf DEF WriteTiles, ArchiveWrite, Return, Busy, DataInv, RunInv, TypeOK
  <2>2. /\ hash[w] \in Encodings[offset[job[w]]]
        /\ offset[job[w]] \in Tracked => hash[w] = offsetToHashMap[offset[job[w]]]
    BY <2>1 DEF DataInv, HashHeld
  <2>3. \A r \in Ranges : entry'[r] = IF r = job[w] THEN hash[w] ELSE entry[r]
    BY <2>1 DEF DataInv, RunInv, TypeOK
  <2>4. EntriesAgree'
    BY <2>1, <2>2, <2>3 DEF DataInv, EntriesAgree
  <2>5. HashHeld' /\ OneWriter' /\ MapHolds'
    BY <2>1 DEF DataInv, HashHeld, OneWriter, MapHolds
  <2> QED
    BY <2>4, <2>5 DEF DataInv
<1> QED
  BY <1>1, <1>2, <1>3, <1>4, <1>5, <1>6, <1>7 DEF Next, Root, Task, Returned

LEMMA DataInvAlways == Spec => []DataInv
<1>1. DataInv => RunInv
  BY DEF DataInv
<1> QED
  BY <1>1, DataInvInit, DataInvStep, RunInvAlways, PTL DEF Spec

\* Ranges that share a tracked tile refer to one hash, the one of the map, however
\* the tasks raced for the map (PMTiles.kt:453).
THEOREM EntriesCorrect == Spec => []EntriesAgree
  BY DataInvAlways, PTL DEF DataInv

LEMMA WriterCounts == DataInv => OneDataWriter
<1> SUFFICES ASSUME DataInv, NEW o \in Tracked
             PROVE  LET writers == {w \in Workers : pc[w] = "writeData" /\ offset[job[w]] = o}
                    IN Cardinality(writers) <= 1 /\ \A w \in writers : hash[w] = offsetToHashMap[o]
  BY DEF OneDataWriter
<1> DEFINE writers == {w \in Workers : pc[w] = "writeData" /\ offset[job[w]] = o}
<1>1. \A w \in writers : hash[w] = offsetToHashMap[o]
  BY DEF DataInv, HashHeld
<1>2. \A v, w \in writers : v = w
  BY DEF DataInv, OneWriter
<1>3. writers = {} \/ \E w : writers = {w}
  BY <1>2
<1>4. Cardinality(writers) \in {0, 1}
  <2> HIDE DEF writers
  <2> QED
    BY <1>3, FS_EmptySet, FS_Singleton
<1> QED
  BY <1>1, <1>4

\* The bytes of a tracked tile are handed to the writer by one task at most, with
\* the hash that the map holds (PMTiles.kt:453-475).
THEOREM WriterCorrect == Spec => []OneDataWriter
  BY DataInvAlways, WriterCounts, PTL

-----------------------------------------------------------------------------
(* The end: nothing runs any more, and no range is lost without a trace.    *)

\* Where a range is that the root task is done with.
Found(r) ==
    \/ \E k \in 1..Len(queue) : queue[k] = r
    \/ \E w \in Workers : Busy(w) /\ job[w] = r
    \/ entry[r] # NoHash
    \/ outcome[offset[r]] = "empty"
    \/ r \in uncaught

LEMMA EndInvInit == Init => EndInv
<1> SUFFICES ASSUME Init PROVE EndInv
  OBVIOUS
<1>1. Accounted
  BY EncodeAssumption DEF Init, Accounted, Ranges
<1>2. Ended
  BY DEF Init, Ended
<1> QED
  BY <1>1, <1>2, RunInvInit DEF EndInv

\* Every range found stays so.
LEMMA AccountedKept ==
  ASSUME EndInv, UNCHANGED dir, success' => success,
         \A r \in Ranges : Found(r) => Found(r)'
  PROVE  Accounted'
  BY DEF EndInv, Accounted, Found

\* Once main has reported, no thread has a step left.
LEMMA OnlyMainAfterEnd ==
  ASSUME EndInv, main # "waiting"
  PROVE  ~Root /\ ~Main /\ \A w \in Workers : ~Task(w)
<1>1. PoolTerminated
  BY DEF EndInv, Ended
<1>2. ~Root
  BY <1>1 DEF PoolTerminated, Root, ProcessNextRange, RootShutdown, RootThrows, RootRuns
<1>3. ASSUME NEW w \in Workers PROVE ~Task(w)
  <2>1. queue = <<>> /\ pc[w] \in {"new", "idle"}
    BY <1>1 DEF PoolTerminated, Busy
  <2> QED
    BY <2>1 DEF Task, TakeTask, CheckMap, Convert, Publish, WriteTiles, WriteThrows
<1> QED
  BY <1>2, <1>3 DEF Main

LEMMA EndInvStep == EndInv /\ DataInv /\ RunInv' /\ [Next]_vars => EndInv'
<1> SUFFICES ASSUME EndInv, DataInv, RunInv', [Next]_vars PROVE EndInv'
  OBVIOUS
<1> USE DEF input, rootVars, poolVars, taskVars, stateVars, archive
<1>1. CASE UNCHANGED vars
  <2>1. Accounted'
    BY <1>1 DEF vars, EndInv, Accounted, Busy
  <2>2. Ended'
    BY <1>1 DEF vars, EndInv, Ended, PoolTerminated, Busy
  <2> QED
    BY <2>1, <2>2 DEF EndInv
<1>2. CASE ProcessNextRange
  <2>1. main = "waiting" /\ UNCHANGED <<main, shutdown, root, offset, outcome, entry, uncaught, success>>
    BY <1>2, OnlyMainAfterEnd DEF ProcessNextRange, Root
  <2>2. dir' = dir + 1 /\ dir \in Nat /\ dir \in Ranges
    BY <1>2, EncodeAssumption DEF ProcessNextRange, EndInv, RunInv, TypeOK, Ranges
  <2>3. Ended'
    BY <1>2, <2>1 DEF ProcessNextRange, RootRuns, EndInv, Ended
  <2>4. Accounted'
    <3> SUFFICES ASSUME success, NEW r \in Ranges, r < dir' PROVE Found(r)'
      BY <2>1 DEF Accounted, Found
    <3>1. Submit(dir)
      BY <1>2 DEF ProcessNextRange
    <3>2. /\ ~Busy(rootThread) /\ rootThread \in Workers
          /\ \A w \in Workers : pc[w] = "new" => ~Busy(w)
      BY <1>2 DEF ProcessNextRange, RootRuns, Busy, EndInv, RunInv, TypeOK
    <3>3. r < dir => Found(r)
      BY DEF EndInv, Accounted, Found
    <3>4. r < dir \/ r = dir
      BY <2>2 DEF Ranges
    <3>5. ASSUME NEW w \in Workers, ~Busy(w), StartTask(w, dir), UNCHANGED queue
          PROVE  Found(r)'
      <4>1. /\ Busy(w)' /\ job'[w] = dir
            /\ \A v \in Workers : Busy(v) => Busy(v)' /\ job'[v] = job[v]
        BY <3>5 DEF StartTask, Busy, EndInv, RunInv, TypeOK
      <4> QED
        BY <2>1, <3>3, <3>4, <3>5, <4>1 DEF Found
    <3>6. CASE queue' = Append(queue, dir) /\ UNCHANGED taskVars
      <4>1. /\ Len(queue) \in Nat /\ Len(queue') = Len(queue) + 1
            /\ \A k \in 1..Len(queue) : queue'[k] = queue[k]
            /\ queue'[Len(queue) + 1] = dir
        BY <2>2, <3>6, QueuedLast DEF EndInv, RunInv, TypeOK
      <4>2. /\ \A k \in 1..Len(queue) : k \in 1..Len(queue')
            /\ Len(queue) + 1 \in 1..Len(queue')
        BY <4>1
      <4>3. \A w \in Workers : (Busy(w)' <=> Busy(w)) /\ job'[w] = job[w]
        BY <3>6 DEF Busy
      <4> QED
        BY <2>1, <3>3, <3>4, <4>1, <4>2, <4>3 DEF Found
    <3> QED
      BY <3>1, <3>2, <3>5, <3>6 DEF Submit
  <2> QED
    BY <2>3, <2>4 DEF EndInv
<1>3. CASE RootShutdown \/ RootThrows
  <2>1. main = "waiting" /\ UNCHANGED <<main, dir, queue, pc, job, offset, outcome, entry, uncaught, success>>
    BY <1>3, OnlyMainAfterEnd DEF RootShutdown, RootThrows, Root
  <2>2. Accounted'
    BY <2>1 DEF EndInv, Accounted, Busy
  <2>3. Ended'
    <3>1. CASE RootShutdown
      BY <2>1, <3>1, EncodeAssumption DEF RootShutdown, EndInv, Ended, RunInv, TypeOK
    <3>2. CASE RootThrows
      BY <2>1, <3>2 DEF RootThrows, RootRuns, EndInv, Ended
    <3> QED
      BY <1>3, <3>1, <3>2
  <2> QED
    BY <2>2, <2>3 DEF EndInv
<1>4. CASE Main
  <2>1. Accounted'
    BY <1>4 DEF Main, EndInv, Accounted, Busy
  <2>2. Ended'
    BY <1>4 DEF Main, EndInv, Ended, PoolTerminated, Busy
  <2> QED
    BY <2>1, <2>2 DEF EndInv
<1>5. ASSUME NEW w \in Workers, Task(w)
      PROVE  EndInv'
  <2>1. main = "waiting"
    BY <1>5, OnlyMainAfterEnd
  <2>2. UNCHANGED <<main, shutdown, dir, offset, outcome>>
    BY <1>5 DEF Task, TakeTask, CheckMap, Convert, Publish, WriteTiles, WriteThrows, Uncaught
  <2>3. root' = root \/ (root = "reading" /\ root' = "threw")
    BY <1>5 DEF Task, TakeTask, CheckMap, Convert, Publish, WriteTiles, WriteThrows, Uncaught
  <2>4. Ended'
    BY <2>1, <2>2, <2>3 DEF EndInv, Ended
  <2>5. Accounted'
    <3>1. CASE TakeTask(w)
      <4>1. /\ Head(queue) = queue[1] /\ Len(queue) \in Nat /\ Len(queue') = Len(queue) - 1
            /\ \A k \in 1..Len(queue') : queue'[k] = queue[k + 1]
        BY <3>1, TakenFirst DEF TakeTask, EndInv, RunInv, TypeOK
      <4>2. \A k \in 1..Len(queue) : queue[k] = Head(queue) \/ \E j \in 1..Len(queue') : queue'[j] = queue[k]
        <5> TAKE k \in 1..Len(queue)
        <5>1. CASE k = 1
          BY <4>1, <5>1
        <5>2. CASE k # 1
          <6>1. k - 1 \in 1..Len(queue') /\ k - 1 + 1 = k
            BY <4>1, <5>2
          <6> QED
            BY <4>1, <6>1
        <5> QED
          BY <5>1, <5>2
      <4>3. /\ Busy(w)' /\ job'[w] = Head(queue) /\ ~Busy(w)
            /\ \A v \in Workers : Busy(v) => Busy(v)' /\ job'[v] = job[v]
        BY <3>1 DEF TakeTask, StartTask, Busy, EndInv, RunInv, TypeOK
      <4>4. UNCHANGED <<entry, uncaught, success>>
        BY <3>1 DEF TakeTask
      <4> QED
        BY <2>2, <4>2, <4>3, <4>4, AccountedKept DEF Found
    <3>2. CASE CheckMap(w) \/ Convert(w) \/ Publish(w) \/ WriteTiles(w) \/ WriteThrows(w)
      <4>1. /\ Busy(w) /\ UNCHANGED <<queue, job>> /\ job[w] \in Ranges
            /\ \A v \in Workers \ {w} : pc'[v] = pc[v]
        BY <3>2 DEF CheckMap, Convert, Publish, WriteTiles, WriteThrows, Uncaught, Return, Busy,
                    EndInv, RunInv, OnePlace, TypeOK
      <4>2. /\ success' => success
            /\ uncaught \subseteq uncaught'
            /\ \A r \in Ranges \ {job[w]} : entry'[r] = entry[r]
        BY <3>2, <4>1 DEF CheckMap, Convert, Publish, WriteTiles, WriteThrows, ArchiveWrite, Uncaught,
                    EndInv, RunInv, TypeOK
      <4>3. \A r \in Ranges \ {job[w]} : Found(r) => Found(r)'
        BY <2>2, <4>1, <4>2 DEF Found, Busy
      \* The range itself stays with the thread, or is done with in one of four ways.
      <4>4. Busy(w)' \/ entry'[job[w]] # NoHash \/ outcome[offset[job[w]]] = "empty"
               \/ job[w] \in uncaught' \/ ~success'
        <5>1. CASE CheckMap(w)
          BY <5>1 DEF CheckMap, Busy, EndInv, RunInv, TypeOK
        <5>2. CASE Convert(w)
          BY <5>2 DEF Convert, Uncaught, Busy, EndInv, RunInv, TypeOK
        <5>3. CASE Publish(w)
          BY <5>3 DEF Publish, Busy, EndInv, RunInv, TypeOK
        <5>4. CASE WriteTiles(w)
          <6>1. entry'[job[w]] = hash[w]
            BY <4>1, <5>4 DEF WriteTiles, ArchiveWrite, EndInv, RunInv, TypeOK
          <6>2. hash[w] \in Hashes
            BY <5>4, TileOf DEF WriteTiles, Busy, DataInv, HashHeld
          <6> QED
            BY <6>1, <6>2, EncodeAssumption
        <5>5. CASE WriteThrows(w)
          BY <5>5 DEF WriteThrows, Uncaught
        <5> QED
          BY <3>2, <5>1, <5>2, <5>3, <5>4, <5>5
      <4>5. ~success' \/ Found(job[w])'
        BY <2>2, <4>1, <4>4 DEF Found
      <4> QED
        BY <2>2, <4>1, <4>2, <4>3, <4>5 DEF EndInv, Accounted, Found
    <3> QED
      BY <1>5, <3>1, <3>2 DEF Task
  <2> QED
    BY <2>4, <2>5 DEF EndInv
<1> QED
  BY <1>1, <1>2, <1>3, <1>4, <1>5 DEF Next, Root, Returned

LEMMA EndInvAlways == Spec => []EndInv
<1>1. Spec => [](DataInv /\ RunInv)
  BY DataInvAlways, RunInvAlways, PTL
<1> QED
  BY <1>1, EndInvInit, EndInvStep, PTL DEF Spec

LEMMA EndIsQuiet == EndInv => FinishedIsQuiet
  BY DEF EndInv, Ended, PoolTerminated, FinishedIsQuiet

\* When main has left awaitTermination, and finishes the archive or reports the
\* failure, no task is queued and no thread runs one (TaskRunner.kt:15).
THEOREM FinishedCorrect == Spec => []FinishedIsQuiet
  BY EndInvAlways, EndIsQuiet, PTL

LEMMA EndIsAccounted == EndInv => OnlyUncaughtLost
<1> SUFFICES ASSUME EndInv, main = "finished", NEW r \in Ranges,
                    outcome[offset[r]] # "empty", entry[r] = NoHash
             PROVE  r \in uncaught
  BY DEF OnlyUncaughtLost
<1>1. PoolTerminated /\ success
  BY DEF EndInv, Ended
<1>2. queue = <<>> /\ (\A w \in Workers : ~Busy(w)) /\ dir = NumRanges + 1
  BY <1>1 DEF PoolTerminated, EndInv, Ended
<1>3. r < dir
  BY <1>2, EncodeAssumption DEF Ranges
<1> QED
  BY <1>1, <1>2, <1>3 DEF EndInv, Accounted

\* A conversion reported as successful lacks the ranges of tiles that encode to
\* nothing, those whose task an exception ended, and no other (PMTiles.kt:393).
THEOREM LostCorrect == Spec => []OnlyUncaughtLost
  BY EndInvAlways, EndIsAccounted, PTL

=============================================================================
