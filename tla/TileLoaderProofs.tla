-------------------------- MODULE TileLoaderProofs --------------------------
(***************************************************************************)
(* For every content of the database, every set of views, every budget and   *)
(* every capacity of the channels: the types of TileLoader hold, a tile is   *)
(* shown as loading exactly while its answer is on its way, and the hovered  *)
(* tile is in the cache.                                                    *)
(***************************************************************************)
EXTENDS TileLoader, WellFoundedInduction, TLAPS

Answer_ == [key : Keys, entry : {"empty", "error", "loaded"}]

\* What is inductive: the types, and both properties.
LInv == TypeOK /\ LoadingIsUnderWay /\ HoveredIsCached

-----------------------------------------------------------------------------
(* Sequences and least elements.                                            *)

LEMMA AppendedTo ==
  ASSUME NEW S, NEW q \in Seq(S), NEW x \in S
  PROVE  /\ Append(q, x) \in Seq(S)
         /\ Len(q) \in Nat /\ Len(Append(q, x)) = Len(q) + 1
         /\ \A i \in DOMAIN q : i \in DOMAIN Append(q, x) /\ Append(q, x)[i] = q[i]
         /\ Len(q) + 1 \in DOMAIN Append(q, x) /\ Append(q, x)[Len(q) + 1] = x
  OBVIOUS

LEMMA TakenFrom ==
  ASSUME NEW S, NEW q \in Seq(S), q # <<>>
  PROVE  /\ Head(q) \in S /\ Tail(q) \in Seq(S)
         /\ Len(q) \in Nat /\ Len(Tail(q)) = Len(q) - 1
         /\ \A i \in DOMAIN q : q[i] = Head(q) \/ (i - 1 \in DOMAIN Tail(q) /\ Tail(q)[i - 1] = q[i])
  OBVIOUS

LEMMA LeastElement ==
  ASSUME NEW T, T \subseteq Nat, T # {}
  PROVE  \E x \in T : \A y \in T : x <= y
<1>1. \E x \in T : \A y \in T : ~(<<y, x>> \in OpToRel(<, Nat))
  BY WFMin, NatLessThanWellFounded, Zenon
<1>2. PICK x \in T : \A y \in T : ~(<<y, x>> \in OpToRel(<, Nat))
  BY <1>1
<1>3. \A y \in T : ~(y < x)
  BY <1>2, Zenon DEF OpToRel
<1>4. \A y \in T : x <= y
  BY <1>3
<1> QED
  BY <1>4

-----------------------------------------------------------------------------
(* The tiles of a view.                                                     *)

LEMMA VisibleFacts ==
  ASSUME TypeOK, NEW key \in visible_tiles
  PROVE  /\ key[1] \in Nat /\ key[2] \in Nat
         /\ Chain(key) \subseteq Keys
<1>1. view \in Views
  BY DEF TypeOK
<1>2. key \in VisibleOf[view]
  BY DEF visible_tiles
<1>3. key \in {<<view.z, x>> : x \in view.first..view.last}
  BY <1>1, <1>2 DEF VisibleOf
<1>4. view.z \in Nat /\ view.first \in Nat /\ view.last \in Nat
  BY <1>1, LoaderAssumption
<1> QED
  BY <1>1, <1>2, <1>3, <1>4, ContentAssumption

\* A chain's tiles of which something holds have a deepest one.
LEMMA DeepestOfChain ==
  ASSUME NEW key, key[1] \in Nat, NEW T, T \subseteq Chain(key), T # {}
  PROVE  \E k \in T : \A j \in T : j[1] <= k[1]
<1> DEFINE Up == {n \in 0..key[1] : Ancestor(key, n) \in T}
<1>1. Up \subseteq Nat /\ Up # {}
  BY DEF Chain
<1>2. PICK n \in Up : \A m \in Up : n <= m
  <2> HIDE DEF Up
  <2> QED BY <1>1, LeastElement
<1>3. \A m \in 0..key[1] : Ancestor(key, m)[1] = key[1] - m
  BY DEF Ancestor
<1>4. ASSUME NEW j \in T
      PROVE  j[1] <= Ancestor(key, n)[1]
  <2>1. PICK m \in 0..key[1] : j = Ancestor(key, m)
    BY DEF Chain
  <2>2. n <= m
    BY <1>2, <2>1
  <2> QED
    BY <1>3, <2>1, <2>2
<1> QED
  BY <1>4

\* What find_hovered may name is in the cache.
LEMMA EffectiveIsCached ==
  ASSUME TypeOK, NEW key \in visible_tiles, effective_tile_key(key) # NoTile
  PROVE  effective_tile_key(key) \in DOMAIN tiles
<1> DEFINE loaded == {k \in Chain(key) : HasEntry(k, "loaded")}
<1>1. loaded # {}
  BY DEF effective_tile_key
<1>2. \E k \in loaded : \A j \in loaded : j[1] <= k[1]
  <2>1. key[1] \in Nat
    BY VisibleFacts
  <2>2. loaded \subseteq Chain(key)
    OBVIOUS
  <2> HIDE DEF loaded
  <2> QED BY <1>1, <2>1, <2>2, DeepestOfChain
<1>3. effective_tile_key(key) = CHOOSE k \in loaded : \A j \in loaded : j[1] <= k[1]
  BY <1>1, Zenon DEF effective_tile_key
<1>4. effective_tile_key(key) \in loaded
  <2> HIDE DEF loaded
  <2> QED BY <1>2, <1>3
<1> QED
  BY <1>4 DEF HasEntry

\* The next tile to request is one the cache does not have.
LEMMA NextRequestFacts ==
  ASSUME TypeOK, ~AllRequested
  PROVE  NextRequest \in Keys /\ NextRequest \notin DOMAIN tiles /\ NextRequest \notin loading
<1> DEFINE First(key) == /\ ToRequest(key) # {}
                         /\ \A other \in visible_tiles : other[2] < key[2] => ToRequest(other) = {}
           tile == CHOOSE key \in visible_tiles : First(key)
           columns == {key[2] : key \in {k \in visible_tiles : ToRequest(k) # {}}}
<1>1. columns \subseteq Nat /\ columns # {}
  BY VisibleFacts DEF AllRequested
<1>2. PICK x \in columns : \A y \in columns : x <= y
  <2> HIDE DEF columns
  <2> QED BY <1>1, LeastElement
<1>3. PICK key \in visible_tiles : ToRequest(key) # {} /\ key[2] = x
  OBVIOUS
<1>4. First(key)
  <2> SUFFICES ASSUME NEW other \in visible_tiles, other[2] < key[2], ToRequest(other) # {}
               PROVE  FALSE
    BY <1>3
  <2>1. x <= other[2]
    BY <1>2
  <2>2. other[2] \in Nat /\ key[2] \in Nat
    BY VisibleFacts
  <2> QED
    BY <1>3, <2>1, <2>2
<1>5. tile \in visible_tiles /\ First(tile)
  <2> HIDE DEF First
  <2> QED BY <1>4
<1>6. ToRequest(tile) # {} /\ ToRequest(tile) \subseteq Chain(tile)
  BY <1>5 DEF ToRequest
<1>7. \E k \in ToRequest(tile) : \A j \in ToRequest(tile) : j[1] <= k[1]
  <2>1. tile[1] \in Nat
    BY <1>5, VisibleFacts
  <2> HIDE DEF tile
  <2> QED BY <1>6, <2>1, DeepestOfChain
<1>8. NextRequest = CHOOSE k \in ToRequest(tile) : \A j \in ToRequest(tile) : j[1] <= k[1]
  BY Zenon DEF NextRequest
<1>9. NextRequest \in ToRequest(tile)
  <2> HIDE DEF tile
  <2> QED BY <1>7, <1>8
<1> QED
  <2>1. Chain(tile) \subseteq Keys
    BY <1>5, VisibleFacts
  <2> HIDE DEF tile
  <2> QED BY <1>9, <2>1 DEF ToRequest

-----------------------------------------------------------------------------
(* Each step keeps the invariant.                                           *)

LEMMA InitEstablishes == Init => LInv
<1> SUFFICES ASSUME Init PROVE LInv
  OBVIOUS
<1>1. DOMAIN tiles = {}
  BY DEF Init
<1>2. /\ requests \in Seq(Keys) /\ Len(requests) = 0
      /\ results \in Seq([key : Keys, entry : {"empty", "error", "loaded"}]) /\ Len(results) = 0
  BY DEF Init
<1>3. TypeOK
  <2>1. Len(requests) <= RequestCap /\ Len(results) <= ResultCap
    BY <1>2, LoaderAssumption
  <2>2. /\ DOMAIN tiles \subseteq Keys
        /\ \A key \in DOMAIN tiles : tiles[key] \in {"loading", "empty", "error", "loaded"}
    BY <1>1
  <2>3. /\ view \in Views /\ loading \subseteq Keys /\ hovered \in Keys \cup {NoTile}
        /\ phase \in {"init", "drain", "request", "event"}
        /\ init \in {"waiting", "sent", "failed", "dropped", "read"}
        /\ fatal \in BOOLEAN /\ loader \in {"opening", "open", "stopped"}
        /\ job \in Keys \cup {NoTile}
    BY DEF Init
  <2> QED BY <1>2, <2>1, <2>2, <2>3 DEF TypeOK
<1>4. LoadingIsUnderWay /\ HoveredIsCached
  BY <1>1 DEF Init, LoadingIsUnderWay, HoveredIsCached
<1> QED
  BY <1>3, <1>4 DEF LInv

LEMMA ApplyKeeps == ASSUME LInv, ApplyResult PROVE LInv'
<1> USE DEF LInv
<1> DEFINE result == Head(results)
<1>1. /\ result \in Answer_ /\ Tail(results) \in Seq(Answer_)
      /\ Len(Tail(results)) <= ResultCap
      /\ \A i \in DOMAIN results :
            results[i] = result \/ (i - 1 \in DOMAIN Tail(results) /\ Tail(results)[i - 1] = results[i])
  <2>1. results \in Seq(Answer_) /\ Len(results) <= ResultCap /\ results # <<>>
    BY DEF ApplyResult, TypeOK, Answer_
  <2> QED BY <2>1, TakenFrom, LoaderAssumption
<1>2. /\ tiles' = With(result.key, result.entry) /\ loading' = loading \ {result.key}
      /\ results' = Tail(results)
      /\ UNCHANGED <<view, hovered, phase, fatal, init, requests, loader, job>>
  BY DEF ApplyResult
<1>3. result.key \in Keys /\ result.entry \in {"empty", "error", "loaded"}
  BY <1>1 DEF Answer_
<1>4. /\ DOMAIN tiles' = DOMAIN tiles \cup {result.key}
      /\ tiles'[result.key] = result.entry
      /\ \A k \in DOMAIN tiles : k # result.key => tiles'[k] = tiles[k]
  BY <1>2 DEF With
<1>5. TypeOK'
  BY <1>1, <1>2, <1>3, <1>4 DEF TypeOK, Answer_
<1>6. loading' = {key \in DOMAIN tiles' : tiles'[key] = "loading"}
  BY <1>2, <1>3, <1>4 DEF LoadingIsUnderWay
<1>7. ASSUME NEW key \in loading, key # result.key, UnderWay(key)
      PROVE  UnderWay(key)'
  <2>1. CASE \E i \in DOMAIN results : results[i].key = key
    BY <1>1, <1>2, <1>7, <2>1 DEF UnderWay
  <2>2. CASE ~\E i \in DOMAIN results : results[i].key = key
    BY <1>2, <1>7, <2>2 DEF UnderWay
  <2> QED BY <2>1, <2>2
<1>8. LoadingIsUnderWay'
  BY <1>2, <1>6, <1>7 DEF LoadingIsUnderWay
<1>9. HoveredIsCached'
  BY <1>2, <1>4 DEF HoveredIsCached
<1> QED
  BY <1>5, <1>8, <1>9

LEMMA RequestKeeps == ASSUME LInv, RequestTile PROVE LInv'
<1> USE DEF LInv
<1> DEFINE key == NextRequest
<1>1. key \in Keys /\ key \notin DOMAIN tiles /\ key \notin loading
  BY NextRequestFacts DEF RequestTile
<1>2. UNCHANGED <<view, hovered, phase, fatal, init, results, loader, job>>
  BY DEF RequestTile
<1>3. CASE /\ Len(requests) < RequestCap /\ loader # "stopped"
           /\ tiles' = With(key, "loading") /\ loading' = loading \cup {key}
           /\ requests' = Append(requests, key)
  <2>1. /\ DOMAIN tiles' = DOMAIN tiles \cup {key} /\ tiles'[key] = "loading"
        /\ \A k \in DOMAIN tiles : tiles'[k] = tiles[k]
    BY <1>1, <1>3 DEF With
  <2>2. /\ requests' \in Seq(Keys) /\ Len(requests') <= RequestCap
        /\ \A i \in DOMAIN requests : i \in DOMAIN requests' /\ requests'[i] = requests[i]
        /\ \E i \in DOMAIN requests' : requests'[i] = key
    BY <1>1, <1>3, AppendedTo, LoaderAssumption DEF TypeOK
  <2>3. TypeOK'
    BY <1>1, <1>2, <1>3, <2>1, <2>2 DEF TypeOK
  <2>4. loading' = {k \in DOMAIN tiles' : tiles'[k] = "loading"}
    BY <1>1, <1>3, <2>1 DEF LoadingIsUnderWay
  <2>5. \A k \in loading' : UnderWay(k)'
    BY <1>2, <1>3, <2>2 DEF UnderWay, LoadingIsUnderWay
  <2> QED
    BY <1>2, <2>1, <2>3, <2>4, <2>5 DEF LoadingIsUnderWay, HoveredIsCached
<1>4. CASE tiles' = With(key, "error") /\ UNCHANGED <<loading, requests>>
  <2>1. /\ DOMAIN tiles' = DOMAIN tiles \cup {key} /\ tiles'[key] = "error"
        /\ \A k \in DOMAIN tiles : tiles'[k] = tiles[k]
    BY <1>1, <1>4 DEF With
  <2>2. TypeOK'
    BY <1>1, <1>2, <1>4, <2>1 DEF TypeOK
  <2>3. loading' = {k \in DOMAIN tiles' : tiles'[k] = "loading"}
    BY <1>4, <2>1 DEF LoadingIsUnderWay
  <2> QED
    BY <1>2, <1>4, <2>1, <2>2, <2>3 DEF LoadingIsUnderWay, HoveredIsCached, UnderWay
<1> QED
  BY <1>3, <1>4 DEF RequestTile

LEMMA PruneKeeps == ASSUME LInv, Prune PROVE LInv'
<1> USE DEF LInv
<1> DEFINE stale == IF memory_estimate <= CacheBytes THEN {} ELSE DOMAIN tiles \ keep_tile_keys
<1>1. /\ tiles' = [key \in DOMAIN tiles \ stale |-> tiles[key]]
      /\ loading' = loading \ stale
      /\ hovered' = (IF hovered \in stale THEN NoTile ELSE hovered)
      /\ phase' = "event"
      /\ UNCHANGED <<view, fatal, init, requests, results, loader, job>>
  BY DEF Prune
<1> HIDE DEF stale
<1>2. DOMAIN tiles' = DOMAIN tiles \ stale /\ \A key \in DOMAIN tiles' : tiles'[key] = tiles[key]
  BY <1>1
<1>3. TypeOK'
  BY <1>1, <1>2 DEF TypeOK
<1>4. LoadingIsUnderWay'
  BY <1>1, <1>2 DEF LoadingIsUnderWay, UnderWay
<1>5. HoveredIsCached'
  BY <1>1, <1>2 DEF HoveredIsCached
<1> QED
  BY <1>3, <1>4, <1>5

LEMMA HoverKeeps == ASSUME LInv, Hover PROVE LInv'
<1> USE DEF LInv
<1>1. /\ hovered' \in {NoTile} \cup {effective_tile_key(key) : key \in visible_tiles}
      /\ phase' = "init"
      /\ UNCHANGED <<view, tiles, loading, fatal, init, requests, results, loader, job>>
  BY DEF Hover
<1>2. hovered' = NoTile \/ hovered' \in DOMAIN tiles
  BY <1>1, EffectiveIsCached
<1>3. TypeOK'
  BY <1>1, <1>2 DEF TypeOK
<1> QED
  BY <1>1, <1>2, <1>3 DEF LoadingIsUnderWay, UnderWay, HoveredIsCached

LEMMA TakeKeeps == ASSUME LInv, Take PROVE LInv'
<1> USE DEF LInv
<1>1. /\ loader = "open" /\ job = NoTile /\ requests # <<>>
      /\ job' = Head(requests) /\ requests' = Tail(requests)
      /\ UNCHANGED <<view, tiles, loading, hovered, phase, fatal, init, results, loader>>
  BY DEF Take, ui
<1>2. /\ Head(requests) \in Keys /\ Tail(requests) \in Seq(Keys) /\ Len(Tail(requests)) <= RequestCap
      /\ \A i \in DOMAIN requests :
            requests[i] = Head(requests)
              \/ (i - 1 \in DOMAIN Tail(requests) /\ Tail(requests)[i - 1] = requests[i])
  BY <1>1, TakenFrom, LoaderAssumption DEF TypeOK
<1>3. TypeOK'
  BY <1>1, <1>2 DEF TypeOK
<1>4. ASSUME NEW key \in loading, UnderWay(key)
      PROVE  UnderWay(key)'
  <2>1. key # NoTile
    BY ContentAssumption DEF TypeOK
  <2>2. CASE \E i \in DOMAIN requests : requests[i] = key
    BY <1>1, <1>2, <2>2 DEF UnderWay
  <2>3. CASE ~\E i \in DOMAIN requests : requests[i] = key
    BY <1>1, <1>4, <2>1, <2>3 DEF UnderWay
  <2> QED BY <2>2, <2>3
<1> QED
  BY <1>1, <1>3, <1>4 DEF LoadingIsUnderWay, HoveredIsCached

LEMMA AnswerKeeps == ASSUME LInv, Answer PROVE LInv'
<1> USE DEF LInv
<1>1. /\ job # NoTile /\ Len(results) < ResultCap /\ job' = NoTile
      /\ UNCHANGED <<view, tiles, loading, hovered, phase, fatal, init, requests, loader>>
  BY DEF Answer, ui
<1>2. PICK entry \in Answers(job) : results' = Append(results, [key |-> job, entry |-> entry])
  BY DEF Answer
<1>3. job \in Keys
  BY <1>1 DEF TypeOK
<1>4. entry \in {"empty", "error", "loaded"}
  BY <1>3, ContentAssumption DEF Answers
<1> DEFINE result == [key |-> job, entry |-> entry]
<1>5. result \in Answer_ /\ result.key = job
  BY <1>3, <1>4 DEF Answer_
<1>6. /\ results' \in Seq(Answer_) /\ Len(results') <= ResultCap
      /\ \A i \in DOMAIN results : i \in DOMAIN results' /\ results'[i] = results[i]
      /\ \E i \in DOMAIN results' : results'[i] = result
  <2> HIDE DEF result
  <2>1. results' = Append(results, result)
    BY <1>2 DEF result
  <2> QED BY <1>1, <1>5, <2>1, AppendedTo, LoaderAssumption DEF TypeOK, Answer_
<1>7. TypeOK'
  BY <1>1, <1>6 DEF TypeOK, Answer_
<1>8. ASSUME NEW key \in loading, UnderWay(key)
      PROVE  UnderWay(key)'
  <2>1. CASE job = key
    BY <1>5, <1>6, <2>1 DEF UnderWay
  <2>2. CASE job # key
    BY <1>1, <1>6, <1>8, <2>2 DEF UnderWay
  <2> QED BY <2>1, <2>2
<1> QED
  BY <1>1, <1>7, <1>8 DEF LoadingIsUnderWay, HoveredIsCached

\* The steps that touch neither the cache nor a channel.
LEMMA FrameKeeps ==
  ASSUME LInv, UNCHANGED <<tiles, loading, hovered, requests, results, job>>,
         loader' # "stopped" => loader # "stopped",
         TypeOK'
  PROVE  LInv'
  BY DEF LInv, LoadingIsUnderWay, UnderWay, HoveredIsCached

LEMMA LInvStep == LInv /\ [Next]_vars => LInv'
<1> SUFFICES ASSUME LInv, [Next]_vars PROVE LInv'
  OBVIOUS
<1>1. CASE ReadHandshake
  BY <1>1, FrameKeeps DEF ReadHandshake, LInv, TypeOK
<1>2. CASE ApplyResult
  BY <1>2, ApplyKeeps
<1>3. CASE Drained
  BY <1>3, FrameKeeps DEF Drained, LInv, TypeOK
<1>4. CASE RequestTile
  BY <1>4, RequestKeeps
<1>5. CASE Prune
  BY <1>5, PruneKeeps
<1>6. CASE NoEvent
  BY <1>6, FrameKeeps DEF NoEvent, LInv, TypeOK
<1>7. CASE Move
  BY <1>7, FrameKeeps DEF Move, LInv, TypeOK
<1>8. CASE Hover
  BY <1>8, HoverKeeps
<1>9. CASE Open
  BY <1>9, FrameKeeps DEF Open, ui, LInv, TypeOK
<1>10. CASE Take
  BY <1>10, TakeKeeps
<1>11. CASE Answer
  BY <1>11, AnswerKeeps
<1>12. CASE UNCHANGED vars
  BY <1>12, FrameKeeps DEF vars, ui, LInv, TypeOK
<1> QED
  BY <1>1, <1>2, <1>3, <1>4, <1>5, <1>6, <1>7, <1>8, <1>9, <1>10, <1>11, <1>12
     DEF Next, Tick, Event, Loader

-----------------------------------------------------------------------------
(* The theorems.                                                            *)

LEMMA LInvAlways == Spec => []LInv
  BY InitEstablishes, LInvStep, PTL DEF Spec

\* The channels never exceed their capacity and carry only tiles of the database,
\* and the cache holds only those, in one of its four states (mbt.rs:390).
THEOREM LoaderTypesHold == Spec => []TypeOK
<1>1. LInv => TypeOK
  BY DEF LInv
<1> QED
  BY <1>1, LInvAlways, PTL

\* The keys marked as loading are the entries shown as loading, and unless the
\* loader is gone each of them is in a channel or in its hands, through evictions,
\* second requests and answers to tiles evicted meanwhile (mbt.rs:402, 496, 648).
THEOREM LoadingCorrect == Spec => []LoadingIsUnderWay
<1>1. LInv => LoadingIsUnderWay
  BY DEF LInv
<1> QED
  BY <1>1, LInvAlways, PTL

\* The hovered feature's tile is in the cache after every eviction (mbt.rs:664).
THEOREM HoveredCorrect == Spec => []HoveredIsCached
<1>1. LInv => HoveredIsCached
  BY DEF LInv
<1> QED
  BY <1>1, LInvAlways, PTL

-----------------------------------------------------------------------------
(* What is drawn stays so.                                                  *)

\* The database does not change: an answer and a loaded entry tell what it holds.
EntryInv ==
    /\ \A i \in DOMAIN results : results[i].entry \in Answers(results[i].key)
    /\ \A key \in DOMAIN tiles : tiles[key] = "loaded" => Content[key] = "tile"

LEMMA EntryInvInit == Init => EntryInv
  BY DEF Init, EntryInv

LEMMA AnswersFacts ==
  ASSUME NEW key \in Keys, NEW entry \in Answers(key)
  PROVE  /\ entry = "loaded" => Content[key] = "tile"
         /\ entry # "error" /\ Content[key] = "tile" => entry = "loaded"
  BY ContentAssumption DEF Answers

LEMMA EntryInvStep == LInv /\ EntryInv /\ [Next]_vars => EntryInv'
<1> SUFFICES ASSUME LInv, EntryInv, [Next]_vars PROVE EntryInv'
  OBVIOUS
<1>1. results \in Seq(Answer_)
  BY DEF LInv, TypeOK, Answer_
<1>2. CASE UNCHANGED <<tiles, results>>
  BY <1>2 DEF EntryInv, Answers
<1>3. CASE ApplyResult
  <2> DEFINE result == Head(results)
  <2>1. /\ results # <<>> /\ tiles' = With(result.key, result.entry) /\ results' = Tail(results)
    BY <1>3 DEF ApplyResult
  <2>2. result = results[1] /\ 1 \in DOMAIN results /\ result.key \in Keys
    <3>1. result \in Answer_
      BY <1>1, <2>1, TakenFrom
    <3>2. result = results[1] /\ 1 \in DOMAIN results
      BY <1>1, <2>1
    <3> QED
      BY <3>1, <3>2 DEF Answer_
  <2>3. result.entry = "loaded" => Content[result.key] = "tile"
    BY <2>2, AnswersFacts DEF EntryInv
  <2>4. \A key \in DOMAIN tiles' : tiles'[key] = "loaded" => Content[key] = "tile"
    BY <2>1, <2>3 DEF With, EntryInv
  <2>5. \A i \in DOMAIN results' : i + 1 \in DOMAIN results /\ results'[i] = results[i + 1]
    BY <1>1, <2>1
  <2> QED
    BY <2>4, <2>5 DEF EntryInv, Answers
<1>4. CASE RequestTile
  BY <1>4 DEF RequestTile, With, EntryInv, Answers
<1>5. CASE Prune
  <2>1. /\ UNCHANGED results
        /\ \E stale : tiles' = [key \in DOMAIN tiles \ stale |-> tiles[key]]
    BY <1>5 DEF Prune
  <2> QED
    BY <2>1 DEF EntryInv, Answers
<1>6. CASE Answer
  <2>1. PICK entry \in Answers(job) : results' = Append(results, [key |-> job, entry |-> entry])
    BY <1>6 DEF Answer
  <2>2. UNCHANGED tiles /\ job \in Keys
    BY <1>6 DEF Answer, ui, LInv, TypeOK
  <2> DEFINE result == [key |-> job, entry |-> entry]
  <2>3. result \in Answer_ /\ result.key = job /\ result.entry = entry
    BY <2>2, ContentAssumption DEF Answer_, Answers
  <2>4. \A i \in DOMAIN results' :
           \/ i \in DOMAIN results /\ results'[i] = results[i]
           \/ results'[i] = result
    <3>1. results' = Append(results, result)
      BY <2>1
    <3> HIDE DEF result
    <3> QED
      BY <1>1, <2>3, <3>1
  <2> QED
    BY <2>2, <2>3, <2>4 DEF EntryInv, Answers
<1> QED
  BY <1>2, <1>3, <1>4, <1>5, <1>6
     DEF Next, Tick, Event, Loader, ReadHandshake, Drained, NoEvent, Move, Hover, Open, Take, vars, ui

\* A visible tile is drawn exactly if something of its chain is loaded.
DrawnIsLoaded ==
    \A key \in visible_tiles :
        key \in Drawn <=> \E k \in Chain(key) : HasEntry(k, "loaded")

LEMMA DrawnFacts == TypeOK => DrawnIsLoaded
<1> SUFFICES ASSUME TypeOK, NEW key \in visible_tiles
             PROVE  key \in Drawn <=> \E k \in Chain(key) : HasEntry(k, "loaded")
  BY DEF DrawnIsLoaded
<1>1. effective_tile_key(key) # NoTile => \E k \in Chain(key) : HasEntry(k, "loaded")
  BY DEF effective_tile_key
<1>2. ASSUME NEW k \in Chain(key), HasEntry(k, "loaded")
      PROVE  effective_tile_key(key) # NoTile
  <2> DEFINE loaded == {j \in Chain(key) : HasEntry(j, "loaded")}
  <2>1. loaded # {} /\ loaded \subseteq Chain(key) /\ key[1] \in Nat /\ Chain(key) \subseteq Keys
    BY <1>2, VisibleFacts
  <2>2. effective_tile_key(key) = CHOOSE d \in loaded : \A j \in loaded : j[1] <= d[1]
    BY <2>1, Zenon DEF effective_tile_key
  <2>3. effective_tile_key(key) \in loaded
    <3> HIDE DEF loaded
    <3> QED BY <2>1, <2>2, DeepestOfChain
  <2> QED
    BY <2>1, <2>3, ContentAssumption
<1> QED
  BY <1>1, <1>2 DEF Drawn

LEMMA DrawnFactsNext == TypeOK' => DrawnIsLoaded'
  BY DrawnFacts, PTL

\* What a visible tile is drawn from is never pruned.
LEMMA VisibleIsKept ==
  ASSUME TypeOK, NEW key \in visible_tiles
  PROVE  Chain(key) \subseteq keep_tile_keys
<1> DEFINE Near(v) == {x \in 0..(2 ^ v.z - 1) :
                         \E k \in VisibleOf[v] : x \in (k[2] - 1)..(k[2] + 1)}
<1>1. view \in Views /\ key \in VisibleOf[view]
  BY DEF TypeOK, visible_tiles
<1>2. PICK x \in view.first..view.last : key = <<view.z, x>>
  BY <1>1 DEF VisibleOf
<1>3. view.z \in Nat /\ view.first \in Nat /\ view.last \in 0..(2 ^ view.z - 1)
  BY <1>1, LoaderAssumption
<1>4. x \in 0..(2 ^ view.z - 1)
  BY <1>2, <1>3
<1>5. x \in (key[2] - 1)..(key[2] + 1)
  BY <1>2, <1>3
<1>6. x \in Near(view)
  BY <1>1, <1>4, <1>5
<1>7. keep_tile_keys = UNION {Chain(<<view.z, y>>) : y \in Near(view)}
  BY <1>1 DEF keep_tile_keys, KeptOf
<1> QED
  <2> HIDE DEF Near
  <2> QED BY <1>2, <1>6, <1>7

\* A step after which every loaded tile that matters is loaded still.
LEMMA DrawnKept ==
  ASSUME TypeOK, TypeOK', UNCHANGED view,
         \A key \in visible_tiles : \A k \in Chain(key) :
            HasEntry(k, "loaded") => HasEntry(k, "loaded")'
  PROVE  Drawn \subseteq Drawn'
<1> SUFFICES ASSUME NEW key \in Drawn PROVE key \in Drawn'
  OBVIOUS
<1>1. key \in visible_tiles /\ key \in visible_tiles'
  BY DEF Drawn, visible_tiles
<1>2. \E k \in Chain(key) : HasEntry(k, "loaded")'
  BY <1>1, DrawnFacts DEF DrawnIsLoaded
<1>3. key \in Drawn' <=> \E k \in Chain(key) : HasEntry(k, "loaded")'
  BY <1>1, DrawnFactsNext DEF DrawnIsLoaded
<1> QED
  BY <1>2, <1>3

LEMMA DrawnStep ==
  ASSUME LInv, EntryInv, LInv', [Next]_vars, UNCHANGED view,
         ~(results # <<>> /\ Head(results).entry = "error" /\ results' = Tail(results))
  PROVE  Drawn \subseteq Drawn'
<1> USE DEF LInv
<1>1. results \in Seq(Answer_)
  BY DEF TypeOK, Answer_
<1>2. SUFFICES ASSUME NEW key \in visible_tiles, NEW k \in Chain(key), HasEntry(k, "loaded")
               PROVE  HasEntry(k, "loaded")'
  BY DrawnKept
<1>3. k \in DOMAIN tiles /\ tiles[k] = "loaded" /\ k \in Keys
  BY <1>2, VisibleFacts DEF HasEntry
<1>4. CASE UNCHANGED tiles
  BY <1>3, <1>4 DEF HasEntry
<1>5. CASE ApplyResult
  <2> DEFINE result == Head(results)
  <2>1. /\ results # <<>> /\ tiles' = With(result.key, result.entry) /\ results' = Tail(results)
    BY <1>5 DEF ApplyResult
  <2>2. result.entry # "error"
    BY <2>1
  <2>3. result \in Answer_ /\ result = results[1] /\ 1 \in DOMAIN results
    <3>1. result \in Answer_
      BY <1>1, <2>1, TakenFrom
    <3> QED
      BY <1>1, <2>1, <3>1
  <2>4. result.key = k => result.entry = "loaded"
    <3>1. Content[k] = "tile" /\ result.entry \in Answers(result.key)
      BY <1>3, <2>3 DEF EntryInv
    <3> QED
      BY <1>3, <2>2, <3>1, AnswersFacts
  <2> HIDE DEF result
  <2> QED
    BY <1>3, <2>1, <2>4 DEF With, HasEntry
<1>6. CASE RequestTile
  <2>1. NextRequest \notin DOMAIN tiles
    BY <1>6, NextRequestFacts DEF RequestTile
  <2>2. \E entry : tiles' = With(NextRequest, entry)
    BY <1>6 DEF RequestTile
  <2> QED
    BY <1>3, <2>1, <2>2 DEF With, HasEntry
<1>7. CASE Prune
  <2>1. k \in keep_tile_keys
    BY <1>2, VisibleIsKept
  <2> DEFINE stale == IF memory_estimate <= CacheBytes THEN {} ELSE DOMAIN tiles \ keep_tile_keys
  <2>2. tiles' = [j \in DOMAIN tiles \ stale |-> tiles[j]] /\ k \notin stale
    BY <1>7, <2>1 DEF Prune
  <2> HIDE DEF stale
  <2> QED
    BY <1>3, <2>2 DEF HasEntry
<1> QED
  BY <1>4, <1>5, <1>6, <1>7
     DEF Next, Tick, Event, Loader, ReadHandshake, Drained, NoEvent, Move, Hover, Open, Take,
         Answer, vars, ui

\* While the view stays, a tile that could be drawn still can be after any step but
\* a failed query's answer: pruning keeps what visible tiles are drawn from, and an
\* answer that comes late or twice says the same again (mbt.rs:424, 496, 648).
THEOREM DrawnCorrect == Spec => StaysDrawn
<1>1. LInv /\ EntryInv /\ LInv' /\ [Next]_vars =>
         [\/ view' # view
          \/ results # <<>> /\ Head(results).entry = "error" /\ results' = Tail(results)
          \/ Drawn \subseteq Drawn']_vars
  BY DrawnStep
<1>2. Spec => []EntryInv
  BY EntryInvInit, EntryInvStep, LInvAlways, PTL DEF Spec
<1> QED
  BY <1>1, <1>2, LInvAlways, PTL DEF Spec, StaysDrawn
=============================================================================
