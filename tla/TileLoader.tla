----------------------------- MODULE TileLoader -----------------------------
(***************************************************************************)
(* The tile cache of the viewer's MBTiles map and the thread that fills it *)
(* (rust/mlt/src/ui/mbt.rs, driven by tick in rust/mlt/src/ui/mod.rs).     *)
(*                                                                         *)
(* Each turn of the UI loop reads the loader's handshake, applies the      *)
(* answers that have arrived, requests what the view shows with all its    *)
(* ancestors, and prunes the cache.  The UI thread never waits: a full     *)
(* request channel is an error entry.  The loader answers in order, and    *)
(* waits for room in the result channel.  An evicted tile may still be     *)
(* under way, may be requested again, and is answered twice.               *)
(*                                                                         *)
(* A key is <<z, x>>: the code treats y as it treats x, and it is left     *)
(* out.  A view is the zoom level and the columns it shows.                *)
(***************************************************************************)
EXTENDS Naturals, Sequences, FiniteSets

CONSTANTS Views,        \* views the user visits: [z, first, last], maybe empty
          Content,      \* Content[key]: what the database holds, "tile", "empty"
                        \* or "bad" (it does not decode)
          NoTile,       \* no tile: nothing hovered, nothing to draw
          RequestCap, ResultCap,  \* capacities of the channels, 200 in the code
          CacheBytes, LoadedBytes, EntryBytes,   \* the memory budget and estimates
          Faults        \* "open": the database does not open or the thread dies;
                        \* "query": a query fails, now and then

ASSUME LoaderAssumption ==
    /\ RequestCap \in Nat \ {0} /\ ResultCap \in Nat \ {0}
    /\ CacheBytes \in Nat /\ LoadedBytes \in Nat /\ EntryBytes \in Nat
    /\ Faults \subseteq {"open", "query"}
    /\ \A view \in Views : view.z \in Nat /\ view.first \in Nat /\ view.last \in 0..(2 ^ view.z - 1)

Keys == DOMAIN Content

VARIABLES view,      \* the viewport: zoom_level and the visible columns
          tiles,     \* the cache, a function of the keys it holds
          loading,   \* keys with a request under way
          hovered,   \* the tile of the hovered feature
          phase,     \* where the UI thread is in its loop
          init,      \* the handshake: "waiting", "sent", "failed", "dropped", "read"
          fatal,     \* loader_fatal has been handed to the error popup
          requests, results,   \* the two channels
          loader,    \* "opening", "open", "stopped"
          job        \* the key it works on

ui == <<view, tiles, loading, hovered, phase, fatal>>
vars == <<ui, init, requests, results, loader, job>>

Init ==
    /\ view \in Views
    /\ tiles = <<>> /\ loading = {} /\ hovered = NoTile
    /\ phase = "init" /\ init = "waiting" /\ fatal = FALSE
    /\ requests = <<>> /\ results = <<>> /\ loader = "opening" /\ job = NoTile

-----------------------------------------------------------------------------
(* The tiles of a view.                                                     *)

Ancestor(key, k) == <<key[1] - k, key[2] \div 2 ^ k>>

Chain(key) == {Ancestor(key, k) : k \in 0..key[1]}

\* Per view, constants of the model: TLC computes them once.
VisibleOf == [v \in Views |-> {<<v.z, x>> : x \in v.first..v.last}]

KeptOf ==
    LET Near(v) == {x \in 0..(2 ^ v.z - 1) :
                       \E key \in VisibleOf[v] : x \in (key[2] - 1)..(key[2] + 1)}
    IN [v \in Views |-> UNION {Chain(<<v.z, x>>) : x \in Near(v)}]

\* Content says what every tile is that a view reaches.
ASSUME ContentAssumption ==
    /\ NoTile \notin Keys
    /\ \A key \in Keys : Content[key] \in {"tile", "empty", "bad"}
    /\ \A v \in Views : \A key \in VisibleOf[v] : Chain(key) \subseteq Keys

visible_tiles == VisibleOf[view]

\* The visible tiles, a margin of one tile, and all their ancestors.
keep_tile_keys == KeptOf[view]

HasEntry(key, entry) == key \in DOMAIN tiles /\ tiles[key] = entry

\* The tile itself if loaded, else the closest loaded ancestor.
effective_tile_key(key) ==
    LET loaded == {k \in Chain(key) : HasEntry(k, "loaded")}
    IN IF loaded = {} THEN NoTile ELSE CHOOSE k \in loaded : \A j \in loaded : j[1] <= k[1]

Drawn == {key \in visible_tiles : effective_tile_key(key) # NoTile}

memory_estimate ==
    EntryBytes * Cardinality({key \in DOMAIN tiles : tiles[key] # "loaded"})
  + LoadedBytes * Cardinality({key \in DOMAIN tiles : tiles[key] = "loaded"})

With(key, entry) ==
    [k \in DOMAIN tiles \cup {key} |-> IF k = key THEN entry ELSE tiles[k]]

-----------------------------------------------------------------------------
(* The UI thread: tick, then at most one event.                             *)

\* Mutant: a dropped handshake channel is taken for one not answered yet.
ReadHandshakeIgnoresDrop ==
    /\ phase = "init"
    /\ init' = IF init \in {"sent", "failed"} THEN "read" ELSE init
    /\ fatal' = (fatal \/ init = "failed")
    /\ phase' = "drain"
    /\ UNCHANGED <<view, tiles, loading, hovered, requests, results, loader, job>>

\* process_results, first part, and take_loader_fatal.
ReadHandshake ==
    /\ phase = "init"
    /\ init' = IF init = "waiting" THEN init ELSE "read"
    /\ fatal' = (fatal \/ init \in {"failed", "dropped"})
    /\ phase' = "drain"
    /\ UNCHANGED <<view, tiles, loading, hovered, requests, results, loader, job>>

\* apply_result, for the next answer: also for a tile evicted since.
ApplyResult ==
    /\ phase = "drain"
    /\ results # <<>>
    /\ LET result == Head(results) IN
       /\ loading' = loading \ {result.key}
       /\ tiles' = With(result.key, result.entry)
    /\ results' = Tail(results)
    /\ UNCHANGED <<view, hovered, phase, fatal, init, requests, loader, job>>

Drained ==
    /\ phase = "drain"
    /\ results = <<>>
    /\ phase' = "request"
    /\ UNCHANGED <<view, tiles, loading, hovered, fatal, init, requests, results, loader, job>>

\* Keys of the visible tiles' chains that request_tile does not skip.
ToRequest(key) == {k \in Chain(key) : k \notin DOMAIN tiles /\ k \notin loading}

\* request_tile_with_ancestors for one tile after another, from the tile up.
NextRequest ==
    LET tile == CHOOSE key \in visible_tiles :
                   /\ ToRequest(key) # {}
                   /\ \A other \in visible_tiles :
                         other[2] < key[2] => ToRequest(other) = {}
    IN CHOOSE key \in ToRequest(tile) : \A k \in ToRequest(tile) : k[1] <= key[1]

AllRequested == \A key \in visible_tiles : ToRequest(key) = {}

\* Mutant: a request that was not queued stays marked as under way.
RequestKeepsLoading ==
    /\ phase = "request"
    /\ ~AllRequested
    /\ LET key == NextRequest IN
       /\ tiles' = With(key, "loading")
       /\ loading' = loading \cup {key}
       /\ requests' = IF Len(requests) < RequestCap /\ loader # "stopped"
                      THEN Append(requests, key) ELSE requests
    /\ UNCHANGED <<view, hovered, phase, fatal, init, results, loader, job>>

\* request_tile: try_send fails when the channel is full or the loader is gone.
RequestTile ==
    /\ phase = "request"
    /\ ~AllRequested
    /\ LET key == NextRequest IN
       \/ /\ Len(requests) < RequestCap /\ loader # "stopped"
          /\ tiles' = With(key, "loading")
          /\ loading' = loading \cup {key}
          /\ requests' = Append(requests, key)
       \/ /\ Len(requests) = RequestCap \/ loader = "stopped"
          /\ tiles' = With(key, "error")
          /\ UNCHANGED <<loading, requests>>
    /\ UNCHANGED <<view, hovered, phase, fatal, init, results, loader, job>>

\* Mutant: pruning forgets what is hovered, and what is under way.
PruneTilesOnly ==
    /\ phase = "request"
    /\ AllRequested
    /\ LET stale == IF memory_estimate <= CacheBytes THEN {}
                    ELSE DOMAIN tiles \ keep_tile_keys
       IN tiles' = [key \in DOMAIN tiles \ stale |-> tiles[key]]
    /\ phase' = "event"
    /\ UNCHANGED <<view, loading, hovered, fatal, init, requests, results, loader, job>>

\* Mutant: only the visible tiles are kept, not their ancestors.
PruneAncestors ==
    /\ phase = "request"
    /\ AllRequested
    /\ LET stale == IF memory_estimate <= CacheBytes THEN {}
                    ELSE DOMAIN tiles \ visible_tiles
       IN /\ tiles' = [key \in DOMAIN tiles \ stale |-> tiles[key]]
          /\ loading' = loading \ stale
          /\ hovered' = IF hovered \in stale THEN NoTile ELSE hovered
    /\ phase' = "event"
    /\ UNCHANGED <<view, fatal, init, requests, results, loader, job>>

\* prune_tile_cache_if_needed, after every visible tile was requested.
Prune ==
    /\ phase = "request"
    /\ AllRequested
    /\ LET stale == IF memory_estimate <= CacheBytes THEN {}
                    ELSE DOMAIN tiles \ keep_tile_keys
       IN /\ tiles' = [key \in DOMAIN tiles \ stale |-> tiles[key]]
          /\ loading' = loading \ stale
          /\ hovered' = IF hovered \in stale THEN NoTile ELSE hovered
    /\ phase' = "event"
    /\ UNCHANGED <<view, fatal, init, requests, results, loader, job>>

\* No event within the poll's timeout, or one that does not concern the map.
NoEvent ==
    /\ phase = "event"
    /\ phase' = "init"
    /\ UNCHANGED <<view, tiles, loading, hovered, fatal, init, requests, results, loader, job>>

\* zoom_wheel_at, half a level at a time, and pan_by_pixels, any distance.
Move ==
    /\ phase = "event"
    /\ \E v \in Views \ {view} :
          /\ v.z \in {view.z, view.z + 1} \/ v.z + 1 = view.z
          /\ view' = v
    /\ phase' = "init"
    /\ UNCHANGED <<tiles, loading, hovered, fatal, init, requests, results, loader, job>>

\* find_hovered: a feature of a tile that is drawn, or none near the pointer.
Hover ==
    /\ phase = "event"
    /\ hovered' \in {NoTile} \cup {effective_tile_key(key) : key \in visible_tiles}
    /\ phase' = "init"
    /\ UNCHANGED <<view, tiles, loading, fatal, init, requests, results, loader, job>>

Tick == ReadHandshake \/ ApplyResult \/ Drained \/ RequestTile \/ Prune

Event == NoEvent \/ Move \/ Hover

-----------------------------------------------------------------------------
(* The loader thread.                                                       *)

\* Opening the database: it sends Ok or Err, or panics and drops the channel.
Open ==
    /\ loader = "opening"
    /\ \/ init' = "sent" /\ loader' = "open"
       \/ /\ "open" \in Faults
          /\ init' \in {"failed", "dropped"} /\ loader' = "stopped"
    /\ UNCHANGED <<ui, requests, results, job>>

Take ==
    /\ loader = "open" /\ job = NoTile
    /\ requests # <<>>
    /\ job' = Head(requests)
    /\ requests' = Tail(requests)
    /\ UNCHANGED <<ui, init, results, loader>>

\* What apply_result makes of an answer: decoding depends on the bytes alone.
Answers(key) ==
    {CASE Content[key] = "tile" -> "loaded"
       [] Content[key] = "empty" -> "empty"
       [] Content[key] = "bad" -> "error"}
    \cup (IF "query" \in Faults THEN {"error"} ELSE {})

\* Mutant: the answer is dropped when the result channel is full.
AnswerDrops ==
    /\ job # NoTile
    /\ \E entry \in Answers(job) :
          results' = IF Len(results) < ResultCap
                     THEN Append(results, [key |-> job, entry |-> entry])
                     ELSE results
    /\ job' = NoTile
    /\ UNCHANGED <<ui, init, requests, loader>>

\* Mutant: the loader does not wait for room.
AnswerUnbounded ==
    /\ job # NoTile
    /\ \E entry \in Answers(job) :
          results' = Append(results, [key |-> job, entry |-> entry])
    /\ job' = NoTile
    /\ UNCHANGED <<ui, init, requests, loader>>

\* get_tile and the blocking send of its result.
Answer ==
    /\ job # NoTile
    /\ Len(results) < ResultCap
    /\ \E entry \in Answers(job) :
          results' = Append(results, [key |-> job, entry |-> entry])
    /\ job' = NoTile
    /\ UNCHANGED <<ui, init, requests, loader>>

Loader == Open \/ Take \/ Answer

Next == Tick \/ Event \/ Loader

Spec == Init /\ [][Next]_vars

\* The UI loop polls with a timeout and never waits on the loader; the loader is
\* a thread of its own, and a query returns.
FairSpec == Spec /\ WF_vars(Tick \/ Event) /\ WF_vars(Loader)

-----------------------------------------------------------------------------
(* Properties.                                                              *)

TypeOK ==
    /\ view \in Views
    /\ DOMAIN tiles \subseteq Keys
    /\ \A key \in DOMAIN tiles : tiles[key] \in {"loading", "empty", "error", "loaded"}
    /\ loading \subseteq Keys
    /\ hovered \in Keys \cup {NoTile}
    /\ phase \in {"init", "drain", "request", "event"}
    /\ init \in {"waiting", "sent", "failed", "dropped", "read"}
    /\ fatal \in BOOLEAN
    /\ requests \in Seq(Keys) /\ Len(requests) <= RequestCap
    /\ results \in Seq([key : Keys, entry : {"empty", "error", "loaded"}]) /\ Len(results) <= ResultCap
    /\ loader \in {"opening", "open", "stopped"}
    /\ job \in Keys \cup {NoTile}

UnderWay(key) ==
    \/ \E i \in DOMAIN requests : requests[i] = key
    \/ \E i \in DOMAIN results : results[i].key = key
    \/ job = key

\* A tile shown as loading is on its way unless the loader is gone, and the set
\* of loading keys and the entries of the cache agree, through evictions, second
\* requests and answers to tiles evicted meanwhile (mbt.rs:402, 496, 648).
LoadingIsUnderWay ==
    /\ loading = {key \in DOMAIN tiles : tiles[key] = "loading"}
    /\ loader # "stopped" => \A key \in loading : UnderWay(key)

\* The hovered feature is never one of a tile the cache has dropped (mbt.rs:664).
HoveredIsCached == hovered # NoTile => hovered \in DOMAIN tiles

\* While the view stays, a visible tile that could be drawn, from its own data or
\* an ancestor's, still can be after any step but a failed query's answer: neither
\* pruning nor a late or second answer leaves a hole (mbt.rs:424, 648).
StaysDrawn ==
    [][\/ view' # view
       \/ results # <<>> /\ Head(results).entry = "error" /\ results' = Tail(results)
       \/ Drawn \subseteq Drawn']_vars

\* A tile the user keeps looking at is answered, as data or as an error, unless
\* the loader could not start.
VisibleSettles ==
    \A key \in Keys :
        key \in visible_tiles ~>
            \/ key \notin visible_tiles
            \/ key \in DOMAIN tiles /\ tiles[key] # "loading"
            \/ loader = "stopped"

\* A loader that stops is reported to the user, whichever way it stopped
\* ("surfaced to the UI once", mbt.rs:226).
StopIsReported == loader = "stopped" ~> fatal
=============================================================================
