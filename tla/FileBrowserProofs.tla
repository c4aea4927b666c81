------------------------- MODULE FileBrowserProofs -------------------------
(***************************************************************************)
(* The safety of FileBrowser for every directory, whatever its files are,    *)
(* and every order in which results come.  See README.md for the argument.   *)
(***************************************************************************)
EXTENDS FileBrowser, TLAPS, WellFoundedInduction, FiniteSetTheorems

-----------------------------------------------------------------------------
(* What is inductive.                                                       *)

Row == [path : Paths, row : {"Loading", "Info", "Error"}]

Loading(rows) == {i \in DOMAIN rows : rows[i].row = "Loading"}

Events == {Found(k) : k \in DOMAIN Walk} \cup {Analyzed(k) : k \in DOMAIN Walk} \cup {Done}

\* What poll_scan changes by applying events.
ListState == [files : Seq(Row), pending : Nat, done : BOOLEAN]

ListTypes ==
    /\ files \in Seq(Row) /\ pending_analysis \in Nat
    /\ scan_done \in BOOLEAN /\ data_loaded \in BOOLEAN

ChoiceTypes ==
    /\ filtered_file_indices \in Seq(DOMAIN files)
    /\ selected_file_index \in 1..LastRow

File == Paths \cup {NoFile}
Shown == [path : File, preview : File, error : BOOLEAN, requested : File]
Panel == [rx : [file : File, sent : BOOLEAN], shown : Shown]

ViewTypes ==
    /\ error_popup \in BOOLEAN
    /\ file_sort \in {<<>>} \cup (Columns \X BOOLEAN)
    /\ mode \in {"FileBrowser", "LayerOverview"} /\ phase \in {"tick", "event"}
    /\ panel \in Panel /\ (panel.rx.sent => panel.rx.file # NoFile)
    /\ opened \subseteq {f \in Paths : Content[f].opens}

ScanTypes ==
    /\ walked \in 0..(Len(Walk) + 1)
    /\ analyzing \subseteq DOMAIN Walk
    /\ \A k \in analyzing : k <= walked
    /\ channel \in Seq(Events)

\* An event is sent once, files are found in the order of the walk and before they
\* are analyzed, and the end of the walk is reported behind the last one.
InOrder ==
    \A d, e \in DOMAIN channel :
        /\ channel[d] = channel[e] => d = e
        /\ channel[d].kind = "Found" =>
             /\ channel[e].kind = "Found" /\ channel[d].pos < channel[e].pos => d < e
             /\ channel[e].kind = "Analyzed" /\ channel[d].pos = channel[e].pos => d < e
             /\ channel[e].kind = "Done" => d < e

\* The event is in the channel behind the first n.
Awaited(event, n) == \E d \in DOMAIN channel : n < d /\ channel[d] = event

AnalyzedIn(rows, k) == k \in DOMAIN rows /\ rows[k].row # "Loading"

\* A list to which the first n events of the channel have been applied: its rows are
\* the first files of the walk, and the events behind n are what it lacks.
Agrees(state, n) ==
    /\ state \in ListState
    /\ \A i \in DOMAIN state.files :
          /\ state.files[i].path = Walk[i]
          /\ state.files[i].row \in {"Loading", Content[Walk[i]].row}
    /\ Len(state.files) <= walked /\ Len(state.files) <= Len(Walk)
    /\ \A k \in DOMAIN Walk :
          /\ Awaited(Found(k), n) <=> Len(state.files) < k /\ k <= walked
          /\ Awaited(Analyzed(k), n) <=>
               k <= walked /\ k \notin analyzing /\ ~AnalyzedIn(state.files, k)
          /\ AnalyzedIn(state.files, k) => k \notin analyzing
    /\ Awaited(Done, n) <=> walked > Len(Walk) /\ ~state.done
    /\ state.done => walked > Len(Walk)
    /\ state.pending = Cardinality(Loading(state.files))

Listed == [files |-> files, pending |-> pending_analysis, done |-> scan_done]

Scanning == InOrder /\ Agrees(Listed, 0)

\* The scan is over: every file of the directory has a row, in any order.
Settled ==
    /\ walked > Len(Walk) /\ analyzing = {} /\ channel = <<>>
    /\ scan_done /\ pending_analysis = 0
    /\ Len(files) = Len(Walk)
    /\ \A i \in DOMAIN files : files[i].row = Content[files[i].path].row
    /\ \A i, j \in DOMAIN files : files[i].path = files[j].path => i = j
    /\ \A k \in DOMAIN Walk : \E i \in DOMAIN files : files[i].path = Walk[k]

ScanState == IF data_loaded THEN Settled ELSE Scanning

BInv ==
    /\ ListTypes /\ ChoiceTypes /\ ViewTypes /\ ScanTypes
    /\ FilteredIsCurrent /\ ScanState

-----------------------------------------------------------------------------
(* Induction over the numbers, as a fact about sets.                        *)

LEMMA Least ==
  ASSUME NEW S \in SUBSET Nat, S # {}
  PROVE  \E n \in S : \A m \in S : n <= m
<1>1. PICK n \in S : \A m \in S : <<m, n>> \notin OpToRel(<, Nat)
  BY NatLessThanWellFounded, WFMin
<1>2. \A m \in S : ~(m < n)
  BY <1>1 DEF OpToRel
<1> QED
  BY <1>2

LEMMA Induction ==
  ASSUME NEW S, 0 \in S, \A n \in Nat : n \in S => n + 1 \in S
  PROVE  Nat \subseteq S
<1>1. SUFFICES ASSUME Nat \ S # {} PROVE FALSE
  OBVIOUS
<1>2. PICK n \in Nat \ S : \A m \in Nat \ S : n <= m
  BY <1>1, Least
<1>3. n - 1 \in Nat /\ ~(n <= n - 1) /\ n = (n - 1) + 1
  OBVIOUS
<1>4. n - 1 \in S
  BY <1>2, <1>3
<1> QED
  BY <1>3, <1>4

LEMMA ElementOf ==
  ASSUME NEW S, NEW s \in Seq(S)
  PROVE  /\ Len(s) \in Nat /\ DOMAIN s = 1..Len(s)
         /\ \A i \in 1..Len(s) : s[i] \in S
  OBVIOUS

LEMMA MadeSeq ==
  ASSUME NEW S, NEW n \in Nat, NEW f \in [1..n -> S]
  PROVE  f \in Seq(S) /\ Len(f) = n
  OBVIOUS

LEMMA Appended ==
  ASSUME NEW S, NEW s \in Seq(S), NEW x \in S
  PROVE  /\ Append(s, x) \in Seq(S) /\ Len(Append(s, x)) = Len(s) + 1
         /\ DOMAIN Append(s, x) = 1..(Len(s) + 1)
         /\ \A i \in 1..Len(s) : Append(s, x)[i] = s[i]
         /\ Append(s, x)[Len(s) + 1] = x
  OBVIOUS

-----------------------------------------------------------------------------
(* The list that the filters select.                                        *)

KeptUpTo(kept, rows, n) ==
    kept = [m \in 0..n |->
              IF m = 0 THEN <<>>
              ELSE IF Passes(rows[m]) THEN Append(kept[m - 1], m) ELSE kept[m - 1]]

\* The recursion of Matching has a solution.
LEMMA KeptExists ==
  ASSUME NEW rows
  PROVE  \A n \in Nat : \E kept : KeptUpTo(kept, rows, n)
<1> DEFINE S == {n \in Nat : \E kept : KeptUpTo(kept, rows, n)}
<1>1. 0 \in S
  <2>1. KeptUpTo([m \in 0..0 |-> <<>>], rows, 0)
    BY DEF KeptUpTo
  <2> QED
    BY <2>1
<1>2. ASSUME NEW n \in Nat, n \in S
      PROVE  n + 1 \in S
  <2>1. PICK g : KeptUpTo(g, rows, n)
    BY <1>2
  <2> DEFINE h == [m \in 0..(n + 1) |->
                     IF m = n + 1
                     THEN IF Passes(rows[n + 1]) THEN Append(g[n], n + 1) ELSE g[n]
                     ELSE g[m]]
  <2>2. ASSUME NEW m \in 0..(n + 1)
        PROVE  h[m] = IF m = 0 THEN <<>>
                      ELSE IF Passes(rows[m]) THEN Append(h[m - 1], m) ELSE h[m - 1]
    <3>1. CASE m = n + 1
      <4>1. h[m] = IF Passes(rows[n + 1]) THEN Append(g[n], n + 1) ELSE g[n]
        BY <3>1
      <4>2. m # 0 /\ h[m - 1] = g[n]
        BY <3>1
      <4> QED
        BY <3>1, <4>1, <4>2
    <3>2. CASE m # n + 1
      <4>1. m \in 0..n /\ h[m] = g[m] /\ (m # 0 => m - 1 \in 0..n /\ h[m - 1] = g[m - 1])
        BY <3>2
      <4>2. g[m] = IF m = 0 THEN <<>>
                   ELSE IF Passes(rows[m]) THEN Append(g[m - 1], m) ELSE g[m - 1]
        BY <2>1, <4>1 DEF KeptUpTo
      <4> QED
        BY <4>1, <4>2
    <3> QED
      BY <3>1, <3>2
  <2>3. KeptUpTo(h, rows, n + 1)
    BY <2>2 DEF KeptUpTo
  <2> QED
    BY <2>3
<1> HIDE DEF S
<1>3. Nat \subseteq S
  BY <1>1, <1>2, Induction
<1> QED
  BY <1>3 DEF S

\* What Matching selects are rows, and all of them when there is no filter.
ListFacts ==
    /\ Matching(files) \in Seq(DOMAIN files)
    /\ ~has_filters => /\ Len(Matching(files)) = Len(files)
                       /\ \A i \in 1..Len(files) : Matching(files)[i] = i

MatchingFacts == files \in Seq(Row) => ListFacts

LEMMA MatchingSelects == MatchingFacts
<1> SUFFICES ASSUME files \in Seq(Row) PROVE ListFacts
  BY DEF MatchingFacts
<1>1. PICK N : N = Len(files) /\ N \in Nat /\ DOMAIN files = 1..N
  BY ElementOf
<1> DEFINE kept == CHOOSE kept : KeptUpTo(kept, files, Len(files))
<1>2. Matching(files) = kept[N]
  BY <1>1 DEF Matching, KeptUpTo
<1>3. KeptUpTo(kept, files, Len(files))
  <2>1. \E g : KeptUpTo(g, files, Len(files))
    BY <1>1, KeptExists
  <2> QED
    BY <2>1
<1> HIDE DEF kept
<1>4. kept[0] = <<>>
  BY <1>1, <1>3 DEF KeptUpTo
<1>5. ASSUME NEW n \in Nat, n + 1 <= N
      PROVE  kept[n + 1] = IF Passes(files[n + 1]) THEN Append(kept[n], n + 1) ELSE kept[n]
  <2>1. \A m \in 0..N : kept[m] = IF m = 0 THEN <<>>
                          ELSE IF Passes(files[m]) THEN Append(kept[m - 1], m) ELSE kept[m - 1]
    BY <1>1, <1>3 DEF KeptUpTo
  <2>2. n + 1 \in 0..N /\ n + 1 # 0 /\ (n + 1) - 1 = n
    BY <1>1, <1>5
  <2> QED
    BY <2>1, <2>2
<1> DEFINE All(n) == Len(kept[n]) = n /\ \A i \in 1..n : kept[n][i] = i
           S == {n \in Nat : n <= N => kept[n] \in Seq(1..N) /\ (~has_filters => All(n))}
<1>6. 0 \in S
  <2>1. <<>> \in Seq(1..N) /\ Len(<<>>) = 0 /\ \A i \in 1..0 : <<>>[i] = i
    OBVIOUS
  <2> QED
    BY <1>4, <2>1
<1>7. ASSUME NEW n \in Nat, n \in S
      PROVE  n + 1 \in S
  <2> SUFFICES ASSUME n + 1 <= N
               PROVE  kept[n + 1] \in Seq(1..N) /\ (~has_filters => All(n + 1))
    OBVIOUS
  <2>1. kept[n] \in Seq(1..N) /\ (~has_filters => All(n)) /\ n + 1 \in 1..N
    BY <1>1, <1>7
  <2>2. kept[n + 1] = IF Passes(files[n + 1]) THEN Append(kept[n], n + 1) ELSE kept[n]
    BY <1>5
  <2>3. /\ Append(kept[n], n + 1) \in Seq(1..N)
        /\ ~has_filters => /\ Len(Append(kept[n], n + 1)) = n + 1
                           /\ \A i \in 1..(n + 1) : Append(kept[n], n + 1)[i] = i
    BY <2>1, Appended
  <2>4. ~has_filters => Passes(files[n + 1])
    BY DEF has_filters, Passes
  <2> QED
    BY <2>1, <2>2, <2>3, <2>4
<1> HIDE DEF S
<1>8. N \in S
  BY <1>1, <1>6, <1>7, Induction
<1> QED
  BY <1>1, <1>2, <1>8 DEF S, ListFacts

LEMMA MatchingSelectsNext == MatchingFacts'
  BY MatchingSelects, PTL

-----------------------------------------------------------------------------
(* The events of the scan, applied one after another.                       *)

AppliedUpTo(after, start, events, n) ==
    after = [m \in 0..n |->
               IF m = 0 THEN start ELSE apply_scan_event(after[m - 1], events[m])]

\* The recursion of Applied has a solution.
LEMMA AppliedExists ==
  ASSUME NEW start, NEW events
  PROVE  \A n \in Nat : \E after : AppliedUpTo(after, start, events, n)
<1> DEFINE S == {n \in Nat : \E after : AppliedUpTo(after, start, events, n)}
<1>1. 0 \in S
  <2>1. AppliedUpTo([m \in 0..0 |-> start], start, events, 0)
    BY DEF AppliedUpTo
  <2> QED
    BY <2>1
<1>2. ASSUME NEW n \in Nat, n \in S
      PROVE  n + 1 \in S
  <2>1. PICK g : AppliedUpTo(g, start, events, n)
    BY <1>2
  <2> DEFINE h == [m \in 0..(n + 1) |->
                     IF m = n + 1 THEN apply_scan_event(g[n], events[n + 1]) ELSE g[m]]
  <2>2. ASSUME NEW m \in 0..(n + 1)
        PROVE  h[m] = IF m = 0 THEN start ELSE apply_scan_event(h[m - 1], events[m])
    <3>1. CASE m = n + 1
      <4>1. h[m] = apply_scan_event(g[n], events[n + 1])
        BY <3>1
      <4>2. m # 0 /\ h[m - 1] = g[n]
        BY <3>1
      <4> QED
        BY <3>1, <4>1, <4>2
    <3>2. CASE m # n + 1
      <4>1. m \in 0..n /\ h[m] = g[m] /\ (m # 0 => m - 1 \in 0..n /\ h[m - 1] = g[m - 1])
        BY <3>2
      <4>2. g[m] = IF m = 0 THEN start ELSE apply_scan_event(g[m - 1], events[m])
        BY <2>1, <4>1 DEF AppliedUpTo
      <4> QED
        BY <4>1, <4>2
    <3> QED
      BY <3>1, <3>2
  <2>3. AppliedUpTo(h, start, events, n + 1)
    BY <2>2 DEF AppliedUpTo
  <2> QED
    BY <2>3
<1> HIDE DEF S
<1>3. Nat \subseteq S
  BY <1>1, <1>2, Induction
<1> QED
  BY <1>3 DEF S

LEMMA LoadingFinite ==
  ASSUME NEW rows \in Seq(Row)
  PROVE  IsFiniteSet(Loading(rows)) /\ Cardinality(Loading(rows)) \in 0..Len(rows)
<1>1. PICK n \in Nat : n = Len(rows) /\ DOMAIN rows = 1..n
  BY ElementOf
<1>2. IsFiniteSet(1..n) /\ Cardinality(1..n) = n
  BY FS_Interval
<1>3. Loading(rows) \in SUBSET (1..n)
  BY <1>1 DEF Loading
<1> QED
  BY <1>1, <1>2, <1>3, FS_Subset, FS_CardinalityType

LEMMA EventKinds ==
  /\ \A k \in DOMAIN Walk : /\ Found(k).kind = "Found" /\ Found(k).pos = k
                            /\ Analyzed(k).kind = "Analyzed" /\ Analyzed(k).pos = k
                            /\ Found(k) \in Events /\ Analyzed(k) \in Events
  /\ Done.kind = "Done" /\ Done \in Events
  /\ \A e \in Events : \/ \E k \in DOMAIN Walk : e = Found(k)
                       \/ \E k \in DOMAIN Walk : e = Analyzed(k)
                       \/ e = Done
  BY DEF Events, Found, Analyzed, Done

LEMMA WalkFacts ==
  /\ Len(Walk) \in Nat /\ DOMAIN Walk = 1..Len(Walk)
  /\ \A k \in 1..Len(Walk) : Walk[k] \in Paths /\ Content[Walk[k]].row \in {"Info", "Error"}
<1>1. Walk \in Seq(Paths) /\ \A f \in Paths : Content[f].row \in {"Info", "Error"}
  BY BrowserAssumption
<1> QED
  BY <1>1, ElementOf

LEMMA WalkDistinct ==
  \A j, k \in 1..Len(Walk) : Walk[j] = Walk[k] => j = k
  BY WalkFacts, BrowserAssumption

\* An event that is awaited no longer once the next is applied is the next.
LEMMA AwaitedNext ==
  ASSUME ScanTypes, InOrder, NEW n \in Nat, n + 1 \in DOMAIN channel, NEW event
  PROVE  Awaited(event, n + 1) <=> Awaited(event, n) /\ event # channel[n + 1]
<1>1. DOMAIN channel = 1..Len(channel) /\ Len(channel) \in Nat
  BY ElementOf DEF ScanTypes
<1>2. \A d \in DOMAIN channel : n + 1 < d <=> n < d /\ d # n + 1
  BY <1>1
<1>3. \A d \in DOMAIN channel : channel[d] = channel[n + 1] => d = n + 1
  BY DEF InOrder
<1> QED
  BY <1>1, <1>2, <1>3 DEF Awaited

\* A file found next is the next one of the walk.
LEMMA FoundStep ==
  ASSUME ScanTypes, InOrder, NEW n \in Nat, n + 1 \in DOMAIN channel, NEW state, Agrees(state, n),
         NEW k \in DOMAIN Walk, channel[n + 1] = Found(k)
  PROVE  Agrees(apply_scan_event(state, channel[n + 1]), n + 1)
<1>1. PICK rows, N : rows = state.files /\ N = Len(rows)
  OBVIOUS
<1>2. /\ state \in ListState /\ rows \in Seq(Row) /\ N \in Nat /\ DOMAIN rows = 1..N
      /\ N <= walked /\ N <= Len(Walk) /\ walked \in Nat
  BY <1>1, ElementOf DEF Agrees, ListState, ScanTypes
<1>3. k = N + 1 /\ k <= walked
  <2>1. Awaited(Found(k), n)
    BY EventKinds DEF Awaited
  <2>2. N < k /\ k <= walked
    BY <1>1, <2>1 DEF Agrees
  <2>3. N + 1 \in DOMAIN Walk /\ N + 1 <= walked
    BY <1>2, <2>2, WalkFacts
  <2>4. Awaited(Found(N + 1), n)
    BY <1>1, <1>2, <2>3 DEF Agrees
  <2>5. PICK d \in DOMAIN channel : n < d /\ channel[d] = Found(N + 1)
    BY <2>4 DEF Awaited
  <2>6. ~(N + 1 < k)
    <3> SUFFICES ASSUME N + 1 < k PROVE FALSE
      OBVIOUS
    <3>1. d < n + 1
      BY <2>3, <2>5, EventKinds DEF InOrder
    <3>2. d \in Nat
      BY ElementOf DEF ScanTypes
    <3> QED
      BY <2>5, <3>1, <3>2
  <2> QED
    BY <1>2, <2>2, <2>6, WalkFacts
<1> DEFINE found == [path |-> Walk[k], row |-> "Loading"]
           more == Append(rows, found)
           next == apply_scan_event(state, channel[n + 1])
<1>4. next = [state EXCEPT !.files = more, !.pending = @ + 1]
  <2>1. channel[n + 1].kind = "Found" /\ channel[n + 1].pos = k
    BY EventKinds
  <2> QED
    BY <1>1, <2>1 DEF apply_scan_event
<1>5. /\ more \in Seq(Row) /\ Len(more) = N + 1 /\ DOMAIN more = 1..(N + 1)
      /\ \A i \in 1..N : more[i] = rows[i]
      /\ more[N + 1] = found
  <2>1. found \in Row
    BY WalkFacts DEF Row
  <2> QED
    BY <1>2, <2>1, Appended
<1> HIDE DEF found, more, next
<1>6. /\ next \in ListState /\ next.files = more /\ next.done = state.done
      /\ next.pending = state.pending + 1
  <2>1. PICK pending \in Nat : pending = state.pending + 1
    BY <1>2 DEF ListState
  <2>2. next = [state EXCEPT !.files = more, !.pending = pending]
    BY <1>4, <2>1
  <2> QED
    BY <1>2, <1>5, <2>1, <2>2 DEF ListState
<1>7. next.pending = Cardinality(Loading(more))
  <2>1. Loading(more) = Loading(rows) \cup {N + 1}
    BY <1>2, <1>5 DEF Loading, found
  <2>2. N + 1 \notin Loading(rows)
    BY <1>2 DEF Loading
  <2>3. Cardinality(Loading(more)) = Cardinality(Loading(rows)) + 1
    BY <1>2, <2>1, <2>2, LoadingFinite, FS_AddElement
  <2> QED
    BY <1>1, <1>6, <2>3 DEF Agrees
<1>8. \A j \in DOMAIN Walk : AnalyzedIn(more, j) <=> AnalyzedIn(rows, j)
  BY <1>2, <1>5 DEF AnalyzedIn, found
<1>9. \A i \in DOMAIN more : more[i].path = Walk[i] /\ more[i].row \in {"Loading", Content[Walk[i]].row}
  <2>1. \A i \in DOMAIN rows : rows[i].path = Walk[i] /\ rows[i].row \in {"Loading", Content[Walk[i]].row}
    BY <1>1 DEF Agrees
  <2>2. more[N + 1].path = Walk[N + 1] /\ more[N + 1].row = "Loading"
    BY <1>3, <1>5 DEF found
  <2>3. \A i \in DOMAIN more : i \in DOMAIN rows \/ i = N + 1
    BY <1>2, <1>5
  <2> QED
    BY <1>2, <1>5, <2>1, <2>2, <2>3
<1>10. ASSUME NEW j \in DOMAIN Walk
       PROVE  /\ Awaited(Found(j), n + 1) <=> N + 1 < j /\ j <= walked
              /\ Awaited(Analyzed(j), n + 1) <=> Awaited(Analyzed(j), n)
  <2>1. Analyzed(j) # Found(k) /\ (Found(j) = Found(k) <=> j = k)
    BY EventKinds
  <2>2. Awaited(Found(j), n) <=> N < j /\ j <= walked
    BY <1>1 DEF Agrees
  <2>3. j \in Nat
    BY WalkFacts
  <2>4. /\ Awaited(Found(j), n + 1) <=> Awaited(Found(j), n) /\ Found(j) # Found(k)
        /\ Awaited(Analyzed(j), n + 1) <=> Awaited(Analyzed(j), n) /\ Analyzed(j) # Found(k)
    BY AwaitedNext
  <2> QED
    BY <1>2, <1>3, <2>1, <2>2, <2>3, <2>4
<1>11. Awaited(Done, n + 1) <=> Awaited(Done, n)
  <2>1. Done # Found(k)
    BY EventKinds
  <2> QED
    BY <2>1, AwaitedNext
<1>12. N + 1 <= walked /\ N + 1 <= Len(Walk)
  BY <1>3, WalkFacts
<1> QED
  BY <1>1, <1>5, <1>6, <1>7, <1>8, <1>9, <1>10, <1>11, <1>12 DEF Agrees, next

\* A result comes for a row that is there and still loading.
LEMMA AnalyzedStep ==
  ASSUME ScanTypes, InOrder, NEW n \in Nat, n + 1 \in DOMAIN channel, NEW state, Agrees(state, n),
         NEW k \in DOMAIN Walk, channel[n + 1] = Analyzed(k)
  PROVE  Agrees(apply_scan_event(state, channel[n + 1]), n + 1)
<1>1. PICK rows, N : rows = state.files /\ N = Len(rows)
  OBVIOUS
<1>2. /\ state \in ListState /\ rows \in Seq(Row) /\ N \in Nat /\ DOMAIN rows = 1..N
      /\ N <= walked /\ N <= Len(Walk) /\ walked \in Nat
  BY <1>1, ElementOf DEF Agrees, ListState, ScanTypes
<1>3. k \in 1..N /\ k <= walked /\ k \notin analyzing /\ rows[k].row = "Loading"
  <2>1. Awaited(Analyzed(k), n)
    BY EventKinds DEF Awaited
  <2>2. k <= walked /\ k \notin analyzing /\ ~AnalyzedIn(rows, k)
    BY <1>1, <2>1 DEF Agrees
  <2>3. ~Awaited(Found(k), n)
    <3> SUFFICES ASSUME Awaited(Found(k), n) PROVE FALSE
      OBVIOUS
    <3>1. PICK d \in DOMAIN channel : n < d /\ channel[d] = Found(k)
      BY DEF Awaited
    <3>2. d < n + 1
      BY <3>1, EventKinds DEF InOrder
    <3>3. d \in Nat
      BY ElementOf DEF ScanTypes
    <3> QED
      BY <3>1, <3>2, <3>3
  <2>4. ~(N < k)
    BY <1>1, <2>2, <2>3 DEF Agrees
  <2>5. k \in 1..N
    BY <1>2, <2>4, WalkFacts
  <2> QED
    BY <1>2, <2>2, <2>5 DEF AnalyzedIn
<1> DEFINE result == [path |-> Walk[k], row |-> Content[Walk[k]].row]
           other == [rows EXCEPT ![k] = result]
           next == apply_scan_event(state, channel[n + 1])
<1>4. result \in Row /\ result.row # "Loading"
  BY WalkFacts DEF Row
<1>5. /\ other \in Seq(Row) /\ Len(other) = N /\ DOMAIN other = 1..N
      /\ \A i \in 1..N : other[i] = IF i = k THEN result ELSE rows[i]
  BY <1>1, <1>2, <1>3, <1>4
<1>6. Loading(other) = Loading(rows) \ {k} /\ k \in Loading(rows)
  BY <1>2, <1>3, <1>4, <1>5 DEF Loading
<1>7. /\ state.pending = Cardinality(Loading(rows)) /\ state.pending \in Nat
      /\ Cardinality(Loading(other)) = Cardinality(Loading(rows)) - 1
      /\ Cardinality(Loading(other)) \in Nat
  <2>1. state.pending = Cardinality(Loading(rows)) /\ state.pending \in Nat
    BY <1>1, <1>2 DEF Agrees, ListState
  <2>2. IsFiniteSet(Loading(rows)) /\ Cardinality(Loading(rows)) \in Nat
    BY <1>2, LoadingFinite
  <2>3. /\ IsFiniteSet(Loading(rows) \ {k})
        /\ Cardinality(Loading(rows) \ {k}) =
             IF k \in Loading(rows) THEN Cardinality(Loading(rows)) - 1 ELSE Cardinality(Loading(rows))
    BY <2>2, FS_RemoveElement
  <2>4. Cardinality(Loading(rows) \ {k}) \in Nat
    BY <2>3, FS_CardinalityType
  <2> QED
    BY <1>6, <2>1, <2>2, <2>3, <2>4
<1>8. next = [files |-> other, pending |-> Cardinality(Loading(other)), done |-> state.done]
  <2>1. state.pending # 0 /\ state.pending - 1 = Cardinality(Loading(other))
    BY <1>7
  <2>2. k \in DOMAIN state.files
    BY <1>1, <1>2, <1>3
  <2>3. next = [state EXCEPT !.files = IF k \notin DOMAIN @ THEN @
                                       ELSE [@ EXCEPT ![k] = result],
                             !.pending = IF @ = 0 THEN 0 ELSE @ - 1]
    <3>1. channel[n + 1].kind = "Analyzed" /\ channel[n + 1].pos = k
      BY EventKinds
    <3> QED
      BY <3>1 DEF apply_scan_event
  <2>4. state = [files |-> rows, pending |-> state.pending, done |-> state.done]
    BY <1>1, <1>2 DEF ListState
  <2> QED
    BY <1>1, <2>1, <2>2, <2>3, <2>4
<1> HIDE DEF result, other, next
<1>9. /\ next \in ListState /\ next.files = other /\ next.done = state.done
      /\ next.pending = Cardinality(Loading(other))
  BY <1>2, <1>5, <1>7, <1>8 DEF ListState
<1>10. \A j \in DOMAIN Walk : AnalyzedIn(other, j) <=> AnalyzedIn(rows, j) \/ j = k
  BY <1>2, <1>3, <1>4, <1>5 DEF AnalyzedIn
<1>11. \A i \in DOMAIN other : other[i].path = Walk[i] /\ other[i].row \in {"Loading", Content[Walk[i]].row}
  <2>1. \A i \in DOMAIN rows : rows[i].path = Walk[i] /\ rows[i].row \in {"Loading", Content[Walk[i]].row}
    BY <1>1 DEF Agrees
  <2>2. result.path = Walk[k] /\ result.row = Content[Walk[k]].row
    BY DEF result
  <2>3. DOMAIN other = DOMAIN rows /\ \A i \in DOMAIN rows : other[i] = IF i = k THEN result ELSE rows[i]
    BY <1>2, <1>5
  <2> QED
    BY <2>1, <2>2, <2>3
<1>12. ASSUME NEW j \in DOMAIN Walk
       PROVE  /\ Awaited(Found(j), n + 1) <=> N < j /\ j <= walked
              /\ Awaited(Analyzed(j), n + 1) <=> Awaited(Analyzed(j), n) /\ j # k
  <2>1. Found(j) # Analyzed(k) /\ (Analyzed(j) = Analyzed(k) <=> j = k)
    BY EventKinds
  <2>2. Awaited(Found(j), n) <=> N < j /\ j <= walked
    BY <1>1 DEF Agrees
  <2>3. /\ Awaited(Found(j), n + 1) <=> Awaited(Found(j), n) /\ Found(j) # Analyzed(k)
        /\ Awaited(Analyzed(j), n + 1) <=> Awaited(Analyzed(j), n) /\ Analyzed(j) # Analyzed(k)
    BY AwaitedNext
  <2> QED
    BY <2>1, <2>2, <2>3
<1>13. Awaited(Done, n + 1) <=> Awaited(Done, n)
  <2>1. Done # Analyzed(k)
    BY EventKinds
  <2> QED
    BY <2>1, AwaitedNext
<1> QED
  BY <1>1, <1>2, <1>3, <1>5, <1>9, <1>10, <1>11, <1>12, <1>13 DEF Agrees, next

\* The end of the walk comes behind all its files.
LEMMA DoneStep ==
  ASSUME ScanTypes, InOrder, NEW n \in Nat, n + 1 \in DOMAIN channel, NEW state, Agrees(state, n),
         channel[n + 1] = Done
  PROVE  Agrees(apply_scan_event(state, channel[n + 1]), n + 1)
<1> DEFINE next == apply_scan_event(state, channel[n + 1])
<1>1. state \in ListState /\ next = [state EXCEPT !.done = TRUE]
  BY EventKinds DEF apply_scan_event, Agrees
<1>2. /\ next \in ListState /\ next.files = state.files /\ next.pending = state.pending
      /\ next.done = TRUE
  BY <1>1 DEF ListState
<1>3. \A j \in DOMAIN Walk : Found(j) # Done /\ Analyzed(j) # Done
  BY EventKinds
<1>4. Awaited(Done, n)
  BY DEF Awaited
<1>5. \A j \in DOMAIN Walk : /\ Awaited(Found(j), n + 1) <=> Awaited(Found(j), n)
                             /\ Awaited(Analyzed(j), n + 1) <=> Awaited(Analyzed(j), n)
  BY <1>3, AwaitedNext
<1>6. ~Awaited(Done, n + 1)
  BY AwaitedNext
<1> HIDE DEF next
<1> QED
  BY <1>2, <1>4, <1>5, <1>6 DEF Agrees, next

LEMMA EventStep ==
  ASSUME ScanTypes, InOrder, NEW n \in Nat, n + 1 \in DOMAIN channel, NEW state, Agrees(state, n)
  PROVE  Agrees(apply_scan_event(state, channel[n + 1]), n + 1)
<1>1. channel[n + 1] \in Events
  BY ElementOf DEF ScanTypes
<1> QED
  BY <1>1, EventKinds, FoundStep, AnalyzedStep, DoneStep

\* All that was sent, applied.
LEMMA AppliedAgrees ==
  ASSUME ScanTypes, Scanning
  PROVE  Agrees(Applied(channel), Len(channel)) /\ (channel = <<>> => Applied(channel) = Listed)
<1>1. PICK N : N = Len(channel) /\ N \in Nat /\ DOMAIN channel = 1..N
  BY ElementOf DEF ScanTypes
<1> DEFINE after == CHOOSE after : AppliedUpTo(after, Listed, channel, Len(channel))
<1>2. Applied(channel) = after[N]
  BY <1>1 DEF Applied, AppliedUpTo, Listed
<1>3. AppliedUpTo(after, Listed, channel, N)
  BY <1>1, AppliedExists
<1> HIDE DEF after
<1>4. after[0] = Listed
  BY <1>1, <1>3 DEF AppliedUpTo
<1>5. ASSUME NEW n \in Nat, n + 1 <= N
      PROVE  after[n + 1] = apply_scan_event(after[n], channel[n + 1])
  <2>1. \A m \in 0..N : after[m] = IF m = 0 THEN Listed
                                   ELSE apply_scan_event(after[m - 1], channel[m])
    BY <1>1, <1>3 DEF AppliedUpTo
  <2>2. n + 1 \in 0..N /\ n + 1 # 0 /\ (n + 1) - 1 = n
    BY <1>1, <1>5
  <2> QED
    BY <2>1, <2>2
<1> DEFINE S == {n \in Nat : n <= N => Agrees(after[n], n)}
<1>6. 0 \in S
  BY <1>4 DEF Scanning
<1>7. ASSUME NEW n \in Nat, n \in S
      PROVE  n + 1 \in S
  <2> SUFFICES ASSUME n + 1 <= N PROVE Agrees(after[n + 1], n + 1)
    OBVIOUS
  <2>1. Agrees(after[n], n) /\ n + 1 \in DOMAIN channel
    BY <1>1, <1>7
  <2> QED
    BY <1>5, <2>1, EventStep DEF Scanning
<1> HIDE DEF S
<1>8. N \in S
  BY <1>1, <1>6, <1>7, Induction
<1>9. channel = <<>> => N = 0
  BY <1>1
<1> QED
  BY <1>1, <1>2, <1>4, <1>8, <1>9 DEF S

-----------------------------------------------------------------------------
(* Sorting the rows permutes them.                                          *)

LEMMA KeysAreNumbers ==
  ASSUME NEW row \in Row, NEW col
  PROVE  Key(row, col) \in Nat
<1>1. row.path \in Paths
  BY DEF Row
<1>2. Content[row.path].size \in Nat
  BY <1>1, BrowserAssumption
<1>3. PathRank(row.path) \in Nat
  <2>1. \E k \in DOMAIN Walk : Walk[k] = row.path
    BY <1>1 DEF Paths
  <2>2. PathRank(row.path) \in DOMAIN Walk
    BY <2>1 DEF PathRank
  <2> QED
    BY <2>2, WalkFacts
<1> QED
  BY <1>2, <1>3 DEF Key

\* Equals are told apart by where they were: the order is strict and total.
LEMMA PrecedesIsOrder ==
  ASSUME NEW rows \in Seq(Row), NEW col, NEW asc \in BOOLEAN,
         NEW i \in DOMAIN rows, NEW j \in DOMAIN rows
  PROVE  /\ ~Precedes(rows, col, asc, i, i)
         /\ i # j => Precedes(rows, col, asc, i, j) \/ Precedes(rows, col, asc, j, i)
         /\ Precedes(rows, col, asc, i, j) =>
              \A h \in DOMAIN rows : Precedes(rows, col, asc, h, i) => Precedes(rows, col, asc, h, j)
<1>1. PICK N : N = Len(rows) /\ N \in Nat /\ DOMAIN rows = 1..N /\ \A k \in 1..N : rows[k] \in Row
  BY ElementOf
<1> DEFINE class == [k \in 1..N |-> IF rows[k].row = "Info" THEN 0 ELSE 1]
           key == [k \in 1..N |-> Key(rows[k], col)]
           before(a, b) == class[a] < class[b] \/ (class[a] = class[b] /\ key[a] < key[b])
<1>2. \A a, b \in 1..N : Before(rows[a], rows[b], col) <=> before(a, b)
  <2> TAKE a, b \in 1..N
  <2>1. CASE rows[a].row = "Info" /\ rows[b].row = "Info"
    BY <2>1 DEF Before
  <2>2. CASE rows[a].row = "Info" /\ rows[b].row # "Info"
    BY <2>2 DEF Before
  <2>3. CASE rows[a].row # "Info" /\ rows[b].row = "Info"
    BY <2>3 DEF Before
  <2>4. CASE rows[a].row # "Info" /\ rows[b].row # "Info"
    BY <2>4 DEF Before
  <2> QED
    BY <2>1, <2>2, <2>3, <2>4
<1>3. \A k \in 1..N : key[k] \in Nat /\ class[k] \in {0, 1}
  BY <1>1, KeysAreNumbers
<1> HIDE DEF class, key
<1>4. \A a, b \in 1..N :
        /\ asc => (Precedes(rows, col, asc, a, b) <=> before(a, b) \/ (a < b /\ ~before(b, a)))
        /\ ~asc => (Precedes(rows, col, asc, a, b) <=> before(b, a) \/ (a < b /\ ~before(a, b)))
  <2> TAKE a, b \in 1..N
  <2>1. (Before(rows[a], rows[b], col) <=> before(a, b)) /\ (Before(rows[b], rows[a], col) <=> before(b, a))
    BY <1>2
  <2> HIDE DEF before
  <2>2. CASE asc
    BY <2>1, <2>2 DEF Precedes, file_cmp
  <2>3. CASE ~asc
    BY <2>1, <2>3 DEF Precedes, file_cmp
  <2> QED
    BY <2>2, <2>3
<1>5. ~Precedes(rows, col, asc, i, i)
  BY <1>1, <1>3, <1>4
<1>6. i # j => Precedes(rows, col, asc, i, j) \/ Precedes(rows, col, asc, j, i)
  BY <1>1, <1>3, <1>4
<1>7. ASSUME NEW h \in DOMAIN rows, Precedes(rows, col, asc, h, i), Precedes(rows, col, asc, i, j)
      PROVE  Precedes(rows, col, asc, h, j)
  <2> USE <1>1
  <2>1. CASE asc
    <3>1. before(h, i) \/ (h < i /\ ~before(i, h))
      BY <1>4, <1>7, <2>1
    <3>2. before(i, j) \/ (i < j /\ ~before(j, i))
      BY <1>4, <1>7, <2>1
    <3>3. before(h, j) \/ (h < j /\ ~before(j, h))
      BY <1>3, <3>1, <3>2
    <3> QED
      BY <1>4, <2>1, <3>3
  <2>2. CASE ~asc
    BY <1>1, <1>3, <1>4, <1>7, <2>2
  <2> QED
    BY <2>1, <2>2
<1> QED
  BY <1>5, <1>6, <1>7

\* Every place is the rank of one row.
LEMMA RanksArePlaces ==
  ASSUME NEW rows \in Seq(Row), NEW col, NEW asc \in BOOLEAN
  PROVE  /\ \A i, j \in DOMAIN rows : Rank(rows, col, asc, i) = Rank(rows, col, asc, j) => i = j
         /\ \A i \in DOMAIN rows : Rank(rows, col, asc, i) \in DOMAIN rows
         /\ \A p \in DOMAIN rows : \E i \in DOMAIN rows : Rank(rows, col, asc, i) = p
<1>1. PICK N \in Nat : N = Len(rows) /\ DOMAIN rows = 1..N
  BY ElementOf
<1> DEFINE ahead(i) == {j \in DOMAIN rows : Precedes(rows, col, asc, j, i)}
<1>2. \A i : Rank(rows, col, asc, i) = 1 + Cardinality(ahead(i))
  BY DEF Rank
<1>3. IsFiniteSet(1..N) /\ Cardinality(1..N) = N
  BY FS_Interval
<1>4. ASSUME NEW i \in 1..N
      PROVE  IsFiniteSet(ahead(i)) /\ Cardinality(ahead(i)) \in 0..(N - 1)
  <2>1. i \notin ahead(i) /\ ahead(i) \subseteq (1..N) \ {i}
    BY <1>1, PrecedesIsOrder
  <2>2. IsFiniteSet((1..N) \ {i}) /\ Cardinality((1..N) \ {i}) = N - 1
    BY <1>3, FS_RemoveElement
  <2> HIDE DEF ahead
  <2> QED
    BY <1>1, <2>1, <2>2, FS_Subset, FS_CardinalityType
<1>5. ASSUME NEW i \in 1..N, NEW j \in 1..N, Precedes(rows, col, asc, i, j)
      PROVE  Cardinality(ahead(i)) < Cardinality(ahead(j))
  <2>1. i \notin ahead(i) /\ ahead(i) \cup {i} \subseteq ahead(j)
    BY <1>1, <1>5, PrecedesIsOrder
  <2> HIDE DEF ahead
  <2>2. Cardinality(ahead(i) \cup {i}) = Cardinality(ahead(i)) + 1
    BY <1>4, <2>1, FS_AddElement
  <2>3. Cardinality(ahead(i) \cup {i}) <= Cardinality(ahead(j))
    BY <1>4, <2>1, FS_Subset
  <2> QED
    BY <1>4, <2>2, <2>3
<1>6. \A i, j \in 1..N : Rank(rows, col, asc, i) = Rank(rows, col, asc, j) => i = j
  <2> SUFFICES ASSUME NEW i \in 1..N, NEW j \in 1..N, i # j
               PROVE  Rank(rows, col, asc, i) # Rank(rows, col, asc, j)
    OBVIOUS
  <2>1. Precedes(rows, col, asc, i, j) \/ Precedes(rows, col, asc, j, i)
    BY <1>1, PrecedesIsOrder
  <2> HIDE DEF ahead
  <2> QED
    BY <1>2, <1>4, <1>5, <2>1
<1> HIDE DEF ahead
<1>7. \A i \in 1..N : Rank(rows, col, asc, i) \in 1..N
  BY <1>1, <1>2, <1>4
<1> DEFINE rank == [i \in 1..N |-> Rank(rows, col, asc, i)]
<1>8. rank \in Injection(1..N, 1..N)
  <2>1. rank \in [1..N -> 1..N]
    BY <1>7
  <2>2. \A i, j \in 1..N : rank[i] = rank[j] => i = j
    BY <1>6
  <2> HIDE DEF rank
  <2> QED
    BY <2>1, <2>2 DEF Injection, IsInjective
<1>9. rank \in Surjection(1..N, 1..N)
  BY <1>3, <1>8, FS_Injection
<1>10. \A p \in 1..N : \E i \in 1..N : Rank(rows, col, asc, i) = p
  BY <1>9 DEF Surjection
<1> QED
  BY <1>1, <1>6, <1>7, <1>10

\* Where each sorted row was.
Permuted(rows, sorted, from) ==
    /\ sorted \in [DOMAIN rows -> Row] /\ from \in [DOMAIN rows -> DOMAIN rows]
    /\ \A p \in DOMAIN rows : sorted[p] = rows[from[p]]
    /\ \A p, q \in DOMAIN rows : from[p] = from[q] => p = q
    /\ \A i \in DOMAIN rows : \E p \in DOMAIN rows : from[p] = i

LEMMA SortedPermutes ==
  ASSUME NEW rows \in Seq(Row), NEW col, NEW asc \in BOOLEAN
  PROVE  \E from : Permuted(rows, Sorted(rows, col, asc), from)
<1> DEFINE from == [p \in DOMAIN rows |-> CHOOSE i \in DOMAIN rows : Rank(rows, col, asc, i) = p]
<1>1. \A p \in DOMAIN rows : from[p] \in DOMAIN rows /\ Rank(rows, col, asc, from[p]) = p
  BY RanksArePlaces
<1>2. \A p \in DOMAIN rows : Sorted(rows, col, asc)[p] = rows[from[p]]
  BY DEF Sorted
<1>3. Sorted(rows, col, asc) \in [DOMAIN rows -> Row]
  <2>1. \A i \in DOMAIN rows : rows[i] \in Row
    BY ElementOf
  <2> QED
    BY <1>1, <2>1 DEF Sorted
<1> HIDE DEF from
<1>4. ASSUME NEW i \in DOMAIN rows
      PROVE  \E p \in DOMAIN rows : from[p] = i
  <2>1. PICK p \in DOMAIN rows : p = Rank(rows, col, asc, i)
    BY RanksArePlaces
  <2>2. from[p] \in DOMAIN rows /\ Rank(rows, col, asc, from[p]) = Rank(rows, col, asc, i)
    BY <1>1, <2>1
  <2>3. from[p] = i
    BY <2>2, RanksArePlaces
  <2> QED
    BY <2>3
<1>5. from \in [DOMAIN rows -> DOMAIN rows]
  BY <1>1 DEF from
<1> QED
  <2>1. \A p, q \in DOMAIN rows : from[p] = from[q] => p = q
    BY <1>1
  <2>2. Permuted(rows, Sorted(rows, col, asc), from)
    BY <1>2, <1>3, <1>4, <1>5, <2>1 DEF Permuted
  <2> QED
    BY <2>2

-----------------------------------------------------------------------------
(* A poll of the scan.                                                      *)

\* Rows are only added, and stay where they are.
Grown ==
    /\ Len(files) <= Len(files')
    /\ \A i \in DOMAIN files : files'[i].path = files[i].path

LEMMA PollLists ==
  ASSUME BInv, poll_scan, UNCHANGED <<walked, analyzing>>
  PROVE  /\ ListTypes' /\ ScanTypes' /\ ScanState' /\ Grown
         /\ channel = <<>> /\ ~SendersGone => files' = files
<1>1. CASE data_loaded
  <2>1. UNCHANGED <<list, channel, walked, analyzing>>
    BY <1>1 DEF poll_scan
  <2>2. ListTypes' /\ ScanTypes'
    BY <2>1 DEF BInv, ListTypes, ScanTypes, list
  <2>3. Settled'
    BY <1>1, <2>1 DEF BInv, ScanState, Settled, list
  <2>4. files' = files /\ data_loaded' /\ Len(files) \in Nat
    BY <1>1, <2>1, ElementOf DEF BInv, ListTypes, list
  <2> QED
    BY <2>2, <2>3, <2>4 DEF ScanState, Grown
<1>2. CASE ~data_loaded
  <2>1. ScanTypes /\ Scanning
    BY <1>2 DEF BInv, ScanState
  <2>2. PICK state : state = Applied(channel)
    OBVIOUS
  <2>3. /\ files' = state.files
        /\ pending_analysis' = IF SendersGone THEN 0 ELSE state.pending
        /\ scan_done' = (state.done \/ SendersGone)
        /\ data_loaded' = (scan_done' /\ pending_analysis' = 0)
        /\ channel' = <<>>
    BY <1>2, <2>2 DEF poll_scan
  <2>4. Agrees(state, Len(channel)) /\ (channel = <<>> => state = Listed)
    BY <2>1, <2>2, AppliedAgrees
  <2>5. PICK rows, N : rows = state.files /\ N = Len(rows)
    OBVIOUS
  <2>6. /\ state \in ListState /\ rows \in Seq(Row) /\ N \in Nat /\ DOMAIN rows = 1..N
        /\ N <= walked /\ N <= Len(Walk) /\ walked \in Nat /\ analyzing \subseteq 1..Len(Walk)
        /\ \A k \in analyzing : k <= walked
    BY <2>1, <2>4, <2>5, ElementOf, WalkFacts DEF Agrees, ListState, ScanTypes
  <2>7. \A e : ~Awaited(e, Len(channel)) /\ ~Awaited(e, 0)'
    <3>1. DOMAIN channel = 1..Len(channel) /\ Len(channel) \in Nat /\ DOMAIN channel' = {}
      BY <2>1, <2>3, ElementOf DEF ScanTypes
    <3> QED
      BY <3>1 DEF Awaited
  <2>8. \A k \in 1..Len(Walk) : /\ ~(N < k /\ k <= walked)
                                /\ k <= walked /\ k \notin analyzing => AnalyzedIn(rows, k)
                                /\ AnalyzedIn(rows, k) => k \notin analyzing
    BY <2>4, <2>5, <2>7, WalkFacts DEF Agrees
  <2>9. /\ state.done <=> walked > Len(Walk)
        /\ state.pending = Cardinality(Loading(rows)) /\ state.pending \in Nat /\ state.done \in BOOLEAN
        /\ \A i \in 1..N : rows[i].path = Walk[i] /\ rows[i].row \in {"Loading", Content[Walk[i]].row}
    BY <2>4, <2>5, <2>6, <2>7 DEF Agrees, ListState
  <2>10. walked > Len(Walk) => N = Len(Walk)
    <3> SUFFICES ASSUME walked > Len(Walk), N # Len(Walk) PROVE FALSE
      OBVIOUS
    <3>1. Len(Walk) \in Nat
      BY WalkFacts
    <3>2. N + 1 \in 1..Len(Walk) /\ N < N + 1 /\ N + 1 <= walked
      BY <2>6, <3>1
    <3> QED
      BY <2>8, <3>2
  <2>11. IsFiniteSet(Loading(rows)) /\ (Cardinality(Loading(rows)) = 0 <=> Loading(rows) = {})
    BY <2>6, LoadingFinite, FS_EmptySet
  <2>12. SendersGone => walked > Len(Walk) /\ Loading(rows) = {}
    <3> SUFFICES ASSUME SendersGone PROVE walked > Len(Walk) /\ Loading(rows) = {}
      OBVIOUS
    <3>1. walked > Len(Walk) /\ analyzing = {}
      BY DEF SendersGone
    <3>2. \A k \in 1..N : AnalyzedIn(rows, k)
      BY <2>6, <2>8, <3>1, WalkFacts
    <3> QED
      BY <2>6, <3>1, <3>2 DEF Loading, AnalyzedIn
  <2>13. /\ files' = rows /\ pending_analysis' = Cardinality(Loading(rows))
         /\ scan_done' = state.done
    BY <2>3, <2>5, <2>9, <2>11, <2>12
  <2>14. ListTypes'
    BY <2>3, <2>6, <2>9, <2>13 DEF ListTypes
  <2>15. ScanTypes'
    BY <2>1, <2>3 DEF ScanTypes
  <2>16. Scanning'
    <3>1. InOrder'
      BY <2>3 DEF InOrder
    <3>2. /\ Listed'.files = rows /\ Listed'.pending = Cardinality(Loading(rows))
          /\ Listed'.done = state.done /\ Listed' \in ListState
      BY <2>6, <2>9, <2>13, <2>14 DEF Listed, ListState, ListTypes
    <3>3. PICK after : after = Listed'
      OBVIOUS
    <3>4. Agrees(after, 0)'
      <4>1. /\ after \in ListState /\ after.files = rows
            /\ after.done = state.done /\ after.pending = Cardinality(Loading(rows))
        BY <3>2, <3>3
      <4>2. walked' = walked /\ analyzing' = analyzing
        OBVIOUS
      <4> QED
        BY <2>4, <2>5, <2>6, <2>7, <2>8, <2>9, <4>1, <4>2, WalkFacts DEF Agrees
    <3> QED
      BY <3>1, <3>3, <3>4 DEF Scanning
  <2>17. data_loaded' => Settled'
    <3> SUFFICES ASSUME data_loaded' PROVE Settled'
      OBVIOUS
    <3>1. walked > Len(Walk) /\ Loading(rows) = {} /\ pending_analysis' = 0 /\ scan_done'
      BY <2>3, <2>9, <2>11, <2>13
    <3>2. N = Len(Walk)
      BY <2>10, <3>1
    <3>3. \A i \in 1..N : rows[i].row # "Loading"
      BY <2>6, <3>1 DEF Loading
    <3>4. analyzing = {}
      BY <2>6, <2>8, <3>1, <3>2, <3>3, WalkFacts DEF AnalyzedIn
    <3>5. \A i \in 1..N : rows[i].row = Content[rows[i].path].row
      BY <2>9, <3>3
    <3>6. \A i, j \in 1..N : rows[i].path = rows[j].path => i = j
      BY <2>9, <3>2, WalkDistinct
    <3>7. \A k \in 1..Len(Walk) : rows[k].path = Walk[k]
      BY <2>9, <3>2
    <3> QED
      BY <2>3, <2>6, <2>13, <3>1, <3>2, <3>4, <3>5, <3>6, <3>7, WalkFacts DEF Settled
  <2>18. Grown
    <3>1. /\ Len(files) \in Nat /\ Len(files) <= walked /\ Len(files) <= Len(Walk)
          /\ DOMAIN files = 1..Len(files) /\ \A i \in DOMAIN files : files[i].path = Walk[i]
      BY <2>1, ElementOf DEF Scanning, Agrees, Listed, BInv, ListTypes
    <3>2. Len(files) <= N
      <4> SUFFICES ASSUME N < Len(files) PROVE FALSE
        BY <2>6, <3>1
      <4>1. N + 1 \in 1..Len(Walk) /\ N < N + 1 /\ N + 1 <= walked
        BY <2>6, <3>1, WalkFacts
      <4> QED
        BY <2>8, <4>1
    <3> QED
      BY <2>6, <2>9, <2>13, <3>1, <3>2 DEF Grown
  <2>19. channel = <<>> => files' = files
    BY <2>4, <2>5, <2>13 DEF Listed
  <2> QED
    BY <2>14, <2>15, <2>16, <2>17, <2>18, <2>19 DEF ScanState
<1> QED
  BY <1>1, <1>2

-----------------------------------------------------------------------------
(* What is listed and selected.                                             *)

LEMMA PositionFacts ==
  ASSUME NEW S, NEW indices \in Seq(S), NEW x
  PROVE  /\ PositionOf(x, indices) \in 0..Len(indices)
         /\ PositionOf(x, indices) # 0 => indices[PositionOf(x, indices)] = x
         /\ PositionOf(x, indices) = 0 => \A p \in DOMAIN indices : indices[p] # x
<1>1. DOMAIN indices = 1..Len(indices) /\ Len(indices) \in Nat
  BY ElementOf
<1>2. CASE \E p \in DOMAIN indices : indices[p] = x
  <2>1. PositionOf(x, indices) = CHOOSE p \in DOMAIN indices : indices[p] = x
    BY <1>2 DEF PositionOf
  <2>2. PositionOf(x, indices) \in DOMAIN indices /\ indices[PositionOf(x, indices)] = x
    BY <1>2, <2>1
  <2> QED
    BY <1>1, <2>2
<1>3. CASE ~\E p \in DOMAIN indices : indices[p] = x
  BY <1>1, <1>3 DEF PositionOf
<1> QED
  BY <1>2, <1>3

\* The list and the selection are as the types say, the list is current.
ChoiceHolds == ChoiceTypes /\ FilteredIsCurrent

LEMMA RebuildHolds ==
  ASSUME files' \in Seq(Row), NEW prev, rebuild_filtered_files(prev)
  PROVE  /\ ChoiceHolds'
         /\ \/ /\ selected_file_index' \in DOMAIN filtered_file_indices'
               /\ filtered_file_indices'[selected_file_index'] = prev
            \/ \A p \in DOMAIN filtered_file_indices' : filtered_file_indices'[p] # prev
<1>1. PICK listed : listed = filtered_file_indices'
  OBVIOUS
<1>2. listed = Matching(files)' /\ listed \in Seq(DOMAIN files')
  BY <1>1, MatchingSelectsNext DEF MatchingFacts, ListFacts, rebuild_filtered_files
<1>3. selected_file_index' = IF PositionOf(prev, listed) = 0 THEN 1 ELSE PositionOf(prev, listed)
  BY <1>1 DEF rebuild_filtered_files
<1>4. PICK p : /\ p = PositionOf(prev, listed) /\ p \in 0..Len(listed)
               /\ p # 0 => listed[p] = prev
               /\ p = 0 => \A q \in DOMAIN listed : listed[q] # prev
  BY <1>2, PositionFacts
<1>5. DOMAIN listed = 1..Len(listed) /\ Len(listed) \in Nat /\ (listed = <<>> <=> Len(listed) = 0)
  BY <1>2
<1>6. LastRow' = IF listed = <<>> THEN 1 ELSE Len(listed)
  BY <1>1 DEF LastRow
<1>7. selected_file_index' \in 1..LastRow'
  BY <1>3, <1>4, <1>5, <1>6
<1>8. p # 0 => selected_file_index' \in DOMAIN listed /\ listed[selected_file_index'] = prev
  BY <1>3, <1>4, <1>5
<1> QED
  BY <1>1, <1>2, <1>4, <1>7, <1>8 DEF ChoiceHolds, ChoiceTypes, FilteredIsCurrent

\* The selected file, by the list.
SelectedFileFacts ==
    files \in Seq(Row) /\ ChoiceTypes =>
        /\ selected_file_index \in DOMAIN filtered_file_indices =>
              /\ selected_file_real_index = filtered_file_indices[selected_file_index]
              /\ selected_file_real_index \in DOMAIN files
              /\ get_selected_file = files[selected_file_real_index].path
        /\ selected_file_index \notin DOMAIN filtered_file_indices =>
              selected_file_real_index = 0 /\ get_selected_file = NoFile

LEMMA SelectedFile == SelectedFileFacts
<1> SUFFICES ASSUME files \in Seq(Row), ChoiceTypes PROVE SelectedFileFacts
  BY DEF SelectedFileFacts
<1>1. /\ DOMAIN files = 1..Len(files) /\ Len(files) \in Nat
      /\ \A p \in DOMAIN filtered_file_indices : filtered_file_indices[p] \in DOMAIN files
  BY ElementOf DEF ChoiceTypes
<1> QED
  BY <1>1 DEF SelectedFileFacts, selected_file_real_index, get_selected_file, Entry

LEMMA SelectedFileNext == SelectedFileFacts'
  BY SelectedFile, PTL

\* The rows have different files.
Distinct == \A i, j \in DOMAIN files : files[i].path = files[j].path => i = j

DistinctFact == BInv => Distinct

LEMMA RowsDistinct == DistinctFact
<1> SUFFICES ASSUME BInv PROVE Distinct
  BY DEF DistinctFact
<1>1. CASE data_loaded
  BY <1>1 DEF BInv, ScanState, Settled, Distinct
<1>2. CASE ~data_loaded
  <2>1. /\ \A i \in DOMAIN files : files[i].path = Walk[i]
        /\ Len(files) <= Len(Walk) /\ DOMAIN files = 1..Len(files) /\ Len(files) \in Nat
    BY <1>2, ElementOf DEF BInv, ScanState, Scanning, Agrees, Listed, ListTypes
  <2>2. \A i \in DOMAIN files : i \in 1..Len(Walk)
    BY <2>1, WalkFacts
  <2> QED
    BY <2>1, <2>2, WalkDistinct DEF Distinct
<1> QED
  BY <1>1, <1>2

LEMMA RowsDistinctNext == DistinctFact'
  BY RowsDistinct, PTL

\* The analyses awaited are the rows that are loading.
LEMMA PendingIsLoading ==
  ASSUME BInv
  PROVE  /\ pending_analysis = Cardinality({i \in DOMAIN files : files[i].row = "Loading"})
         /\ pending_analysis \in 0..Len(Walk)
         /\ data_loaded => Len(files) = Len(Walk) /\ pending_analysis = 0
         /\ Len(files) <= Len(Walk)
<1>1. files \in Seq(Row) /\ DOMAIN files = 1..Len(files) /\ Len(files) \in Nat
  BY ElementOf DEF BInv, ListTypes
<1>2. Cardinality(Loading(files)) \in 0..Len(files)
  BY <1>1, LoadingFinite
<1>3. pending_analysis = Cardinality(Loading(files)) /\ Len(files) <= Len(Walk)
  <2>1. CASE data_loaded
    <3>1. Settled
      BY <2>1 DEF BInv, ScanState
    <3>2. \A i \in DOMAIN files : files[i].row # "Loading"
      <4> TAKE i \in DOMAIN files
      <4>1. files[i] \in Row
        BY <1>1, ElementOf
      <4>2. files[i].path \in Paths
        BY <4>1 DEF Row
      <4>3. files[i].row = Content[files[i].path].row
        BY <3>1 DEF Settled
      <4> QED
        BY <4>2, <4>3, BrowserAssumption
    <3>3. Loading(files) = {}
      BY <3>2 DEF Loading
    <3> QED
      BY <3>1, <3>3, FS_EmptySet, WalkFacts DEF Settled
  <2>2. CASE ~data_loaded
    BY <2>2 DEF BInv, ScanState, Scanning, Agrees, Listed
  <2> QED
    BY <2>1, <2>2
<1>4. data_loaded => Len(files) = Len(Walk) /\ pending_analysis = 0
  BY DEF BInv, ScanState, Settled
<1>5. Cardinality(Loading(files)) = Cardinality({i \in DOMAIN files : files[i].row = "Loading"})
  BY DEF Loading
<1>6. \A count, n, most \in Nat : count \in 0..n /\ n <= most => count \in 0..most
  OBVIOUS
<1>7. Len(Walk) \in Nat /\ Cardinality(Loading(files)) \in Nat
  BY <1>1, <1>2, WalkFacts
<1>8. Cardinality(Loading(files)) \in 0..Len(Walk)
  BY <1>1, <1>2, <1>3, <1>6, <1>7
<1> QED
  BY <1>3, <1>4, <1>5, <1>8

LEMMA RowsCoverTheWalk ==
  ASSUME BInv
  PROVE  /\ {files[i].path : i \in DOMAIN files} = {Walk[k] : k \in 1..Len(files)}
         /\ \A i \in DOMAIN files : files[i].row \in {"Loading", Content[files[i].path].row}
<1>1. files \in Seq(Row) /\ DOMAIN files = 1..Len(files)
  BY ElementOf DEF BInv, ListTypes
<1>2. CASE data_loaded
  <2>1. Settled
    BY <1>2 DEF BInv, ScanState
  <2>2. \A i \in DOMAIN files : \E k \in 1..Len(Walk) : files[i].path = Walk[k]
    <3> TAKE i \in DOMAIN files
    <3>1. files[i] \in Row
      BY <1>1, ElementOf
    <3>2. files[i].path \in Paths
      BY <3>1 DEF Row
    <3> QED
      BY <3>2, WalkFacts DEF Paths
  <2> QED
    BY <2>1, <2>2, WalkFacts DEF Settled
<1>3. CASE ~data_loaded
  BY <1>1, <1>3 DEF BInv, ScanState, Scanning, Agrees, Listed
<1> QED
  BY <1>2, <1>3

\* The selection stays on its file while the file is listed.
KeptSelection ==
    \/ get_selected_file = NoFile
    \/ get_selected_file' = get_selected_file
    \/ \A p \in DOMAIN filtered_file_indices' :
          files'[filtered_file_indices'[p]].path # get_selected_file

LEMMA RebuildKeeps ==
  ASSUME files \in Seq(Row), ChoiceTypes, files' \in Seq(Row), Grown, Distinct',
         rebuild_filtered_files(selected_file_real_index)
  PROVE  KeptSelection
<1>1. PICK prev : prev = selected_file_real_index
  OBVIOUS
<1>2. /\ ChoiceHolds'
      /\ \/ /\ selected_file_index' \in DOMAIN filtered_file_indices'
            /\ filtered_file_indices'[selected_file_index'] = prev
         \/ \A p \in DOMAIN filtered_file_indices' : filtered_file_indices'[p] # prev
  BY <1>1, RebuildHolds
<1>3. CASE selected_file_index \notin DOMAIN filtered_file_indices
  BY <1>3, SelectedFile DEF SelectedFileFacts, KeptSelection
<1>4. CASE selected_file_index \in DOMAIN filtered_file_indices
  <2>1. prev \in DOMAIN files /\ get_selected_file = files[prev].path
    BY <1>1, <1>4, SelectedFile DEF SelectedFileFacts
  <2>2. prev \in DOMAIN files' /\ files'[prev].path = get_selected_file
    BY <2>1, ElementOf DEF Grown
  <2>3. CASE /\ selected_file_index' \in DOMAIN filtered_file_indices'
             /\ filtered_file_indices'[selected_file_index'] = prev
    <3>1. get_selected_file' = files'[prev].path
      BY <1>2, <2>3, SelectedFileNext DEF SelectedFileFacts, ChoiceHolds
    <3> QED
      BY <2>2, <3>1 DEF KeptSelection
  <2>4. CASE \A p \in DOMAIN filtered_file_indices' : filtered_file_indices'[p] # prev
    <3>1. \A p \in DOMAIN filtered_file_indices' : filtered_file_indices'[p] \in DOMAIN files'
      BY <1>2, ElementOf DEF ChoiceHolds, ChoiceTypes
    <3> QED
      BY <2>2, <2>4, <3>1 DEF Distinct, KeptSelection
  <2> QED
    BY <1>2, <2>3, <2>4
<1> QED
  BY <1>3, <1>4

\* A list that nothing touches stays as it is.
LEMMA ChoiceUntouched ==
  ASSUME ListTypes, ChoiceHolds, UNCHANGED <<files, filtered_file_indices, filters>>,
         selected_file_index' \in 1..LastRow
  PROVE  ChoiceHolds'
<1>1. LastRow' = LastRow /\ ChoiceTypes'
  BY DEF ChoiceHolds, ChoiceTypes, LastRow
<1>2. Matching(files)' = Matching(files)
  BY DEF Matching, Passes, filters
<1> QED
  BY <1>1, <1>2 DEF ChoiceHolds, FilteredIsCurrent

LEMMA PollChoice ==
  ASSUME BInv, poll_scan, UNCHANGED <<walked, analyzing>>, UNCHANGED filters
  PROVE  ChoiceHolds' /\ (Distinct' => KeptSelection)
<1>1. /\ files \in Seq(Row) /\ ChoiceTypes /\ ChoiceHolds /\ ListTypes
      /\ files' \in Seq(Row) /\ Grown
      /\ channel = <<>> /\ ~SendersGone => files' = files
  BY PollLists DEF BInv, ListTypes, ChoiceHolds
<1>2. CASE UNCHANGED choice /\ files' = files
  <2>1. ChoiceHolds'
    <3>1. selected_file_index' \in 1..LastRow
      BY <1>1, <1>2 DEF choice, ChoiceTypes
    <3> QED
      BY <1>1, <1>2, <3>1, ChoiceUntouched DEF choice
  <2>2. get_selected_file' = get_selected_file
    BY <1>2 DEF choice, get_selected_file, selected_file_real_index, Entry
  <2> QED
    BY <2>1, <2>2 DEF KeptSelection
<1>3. CASE ~(UNCHANGED choice /\ files' = files)
  <2>1. refresh_filtered_files(Len(files))
    <3>1. ~data_loaded
      BY <1>3 DEF poll_scan, list
    <3>2. channel # <<>> \/ SendersGone
      <4> SUFFICES ASSUME channel = <<>>, ~SendersGone PROVE FALSE
        OBVIOUS
      <4>1. UNCHANGED choice
        BY <3>1 DEF poll_scan
      <4> QED
        BY <1>1, <1>3, <4>1
    <3> QED
      BY <3>1, <3>2 DEF poll_scan
  <2>2. CASE has_filters
    <3>1. rebuild_filtered_files(selected_file_real_index)
      BY <2>1, <2>2 DEF refresh_filtered_files
    <3> QED
      BY <1>1, <3>1, RebuildHolds, RebuildKeeps
  <2>3. CASE ~has_filters
    <3>1. ~has_filters'
      BY <2>3 DEF has_filters, filters
    <3>2. PICK old, new : old = Len(files) /\ new = Len(files')
      OBVIOUS
    <3>3. /\ old \in Nat /\ new \in Nat /\ old <= new
          /\ DOMAIN files = 1..old /\ DOMAIN files' = 1..new
      BY <1>1, <3>2, ElementOf DEF Grown
    <3>4. PICK listed, more : listed = filtered_file_indices /\ more = filtered_file_indices'
      OBVIOUS
    <3>5. /\ listed \in Seq(1..old) /\ Len(listed) = old /\ \A i \in 1..old : listed[i] = i
      BY <1>1, <2>3, <3>2, <3>3, <3>4, MatchingSelects
      DEF MatchingFacts, ListFacts, ChoiceHolds, FilteredIsCurrent
    <3>6. /\ more = listed \o [i \in 1..(new - old) |-> old + i]
          /\ UNCHANGED selected_file_index
      BY <2>1, <2>3, <3>2, <3>4 DEF refresh_filtered_files
    <3>7. more \in Seq(1..new) /\ Len(more) = new /\ \A i \in 1..new : more[i] = i
      <4> DEFINE tail == [i \in 1..(new - old) |-> old + i]
      <4>1. new - old \in Nat /\ \A i \in 1..(new - old) : old + i \in 1..new
        BY <3>3
      <4>2. tail \in Seq(1..new) /\ Len(tail) = new - old /\ \A i \in 1..(new - old) : tail[i] = old + i
        <5>1. tail \in [1..(new - old) -> 1..new]
          BY <4>1
        <5>2. \A i \in 1..(new - old) : tail[i] = old + i
          OBVIOUS
        <5> HIDE DEF tail
        <5> QED
          BY <4>1, <5>1, <5>2, MadeSeq
      <4>3. listed \in Seq(1..new)
        BY <3>3, <3>5
      <4>4. more = listed \o tail
        BY <3>6
      <4> HIDE DEF tail
      <4>5. more \in Seq(1..new) /\ Len(more) = old + (new - old)
        BY <3>5, <4>2, <4>3, <4>4
      <4>6. \A i \in 1..new : more[i] = IF i <= old THEN listed[i] ELSE tail[i - old]
        <5>1. \A i \in 1..new : i \in 1..(Len(listed) + Len(tail))
          BY <3>3, <3>5, <4>2
        <5> QED
          BY <3>5, <4>2, <4>3, <4>4, <5>1
      <4>7. \A i \in 1..new : ~(i <= old) => i - old \in 1..(new - old) /\ tail[i - old] = i
        BY <3>3, <4>2
      <4>8. \A i \in 1..new : i <= old => listed[i] = i
        BY <3>5
      <4>9. \A i \in 1..new : more[i] = i
        BY <4>6, <4>7, <4>8
      <4>10. old + (new - old) = new
        BY <3>3
      <4> QED
        BY <4>5, <4>9, <4>10
    <3>8. /\ Matching(files)' \in Seq(1..new) /\ Len(Matching(files)') = new
          /\ \A i \in 1..new : Matching(files)'[i] = i
      BY <1>1, <3>1, <3>2, <3>3, MatchingSelectsNext DEF MatchingFacts, ListFacts
    <3>9. more = Matching(files)'
      BY <3>3, <3>7, <3>8
    <3>10. ChoiceHolds'
      <4>1. selected_file_index \in 1..(IF listed = <<>> THEN 1 ELSE old)
        BY <1>1, <3>4, <3>5 DEF ChoiceTypes, LastRow
      <4>2. listed = <<>> <=> old = 0
        BY <3>5
      <4>3. more = <<>> <=> new = 0
        BY <3>7
      <4>4. selected_file_index \in 1..(IF more = <<>> THEN 1 ELSE new)
        BY <3>3, <4>1, <4>2, <4>3
      <4>5. selected_file_index' \in 1..LastRow'
        BY <3>4, <3>6, <3>7, <4>4 DEF LastRow
      <4> QED
        BY <3>3, <3>4, <3>7, <3>9, <4>5 DEF ChoiceHolds, ChoiceTypes, FilteredIsCurrent
    <3>11. KeptSelection
      <4>1. CASE selected_file_index \in DOMAIN filtered_file_indices
        <5>1. PICK i : i = selected_file_index /\ i \in 1..old /\ i \in 1..new
          BY <3>3, <3>4, <3>5, <4>1
        <5>2. get_selected_file = files[i].path
          BY <1>1, <3>4, <3>5, <4>1, <5>1, SelectedFile DEF SelectedFileFacts
        <5>3. get_selected_file' = files'[i].path
          <6>1. /\ selected_file_index' \in DOMAIN filtered_file_indices'
                /\ filtered_file_indices'[selected_file_index'] = i
            <7>1. DOMAIN more = 1..new /\ more[i] = i
              BY <3>3, <3>7, <5>1, ElementOf
            <7> QED
              BY <3>4, <3>6, <5>1, <7>1
          <6> QED
            BY <1>1, <3>10, <6>1, SelectedFileNext DEF SelectedFileFacts, ChoiceHolds
        <5>4. files'[i].path = files[i].path
          BY <1>1, <3>3, <5>1 DEF Grown
        <5> QED
          BY <5>2, <5>3, <5>4 DEF KeptSelection
      <4>2. CASE selected_file_index \notin DOMAIN filtered_file_indices
        BY <1>1, <4>2, SelectedFile DEF SelectedFileFacts, KeptSelection
      <4> QED
        BY <4>1, <4>2
    <3> QED
      BY <3>10, <3>11
  <2> QED
    BY <2>2, <2>3
<1> QED
  BY <1>2, <1>3

-----------------------------------------------------------------------------
(* The events of the loop.                                                  *)

LEMMA ScanUntouched ==
  ASSUME ListTypes, ScanTypes, ScanState, UNCHANGED <<scan, list>>
  PROVE  ListTypes' /\ ScanTypes' /\ ScanState'
<1>1. UNCHANGED <<files, pending_analysis, scan_done, data_loaded, walked, analyzing, channel>>
  BY DEF scan, list
<1>2. ListTypes' /\ ScanTypes'
  BY <1>1 DEF ListTypes, ScanTypes
<1>3. CASE data_loaded
  <2>1. Settled'
    BY <1>1, <1>3 DEF ScanState, Settled
  <2> QED
    BY <1>1, <1>2, <1>3, <2>1 DEF ScanState
<1>4. CASE ~data_loaded
  <2>1. InOrder /\ Agrees(Listed, 0)
    BY <1>4 DEF ScanState, Scanning
  <2>2. InOrder'
    BY <1>1, <2>1 DEF InOrder
  <2>3. PICK state : state = Listed /\ Agrees(state, 0)
    BY <2>1
  <2>4. Agrees(state, 0)'
    <3>1. \A e : Awaited(e, 0)' <=> Awaited(e, 0)
      BY <1>1 DEF Awaited
    <3> QED
      BY <1>1, <2>3, <3>1 DEF Agrees
  <2>5. Listed' = state
    BY <1>1, <2>3 DEF Listed
  <2> QED
    BY <1>1, <1>2, <1>4, <2>2, <2>4, <2>5 DEF ScanState, Scanning
<1> QED
  BY <1>3, <1>4

\* An event that leaves the files and the list alone.
LEMMA QuietStep ==
  ASSUME BInv, UNCHANGED <<scan, list, filters, filtered_file_indices>>,
         selected_file_index' \in 1..LastRow, ViewTypes'
  PROVE  BInv'
<1>1. ListTypes' /\ ScanTypes' /\ ScanState'
  BY ScanUntouched DEF BInv
<1>2. ChoiceHolds'
  BY ChoiceUntouched DEF BInv, ChoiceHolds, list
<1> QED
  BY <1>1, <1>2 DEF BInv, ChoiceHolds

LEMMA SelectionTypes ==
  ASSUME BInv
  PROVE  /\ selected_file_index \in 1..LastRow /\ LastRow \in Nat \ {0}
         /\ \A row \in DOMAIN filtered_file_indices :
               /\ row \in 1..LastRow
               /\ RowOf(row) \in Row
<1>1. /\ files \in Seq(Row) /\ filtered_file_indices \in Seq(DOMAIN files)
      /\ selected_file_index \in 1..LastRow
  BY DEF BInv, ListTypes, ChoiceTypes
<1>2. LastRow = IF filtered_file_indices = <<>> THEN 1 ELSE Len(filtered_file_indices)
  BY DEF LastRow
<1> QED
  BY <1>1, <1>2 DEF RowOf

LEMMA EnterRowHolds ==
  ASSUME BInv, NEW index \in DOMAIN filtered_file_indices, EnterRow(index), phase' \in {"tick", "event"}
  PROVE  ViewTypes'
<1>1. RowOf(index) \in Row
  BY SelectionTypes
<1>2. CASE RowOf(index).row = "Error" \/ ~Content[RowOf(index).path].opens
  <2>1. error_popup' = TRUE /\ UNCHANGED <<mode, opened, file_sort, panel>>
    BY <1>2 DEF EnterRow
  <2> QED
    BY <2>1 DEF BInv, ViewTypes
<1>3. CASE ~(RowOf(index).row = "Error" \/ ~Content[RowOf(index).path].opens)
  <2>1. /\ mode' = "LayerOverview" /\ opened' = opened \cup {RowOf(index).path}
        /\ UNCHANGED <<error_popup, file_sort, panel>>
    BY <1>3 DEF EnterRow
  <2>2. RowOf(index).path \in Paths /\ Content[RowOf(index).path].opens
    BY <1>1, <1>3 DEF Row
  <2> QED
    BY <2>1, <2>2 DEF BInv, ViewTypes
<1> QED
  BY <1>2, <1>3

LEMMA MoveHolds ==
  ASSUME BInv, NEW n \in Nat, NEW down \in BOOLEAN, move_by(n, down)
  PROVE  BInv'
<1>1. PICK at, last : at = selected_file_index /\ last = LastRow
  OBVIOUS
<1>2. at \in 1..last /\ last \in Nat \ {0}
  BY <1>1, SelectionTypes
<1>3. selected_file_index' \in 1..last
  <2>1. CASE down
    BY <1>1, <1>2, <2>1 DEF move_by, Smaller
  <2>2. CASE ~down
    BY <1>1, <1>2, <2>2 DEF move_by, Smaller
  <2> QED
    BY <2>1, <2>2
<1>4. ViewTypes'
  BY DEF BInv, ViewTypes, move_by, EndTurn
<1> QED
  BY <1>1, <1>3, <1>4, QuietStep DEF move_by

LEMMA ClickHolds ==
  ASSUME BInv, NEW row \in DOMAIN filtered_file_indices, NEW double \in BOOLEAN, Click(row, double)
  PROVE  BInv'
<1>1. selected_file_index' \in 1..LastRow
  BY SelectionTypes DEF Click
<1>2. CASE double
  <2>1. EnterRow(row) /\ phase' = "tick"
    BY <1>2 DEF Click, EndTurn
  <2>2. ViewTypes'
    BY <2>1, EnterRowHolds
  <2> QED
    BY <1>1, <2>1, <2>2, QuietStep DEF EnterRow
<1>3. CASE ~double
  <2>1. UNCHANGED <<scan, list, filtered_file_indices, filters, file_sort, mode, error_popup, panel, opened>>
    BY <1>3 DEF Click
  <2>2. ViewTypes'
    BY <2>1 DEF BInv, ViewTypes, Click, EndTurn
  <2> QED
    BY <1>1, <2>1, <2>2, QuietStep
<1> QED
  BY <1>2, <1>3

\* Steps that leave the selection alone too.
LEMMA StillStep ==
  ASSUME BInv, UNCHANGED <<scan, list, choice, filters>>, ViewTypes'
  PROVE  BInv' /\ KeptSelection
<1>1. UNCHANGED <<files, filtered_file_indices, selected_file_index>>
  BY DEF list, choice
<1>2. BInv'
  BY <1>1, SelectionTypes, QuietStep
<1>3. get_selected_file' = get_selected_file
  BY <1>1 DEF get_selected_file, selected_file_real_index, Entry
<1> QED
  BY <1>2, <1>3 DEF KeptSelection

LEMMA EnterHolds ==
  ASSUME BInv, handle_enter
  PROVE  BInv' /\ KeptSelection
<1>1. /\ selected_file_index \in DOMAIN filtered_file_indices
      /\ EnterRow(selected_file_index) /\ phase' = "tick"
      /\ UNCHANGED selected_file_index
  BY DEF handle_enter, EndTurn
<1>2. ViewTypes'
  BY <1>1, EnterRowHolds
<1> QED
  BY <1>1, <1>2, StillStep DEF EnterRow, choice

LEMMA OtherEventsHold ==
  ASSUME BInv, NoEvent \/ DismissPopup \/ handle_escape \/ LoadPreview
  PROVE  BInv' /\ KeptSelection
<1>1. CASE NoEvent
  <2>1. ViewTypes'
    BY <1>1 DEF NoEvent, EndTurn, BInv, ViewTypes
  <2> QED
    BY <1>1, <2>1, StillStep DEF NoEvent
<1>2. CASE DismissPopup
  <2>1. ViewTypes'
    BY <1>2 DEF DismissPopup, EndTurn, BInv, ViewTypes
  <2> QED
    BY <1>2, <2>1, StillStep DEF DismissPopup
<1>3. CASE handle_escape
  <2>1. ViewTypes'
    BY <1>3 DEF handle_escape, EndTurn, BInv, ViewTypes
  <2> QED
    BY <1>3, <2>1, StillStep DEF handle_escape
<1>4. CASE LoadPreview
  <2>1. panel' \in Panel /\ (panel'.rx.sent => panel'.rx.file # NoFile)
    BY <1>4 DEF LoadPreview, BInv, ViewTypes, Panel
  <2>2. ViewTypes'
    BY <1>4, <2>1 DEF LoadPreview, BInv, ViewTypes
  <2> QED
    BY <1>4, <2>2, StillStep DEF LoadPreview
<1> QED
  BY <1>1, <1>2, <1>3, <1>4

LEMMA FilterClickHolds ==
  ASSUME BInv, handle_filter_click
  PROVE  BInv' /\ KeptSelection
<1>1. /\ UNCHANGED <<scan, list, file_sort, mode, error_popup, panel, opened>>
      /\ rebuild_filtered_files(selected_file_real_index) /\ phase' = "tick"
  BY DEF handle_filter_click, EndTurn
<1>2. ListTypes' /\ ScanTypes' /\ ScanState' /\ files' = files
  BY <1>1, ScanUntouched DEF BInv, list
<1>3. ViewTypes'
  BY <1>1 DEF BInv, ViewTypes
<1>4. ChoiceHolds'
  BY <1>1, <1>2, RebuildHolds DEF ListTypes
<1>5. BInv'
  BY <1>2, <1>3, <1>4 DEF BInv, ChoiceHolds
<1>6. Distinct' /\ Grown
  <2>1. Distinct
    BY RowsDistinct DEF DistinctFact
  <2>2. Len(files) \in Nat
    BY ElementOf DEF BInv, ListTypes
  <2> QED
    BY <1>2, <2>1, <2>2 DEF Distinct, Grown
<1>7. KeptSelection
  BY <1>1, <1>2, <1>6, RebuildKeeps DEF BInv, ListTypes
<1> QED
  BY <1>5, <1>7

\* A header is clicked: the rows are permuted, and the selection is looked up by its path.
LEMMA HeaderClickHolds ==
  ASSUME BInv, NEW col \in Columns, handle_file_header_click(col)
  PROVE  BInv' /\ KeptSelection
<1>1. PICK asc \in BOOLEAN : file_sort' = <<col, asc>> /\ files' = Sorted(files, col, asc)
  BY DEF handle_file_header_click, SortBy
<1>2. PICK prev : prev = get_selected_file
  OBVIOUS
<1>3. /\ data_loaded /\ phase' = "tick"
      /\ UNCHANGED <<scan, filters, mode, error_popup, panel, opened>>
      /\ UNCHANGED <<pending_analysis, scan_done, data_loaded>>
      /\ filtered_file_indices' = Matching(files)'
      /\ selected_file_index' =
           LET p == PositionOf(prev, [i \in DOMAIN filtered_file_indices' |->
                                        files'[filtered_file_indices'[i]].path])
           IN IF p = 0 THEN 1 ELSE p
  BY <1>2 DEF handle_file_header_click, SortBy, EndTurn
<1>4. PICK rows \in Seq(Row), N \in Nat : rows = files /\ N = Len(rows) /\ DOMAIN rows = 1..N
  BY ElementOf DEF BInv, ListTypes
<1>5. PICK from : Permuted(rows, files', from)
  BY <1>1, <1>4, SortedPermutes
<1>6. /\ files' \in [1..N -> Row] /\ from \in [1..N -> 1..N]
      /\ \A p \in 1..N : files'[p] = rows[from[p]]
      /\ \A p, q \in 1..N : from[p] = from[q] => p = q
      /\ \A i \in 1..N : \E p \in 1..N : from[p] = i
  <2>1. DOMAIN rows = 1..N
    BY <1>4
  <2>2. Permuted(rows, files', from)
    BY <1>5
  <2> QED
    BY <2>1, <2>2 DEF Permuted
<1>7. files' \in Seq(Row) /\ Len(files') = N /\ DOMAIN files' = 1..N
  <2>1. files' \in [1..N -> Row]
    BY <1>6
  <2> QED
    BY <2>1, MadeSeq
<1>8. \A p \in 1..N : files'[p] = rows[from[p]] /\ from[p] \in 1..N
  BY <1>6
<1>9. Settled /\ UNCHANGED <<walked, analyzing, channel>>
  BY <1>3 DEF BInv, ScanState, scan
<1>10. Settled' /\ Distinct'
  <2>1. /\ \A i, j \in 1..N : rows[i].path = rows[j].path => i = j
        /\ \A i \in 1..N : rows[i].row = Content[rows[i].path].row
    BY <1>4, <1>9 DEF Settled
  <2>2. \A p, q \in 1..N : files'[p].path = files'[q].path => p = q
    <3> SUFFICES ASSUME NEW p \in 1..N, NEW q \in 1..N, files'[p].path = files'[q].path PROVE p = q
      OBVIOUS
    <3>1. rows[from[p]].path = rows[from[q]].path /\ from[p] \in 1..N /\ from[q] \in 1..N
      BY <1>8
    <3>2. from[p] = from[q]
      BY <2>1, <3>1
    <3> QED
      BY <1>6, <3>2
  <2>3. \A k \in DOMAIN Walk : \E p \in 1..N : files'[p].path = Walk[k]
    <3> TAKE k \in DOMAIN Walk
    <3>1. PICK i \in 1..N : rows[i].path = Walk[k]
      BY <1>4, <1>9 DEF Settled
    <3>2. PICK p \in 1..N : from[p] = i
      BY <1>6
    <3> QED
      BY <1>8, <3>1, <3>2
  <2>4. \A p \in 1..N : files'[p].row = Content[files'[p].path].row
    BY <1>8, <2>1
  <2> QED
    BY <1>3, <1>4, <1>7, <1>9, <2>2, <2>3, <2>4 DEF Settled, Distinct
<1>11. ListTypes' /\ ScanTypes' /\ ScanState'
  BY <1>3, <1>7, <1>9, <1>10 DEF BInv, ListTypes, ScanTypes, ScanState
<1>12. ViewTypes'
  BY <1>1, <1>3 DEF BInv, ViewTypes
<1>13. PICK listed : listed = filtered_file_indices'
  OBVIOUS
<1>14. listed = Matching(files)' /\ listed \in Seq(1..N)
  BY <1>3, <1>7, <1>13, MatchingSelectsNext DEF MatchingFacts, ListFacts
<1>15. /\ DOMAIN listed = 1..Len(listed) /\ Len(listed) \in Nat
       /\ \A p \in 1..Len(listed) : listed[p] \in 1..N
       /\ listed = <<>> <=> Len(listed) = 0
  <2>1. listed = <<>> <=> Len(listed) = 0
    BY <1>14
  <2> QED
    BY <1>14, <2>1, ElementOf
<1> DEFINE paths == [i \in DOMAIN listed |-> files'[listed[i]].path]
<1>16. paths \in Seq(Paths) /\ Len(paths) = Len(listed)
  <2>1. \A i \in 1..Len(listed) : files'[listed[i]].path \in Paths
    <3>1. \A i \in 1..N : files'[i] \in Row
      BY <1>7, ElementOf
    <3> QED
      BY <1>15, <3>1 DEF Row
  <2>2. paths \in [1..Len(listed) -> Paths]
    BY <1>15, <2>1
  <2> HIDE DEF paths
  <2> QED
    BY <1>15, <2>2, MadeSeq
<1>17. PICK p : /\ p = PositionOf(prev, paths) /\ p \in 0..Len(listed)
                /\ p # 0 => paths[p] = prev
                /\ p = 0 => \A q \in DOMAIN paths : paths[q] # prev
  <2> HIDE DEF paths
  <2> QED
    BY <1>16, PositionFacts
<1>18. selected_file_index' = IF p = 0 THEN 1 ELSE p
  BY <1>3, <1>13, <1>17
<1>19. \A q \in 1..Len(listed) : paths[q] = files'[listed[q]].path
  BY <1>15
<1>20. DOMAIN paths = 1..Len(listed)
  BY <1>15
<1> HIDE DEF paths
<1>21. ChoiceHolds'
  <2>1. LastRow' = IF listed = <<>> THEN 1 ELSE Len(listed)
    BY <1>13 DEF LastRow
  <2>2. selected_file_index' \in 1..LastRow'
    BY <1>15, <1>17, <1>18, <2>1
  <2> QED
    BY <1>7, <1>13, <1>14, <2>2 DEF ChoiceHolds, ChoiceTypes, FilteredIsCurrent
<1>22. KeptSelection
  <2>1. CASE p # 0
    <3>1. /\ selected_file_index' \in DOMAIN filtered_file_indices'
          /\ filtered_file_indices'[selected_file_index'] = listed[p]
          /\ files'[listed[p]].path = prev
      <4>1. p \in 1..Len(listed) /\ selected_file_index' = p
        BY <1>15, <1>17, <1>18, <2>1
      <4>2. paths[p] = prev /\ paths[p] = files'[listed[p]].path
        BY <1>17, <1>19, <2>1, <4>1
      <4> QED
        BY <1>13, <1>15, <4>1, <4>2
    <3>2. get_selected_file' = prev
      BY <1>7, <1>21, <3>1, SelectedFileNext DEF SelectedFileFacts, ChoiceHolds
    <3> QED
      BY <1>2, <3>2 DEF KeptSelection
  <2>2. CASE p = 0
    BY <1>2, <1>13, <1>15, <1>17, <1>19, <1>20, <2>2 DEF KeptSelection
  <2> QED
    BY <2>1, <2>2
<1> QED
  BY <1>11, <1>12, <1>21, <1>22 DEF BInv, ChoiceHolds

-----------------------------------------------------------------------------
(* The threads of the scan.                                                 *)

\* What is sent comes behind what was.
LEMMA SentLast ==
  ASSUME ScanTypes, NEW event \in Events, channel' = Append(channel, event)
  PROVE  /\ channel' \in Seq(Events)
         /\ DOMAIN channel' = DOMAIN channel \cup {Len(channel) + 1}
         /\ \A d \in DOMAIN channel : /\ channel'[d] = channel[d]
                                      /\ d \in Nat /\ 0 < d /\ d < Len(channel) + 1
         /\ channel'[Len(channel) + 1] = event /\ Len(channel) + 1 \in Nat
         /\ \A e : Awaited(e, 0)' <=> Awaited(e, 0) \/ e = event
<1>1. /\ channel \in Seq(Events) /\ Len(channel) \in Nat /\ DOMAIN channel = 1..Len(channel)
  BY ElementOf DEF ScanTypes
<1>2. /\ channel' \in Seq(Events) /\ DOMAIN channel' = 1..(Len(channel) + 1)
      /\ \A i \in 1..Len(channel) : channel'[i] = channel[i]
      /\ channel'[Len(channel) + 1] = event
  BY <1>1, Appended
<1>3. /\ DOMAIN channel' = DOMAIN channel \cup {Len(channel) + 1}
      /\ \A d \in DOMAIN channel : channel'[d] = channel[d] /\ d \in Nat /\ 0 < d /\ d < Len(channel) + 1
      /\ Len(channel) + 1 \in Nat /\ 0 < Len(channel) + 1
  BY <1>1, <1>2
<1>4. ASSUME NEW e
      PROVE  Awaited(e, 0)' <=> Awaited(e, 0) \/ e = event
  BY <1>2, <1>3 DEF Awaited
<1> QED
  BY <1>2, <1>3, <1>4

LEMMA ReportHolds ==
  ASSUME BInv, ReportFound \/ ReportDone \/ \E k \in DOMAIN Walk : Analyze(k)
  PROVE  ListTypes' /\ ScanTypes' /\ ScanState'
<1>1. UNCHANGED <<files, pending_analysis, scan_done, data_loaded>>
  BY DEF ReportFound, ReportDone, Analyze, ui, list
<1>2. ListTypes' /\ ListTypes /\ ScanTypes
  BY <1>1 DEF BInv, ListTypes
<1>3. walked \in 0..(Len(Walk) + 1) /\ Len(Walk) \in Nat /\ analyzing \subseteq 1..Len(Walk)
  BY <1>2, WalkFacts DEF ScanTypes
<1>4. ~data_loaded
  <2> SUFFICES ASSUME data_loaded PROVE FALSE
    OBVIOUS
  <2>1. walked > Len(Walk) /\ analyzing = {}
    BY DEF BInv, ScanState, Settled
  <2> QED
    BY <1>3, <2>1 DEF ReportFound, ReportDone, Analyze
<1>5. InOrder /\ Agrees(Listed, 0)
  BY <1>4 DEF BInv, ScanState, Scanning
<1>6. PICK state : state = Listed /\ Agrees(state, 0)
  BY <1>5
<1>7. Listed' = state
  BY <1>1, <1>6 DEF Listed
<1>8. PICK N \in Nat : N = Len(state.files) /\ DOMAIN state.files = 1..N /\ N <= walked /\ N <= Len(Walk)
  BY <1>6, ElementOf DEF Agrees, ListState
<1>9. CASE ReportFound
  <2> DEFINE k == walked + 1
  <2>1. /\ k \in DOMAIN Walk /\ walked' = k /\ analyzing' = analyzing \cup {k}
        /\ channel' = Append(channel, Found(k)) /\ walked < k
    BY <1>3, <1>9, WalkFacts DEF ReportFound
  <2> HIDE DEF k
  <2>2. /\ channel' \in Seq(Events)
        /\ DOMAIN channel' = DOMAIN channel \cup {Len(channel) + 1}
        /\ \A d \in DOMAIN channel : channel'[d] = channel[d] /\ d \in Nat /\ 0 < d /\ d < Len(channel) + 1
        /\ channel'[Len(channel) + 1] = Found(k) /\ Len(channel) + 1 \in Nat
        /\ \A e : Awaited(e, 0)' <=> Awaited(e, 0) \/ e = Found(k)
    BY <1>2, <2>1, EventKinds, SentLast
  <2>3. \A d \in DOMAIN channel : channel[d] \in Events /\ Awaited(channel[d], 0)
    BY <1>2, <2>2, ElementOf DEF ScanTypes, Awaited
  <2>4. \A d \in DOMAIN channel : /\ channel[d] # Done
                                  /\ channel[d].kind = "Found" => channel[d].pos < k
                                  /\ channel[d].kind = "Analyzed" => channel[d].pos < k
    <3> TAKE d \in DOMAIN channel
    <3>1. \A j \in DOMAIN Walk : Awaited(Found(j), 0) \/ Awaited(Analyzed(j), 0) => j < k
      BY <1>3, <1>6, <2>1, WalkFacts DEF Agrees
    <3>2. ~Awaited(Done, 0)
      BY <1>3, <1>6, <1>9 DEF Agrees, ReportFound
    <3> QED
      BY <2>3, <3>1, <3>2, EventKinds
  <2>5. \A d \in DOMAIN channel : channel[d] # Found(k) /\ channel[d].kind # "Done"
    <3>1. \A e \in Events : e.kind = "Done" => e = Done
      BY EventKinds
    <3>2. Found(k).kind = "Found" /\ Found(k).pos = k /\ ~(k < k)
      BY <1>3, <2>1, EventKinds
    <3> QED
      BY <2>3, <2>4, <3>1, <3>2
  <2>6. InOrder'
    <3> SUFFICES ASSUME NEW d \in DOMAIN channel', NEW e \in DOMAIN channel'
                 PROVE  /\ channel'[d] = channel'[e] => d = e
                        /\ channel'[d].kind = "Found" =>
                             /\ channel'[e].kind = "Found" /\ channel'[d].pos < channel'[e].pos => d < e
                             /\ channel'[e].kind = "Analyzed" /\ channel'[d].pos = channel'[e].pos => d < e
                             /\ channel'[e].kind = "Done" => d < e
      BY DEF InOrder
    <3>1. CASE d \in DOMAIN channel /\ e \in DOMAIN channel
      BY <1>5, <2>2, <3>1 DEF InOrder
    <3>2. CASE d \in DOMAIN channel /\ e \notin DOMAIN channel
      <4>1. e = Len(channel) + 1 /\ d < e /\ channel'[e] = Found(k) /\ channel'[d] # Found(k)
        BY <2>2, <2>5, <3>2
      <4> QED
        BY <4>1
    <3>3. CASE d \notin DOMAIN channel
      <4>1. channel'[d] = Found(k) /\ channel'[d].kind = "Found" /\ channel'[d].pos = k
        BY <2>1, <2>2, <3>3, EventKinds
      <4>2. CASE e \notin DOMAIN channel
        <5>1. e = d
          BY <2>2, <3>3, <4>2
        <5>2. k \in Nat
          BY <2>1, WalkFacts
        <5> QED
          BY <4>1, <5>1, <5>2
      <4>3. CASE e \in DOMAIN channel
        <5>1. /\ channel'[e] # Found(k) /\ channel'[e].kind # "Done"
              /\ channel'[e].kind \in {"Found", "Analyzed"} => channel'[e].pos < k
          BY <2>2, <2>4, <2>5, <4>3
        <5>2. channel'[e].kind \in {"Found", "Analyzed"} => channel'[e].pos \in Nat
          BY <2>2, <2>3, <4>3, EventKinds, WalkFacts
        <5>3. k \in Nat
          BY <2>1, WalkFacts
        <5> QED
          BY <4>1, <5>1, <5>2, <5>3
      <4> QED
        BY <4>2, <4>3
    <3> QED
      BY <3>1, <3>2, <3>3
  <2>7. Agrees(state, 0)'
    <3>1. \A j \in DOMAIN Walk : /\ Awaited(Found(j), 0)' <=> Awaited(Found(j), 0) \/ j = k
                                 /\ Awaited(Analyzed(j), 0)' <=> Awaited(Analyzed(j), 0)
      BY <2>1, <2>2, EventKinds
    <3>2. Awaited(Done, 0)' <=> Awaited(Done, 0)
      BY <2>1, <2>2, EventKinds
    <3>3. \A j \in DOMAIN Walk : /\ j \in Nat /\ (j <= k <=> j <= walked \/ j = k)
                                 /\ ~(walked > Len(Walk)) /\ ~(k > Len(Walk))
      BY <1>3, <2>1, WalkFacts DEF k
    <3>4. N < k /\ ~AnalyzedIn(state.files, k) /\ N <= k
      BY <1>3, <1>8, <2>1, WalkFacts DEF AnalyzedIn
    <3> QED
      <4>1. ASSUME NEW j \in DOMAIN Walk
            PROVE  /\ Awaited(Found(j), 0)' <=> N < j /\ j <= k
                   /\ Awaited(Analyzed(j), 0)' <=>
                        j <= k /\ j \notin analyzing' /\ ~AnalyzedIn(state.files, j)
                   /\ AnalyzedIn(state.files, j) => j \notin analyzing'
        <5>1. /\ Awaited(Found(j), 0) <=> N < j /\ j <= walked
              /\ Awaited(Analyzed(j), 0) <=>
                   j <= walked /\ j \notin analyzing /\ ~AnalyzedIn(state.files, j)
              /\ AnalyzedIn(state.files, j) => j \notin analyzing
          BY <1>6, <1>8 DEF Agrees
        <5>2. j # k => (j \in analyzing' <=> j \in analyzing)
          BY <2>1
        <5>3. k \in analyzing' /\ ~(k <= walked)
          BY <1>3, <2>1, WalkFacts
        <5>4. CASE j = k
          <6>1. k \in Nat
            BY <2>1, WalkFacts
          <6>2. j \in analyzing' /\ ~(j <= walked) /\ N < j /\ j <= k
            BY <3>4, <5>3, <5>4, <6>1
          <6>3. Awaited(Found(j), 0)' /\ ~Awaited(Analyzed(j), 0)'
            BY <3>1, <5>1, <5>4, <6>2
          <6>4. ~AnalyzedIn(state.files, j)
            BY <3>4, <5>4
          <6> QED
            BY <6>2, <6>3, <6>4
        <5>5. CASE j # k
          BY <3>1, <3>3, <5>1, <5>2, <5>5
        <5> QED
          BY <5>4, <5>5
      <4>2. N <= k /\ N <= Len(Walk)
        BY <1>8, <3>4
      <4>3. (k > Len(Walk)) <=> (walked > Len(Walk))
        BY <2>1, <3>3
      <4> QED
        BY <1>6, <1>8, <2>1, <3>2, <4>1, <4>2, <4>3 DEF Agrees
  <2>8. ScanTypes'
    BY <1>2, <1>3, <2>1, <2>2, WalkFacts DEF ScanTypes, k
  <2> QED
    BY <1>1, <1>2, <1>4, <1>7, <2>6, <2>7, <2>8 DEF ScanState, Scanning
<1>10. CASE ReportDone
  <2>1. /\ walked = Len(Walk) /\ walked' = walked + 1 /\ analyzing' = analyzing
        /\ channel' = Append(channel, Done)
    BY <1>10 DEF ReportDone
  <2>2. /\ channel' \in Seq(Events)
        /\ DOMAIN channel' = DOMAIN channel \cup {Len(channel) + 1}
        /\ \A d \in DOMAIN channel : channel'[d] = channel[d] /\ d \in Nat /\ 0 < d /\ d < Len(channel) + 1
        /\ channel'[Len(channel) + 1] = Done /\ Len(channel) + 1 \in Nat
        /\ \A e : Awaited(e, 0)' <=> Awaited(e, 0) \/ e = Done
    BY <1>2, <2>1, EventKinds, SentLast
  <2>3. \A d \in DOMAIN channel : channel[d] # Done /\ channel[d].kind # "Done"
    <3>1. ~Awaited(Done, 0)
      BY <1>3, <1>6, <2>1 DEF Agrees
    <3>2. \A d \in DOMAIN channel : channel[d] \in Events /\ Awaited(channel[d], 0)
      BY <1>2, <2>2, ElementOf DEF ScanTypes, Awaited
    <3> QED
      BY <3>1, <3>2, EventKinds
  <2>4. InOrder'
    BY <1>5, <2>2, <2>3, EventKinds DEF InOrder
  <2>5. Agrees(state, 0)'
    <3>1. \A j \in DOMAIN Walk : /\ Awaited(Found(j), 0)' <=> Awaited(Found(j), 0)
                                 /\ Awaited(Analyzed(j), 0)' <=> Awaited(Analyzed(j), 0)
      BY <2>2, EventKinds
    <3>2. Awaited(Done, 0)'
      BY <2>2
    <3>3. \A j \in DOMAIN Walk : j <= walked /\ j <= walked'
      BY <1>3, <2>1, WalkFacts
    <3>4. walked' > Len(Walk) /\ ~(walked > Len(Walk)) /\ N <= walked'
      BY <1>3, <1>8, <2>1
    <3> QED
      BY <1>6, <1>8, <2>1, <3>1, <3>2, <3>3, <3>4 DEF Agrees
  <2>6. ScanTypes'
    BY <1>2, <1>3, <2>1, <2>2, WalkFacts DEF ScanTypes
  <2> QED
    BY <1>1, <1>2, <1>4, <1>7, <2>4, <2>5, <2>6 DEF ScanState, Scanning
<1>11. CASE \E k \in DOMAIN Walk : Analyze(k)
  <2>1. PICK k \in DOMAIN Walk : /\ k \in analyzing /\ analyzing' = analyzing \ {k}
                                 /\ channel' = Append(channel, Analyzed(k)) /\ walked' = walked
    BY <1>11 DEF Analyze
  <2>2. /\ channel' \in Seq(Events)
        /\ DOMAIN channel' = DOMAIN channel \cup {Len(channel) + 1}
        /\ \A d \in DOMAIN channel : channel'[d] = channel[d] /\ d \in Nat /\ 0 < d /\ d < Len(channel) + 1
        /\ channel'[Len(channel) + 1] = Analyzed(k) /\ Len(channel) + 1 \in Nat
        /\ \A e : Awaited(e, 0)' <=> Awaited(e, 0) \/ e = Analyzed(k)
    BY <1>2, <2>1, EventKinds, SentLast
  <2>3. \A d \in DOMAIN channel : channel[d] # Analyzed(k)
    <3>1. ~Awaited(Analyzed(k), 0)
      BY <1>6, <2>1 DEF Agrees
    <3> QED
      BY <2>2, <3>1 DEF Awaited
  <2>4. InOrder'
    BY <1>5, <2>1, <2>2, <2>3, EventKinds DEF InOrder
  <2>5. Agrees(state, 0)'
    <3>1. \A j \in DOMAIN Walk : /\ Awaited(Found(j), 0)' <=> Awaited(Found(j), 0)
                                 /\ Awaited(Analyzed(j), 0)' <=> Awaited(Analyzed(j), 0) \/ j = k
      BY <2>1, <2>2, EventKinds
    <3>2. Awaited(Done, 0)' <=> Awaited(Done, 0)
      BY <2>2, EventKinds
    <3>3. k <= walked /\ ~AnalyzedIn(state.files, k)
      BY <1>2, <1>6, <2>1 DEF Agrees, ScanTypes
    <3> QED
      BY <1>6, <1>8, <2>1, <3>1, <3>2, <3>3 DEF Agrees
  <2>6. ScanTypes'
    BY <1>2, <2>1, <2>2 DEF ScanTypes
  <2> QED
    BY <1>1, <1>2, <1>4, <1>7, <2>4, <2>5, <2>6 DEF ScanState, Scanning
<1> QED
  BY <1>9, <1>10, <1>11

LEMMA ScanHolds ==
  ASSUME BInv, Scan
  PROVE  BInv' /\ KeptSelection
<1>1. ListTypes' /\ ScanTypes' /\ ScanState'
  BY ReportHolds DEF Scan
<1>2. UNCHANGED <<list, choice, filters, file_sort, mode, error_popup, panel, phase, opened>>
  BY DEF Scan, ReportFound, ReportDone, Analyze, ui
<1>3. UNCHANGED <<files, filtered_file_indices, selected_file_index>>
  BY <1>2 DEF list, choice
<1>4. ChoiceHolds'
  BY <1>2, <1>3, SelectionTypes, ChoiceUntouched DEF BInv, ChoiceHolds
<1>5. ViewTypes'
  BY <1>2 DEF BInv, ViewTypes
<1>6. get_selected_file' = get_selected_file
  BY <1>3 DEF get_selected_file, selected_file_real_index, Entry
<1> QED
  BY <1>1, <1>4, <1>5, <1>6 DEF BInv, ChoiceHolds, KeptSelection

-----------------------------------------------------------------------------
(* One turn: the scan is polled and the preview brought up to date.         *)

LEMMA FileChoices ==
  ASSUME NEW f \in Paths
  PROVE  f # NoFile /\ Content[f].opens \in BOOLEAN
  BY BrowserAssumption

LEMMA PanelHolds ==
  ASSUME panel \in Panel, panel.rx.sent => panel.rx.file # NoFile,
         NEW selected \in File, NEW after \in PreviewRequested(PreviewApplied(selected), selected)
  PROVE  LET next == refresh_tile_preview(after, selected) IN
         /\ next \in Panel /\ (next.rx.sent => next.rx.file # NoFile)
         /\ next.shown.path \in {panel.shown.path, selected}
<1>1. \A f \in Paths : Preview(f) \in Shown /\ Preview(f).path = f
  BY FileChoices DEF Preview, Shown, File
<1>2. /\ panel.shown \in Shown /\ panel.rx \in [file : File, sent : BOOLEAN]
      /\ \A shown \in Shown, rx \in [file : File, sent : BOOLEAN] :
            [shown |-> shown, rx |-> rx] \in Panel
  BY DEF Panel
<1>3. Idle \in [file : File, sent : BOOLEAN] /\ Idle.sent = FALSE
  BY DEF Idle, File
<1> DEFINE before == PreviewApplied(selected)
<1>4. /\ before \in Panel /\ (before.rx.sent => before.rx.file # NoFile)
      /\ before.shown.path \in {panel.shown.path, selected}
  <2>1. CASE ~panel.rx.sent
    BY <2>1 DEF PreviewApplied
  <2>2. CASE panel.rx.sent /\ panel.rx.file = selected
    <3>1. selected \in Paths
      BY <2>2 DEF File
    <3>2. before = [shown |-> Preview(selected), rx |-> Idle]
      BY <2>2 DEF PreviewApplied
    <3> QED
      BY <1>1, <1>2, <1>3, <3>1, <3>2
  <2>3. CASE panel.rx.sent /\ panel.rx.file # selected
    <3>1. PICK shown : shown = [panel.shown EXCEPT !.requested = NoFile]
      OBVIOUS
    <3>2. shown \in Shown /\ shown.path = panel.shown.path
      BY <1>2, <3>1 DEF Shown, File
    <3>3. before = [shown |-> shown, rx |-> Idle]
      BY <2>3, <3>1 DEF PreviewApplied
    <3>4. before \in Panel /\ before.rx = Idle /\ before.shown = shown
      BY <1>2, <1>3, <3>2, <3>3
    <3> QED
      BY <1>3, <3>2, <3>4
  <2> QED
    BY <2>1, <2>2, <2>3
<1> HIDE DEF before
<1>5. /\ after \in Panel /\ (after.rx.sent => after.rx.file # NoFile)
      /\ after.shown.path \in {panel.shown.path, selected}
  <2>1. CASE after = before
    BY <1>4, <2>1
  <2>2. CASE after # before
    <3>1. selected # NoFile
      BY <2>2 DEF PreviewRequested, before
    <3>2. selected \in Paths
      BY <3>1 DEF File
    <3>3. \/ after = [shown |-> [before.shown EXCEPT !.requested = selected],
                      rx    |-> [file |-> selected, sent |-> FALSE]]
          \/ after = [before EXCEPT !.shown = [Preview(selected) EXCEPT !.requested = before.shown.requested]]
      BY <2>2 DEF PreviewRequested, before
    <3>4. CASE after = [shown |-> [before.shown EXCEPT !.requested = selected],
                        rx    |-> [file |-> selected, sent |-> FALSE]]
      <4>1. /\ [before.shown EXCEPT !.requested = selected] \in Shown
            /\ [before.shown EXCEPT !.requested = selected].path = before.shown.path
        BY <1>4 DEF Panel, Shown
      <4>2. [file |-> selected, sent |-> FALSE] \in [file : File, sent : BOOLEAN]
        OBVIOUS
      <4> QED
        BY <1>2, <1>4, <3>4, <4>1, <4>2
    <3>5. CASE after = [before EXCEPT !.shown = [Preview(selected) EXCEPT !.requested = before.shown.requested]]
      <4>1. PICK shown : shown = [Preview(selected) EXCEPT !.requested = before.shown.requested]
        OBVIOUS
      <4>2. shown \in Shown /\ shown.path = selected
        BY <1>1, <1>4, <3>2, <4>1 DEF Panel, Shown
      <4>3. after = [before EXCEPT !.shown = shown]
        BY <3>5, <4>1
      <4>4. after \in Panel /\ after.rx = before.rx /\ after.shown = shown
        BY <1>4, <4>2, <4>3 DEF Panel
      <4> QED
        BY <1>4, <4>2, <4>4
    <3> QED
      BY <3>3, <3>4, <3>5
  <2> QED
    BY <2>1, <2>2
<1>6. NoPreview \in Shown /\ NoPreview.path = NoFile
  BY DEF NoPreview, Shown, File
<1>7. CASE mode = "FileBrowser" /\ selected = NoFile
  <2>1. refresh_tile_preview(after, selected) = [after EXCEPT !.shown = NoPreview]
    BY <1>7 DEF refresh_tile_preview
  <2>2. /\ [after EXCEPT !.shown = NoPreview] \in Panel
        /\ [after EXCEPT !.shown = NoPreview].rx = after.rx
        /\ [after EXCEPT !.shown = NoPreview].shown = NoPreview
    BY <1>5, <1>6 DEF Panel
  <2> QED
    BY <1>5, <1>6, <1>7, <2>1, <2>2
<1>8. CASE ~(mode = "FileBrowser" /\ selected = NoFile)
  BY <1>5, <1>8 DEF refresh_tile_preview
<1> QED
  BY <1>7, <1>8

KeptPreview ==
    panel.shown.path = panel'.shown.path \/ panel'.shown.path = get_selected_file'

LEMMA TickHolds ==
  ASSUME BInv, Tick
  PROVE  BInv' /\ KeptSelection /\ KeptPreview
<1>1. /\ poll_scan /\ UNCHANGED <<walked, analyzing>> /\ UNCHANGED filters
      /\ UNCHANGED <<file_sort, mode, error_popup>> /\ phase' = "event"
  BY DEF Tick
<1>2. ListTypes' /\ ScanTypes' /\ ScanState'
  BY <1>1, PollLists
<1>3. ChoiceHolds' /\ (Distinct' => KeptSelection)
  BY <1>1, PollChoice
<1>4. PICK selected : selected = get_selected_file'
  OBVIOUS
<1>5. selected \in File
  <2>1. \A i \in DOMAIN files' : files'[i].path \in Paths
    <3>1. files' \in Seq(Row)
      BY <1>2 DEF ListTypes
    <3> TAKE i \in DOMAIN files'
    <3>2. files'[i] \in Row
      BY <3>1, ElementOf
    <3> QED
      BY <3>2 DEF Row
  <2> QED
    BY <1>2, <1>3, <1>4, <2>1, SelectedFileNext DEF SelectedFileFacts, ChoiceHolds, ListTypes, File
<1>6. PICK after \in PreviewRequested(PreviewApplied(selected), selected) :
        panel' = refresh_tile_preview(after, selected)
  BY <1>4 DEF Tick
<1>7. /\ panel' \in Panel /\ (panel'.rx.sent => panel'.rx.file # NoFile)
      /\ panel'.shown.path \in {panel.shown.path, selected}
  BY <1>5, <1>6, PanelHolds DEF BInv, ViewTypes
<1>8. opened' \subseteq {f \in Paths : Content[f].opens}
  BY DEF Tick, BInv, ViewTypes
<1>9. ViewTypes'
  BY <1>1, <1>7, <1>8 DEF BInv, ViewTypes
<1>10. BInv'
  BY <1>2, <1>3, <1>9 DEF BInv, ChoiceHolds
<1>11. Distinct'
  BY <1>10, RowsDistinctNext DEF DistinctFact
<1> QED
  BY <1>3, <1>4, <1>7, <1>10, <1>11 DEF KeptPreview

-----------------------------------------------------------------------------
(* The theorems.                                                            *)

LEMMA InitHolds ==
  ASSUME Init
  PROVE  BInv
<1>1. ListTypes /\ ScanTypes /\ ViewTypes
  <2>1. <<>> \in Seq(Row) /\ <<>> \in Seq(Events)
    OBVIOUS
  <2>2. ListTypes
    BY <2>1 DEF Init, ListTypes
  <2>3. ScanTypes
    <3>1. 0 \in 0..(Len(Walk) + 1)
      BY WalkFacts
    <3> QED
      BY <2>1, <3>1 DEF Init, ScanTypes
  <2>4. NoPreview \in Shown /\ Idle \in [file : File, sent : BOOLEAN] /\ Idle.sent = FALSE
    BY DEF NoPreview, Shown, File, Idle
  <2>5. [shown |-> NoPreview, rx |-> Idle] \in Panel
    BY <2>4 DEF Panel
  <2>6. ViewTypes
    BY <2>4, <2>5 DEF Init, ViewTypes
  <2> QED
    BY <2>2, <2>3, <2>6
<1>2. ChoiceTypes
  BY DEF Init, ChoiceTypes, LastRow
<1>3. FilteredIsCurrent
  <2>1. Len(Matching(files)) = 0 /\ Matching(files) \in Seq(DOMAIN files)
    BY <1>1, MatchingSelects DEF MatchingFacts, ListFacts, ListTypes, Init, has_filters
  <2> QED
    BY <2>1 DEF Init, FilteredIsCurrent
<1>4. Scanning
  <2>1. InOrder /\ \A e : ~Awaited(e, 0)
    BY DEF Init, InOrder, Awaited
  <2>2. Loading(files) = {} /\ Cardinality(Loading(files)) = 0
    BY FS_EmptySet DEF Init, Loading
  <2>3. /\ Listed \in ListState /\ Listed.files = <<>> /\ Listed.pending = 0 /\ Listed.done = FALSE
    <3>1. <<>> \in Seq(Row)
      OBVIOUS
    <3> QED
      BY <3>1 DEF Init, Listed, ListState
  <2>4. \A k \in DOMAIN Walk : ~(k <= walked) /\ ~AnalyzedIn(<<>>, k) /\ ~(walked > Len(Walk))
    BY WalkFacts DEF Init, AnalyzedIn
  <2>5. ~(walked > Len(Walk)) /\ walked = 0 /\ Len(Walk) \in Nat
    BY WalkFacts DEF Init
  <2>6. Loading(<<>>) = {}
    BY DEF Loading
  <2> QED
    <3>1. PICK state : state = Listed
      OBVIOUS
    <3>2. /\ state \in ListState /\ state.files = <<>> /\ state.pending = 0 /\ state.done = FALSE
          /\ DOMAIN state.files = {} /\ Len(state.files) = 0 /\ Loading(state.files) = {}
      BY <2>3, <2>6, <3>1
    <3>3. \A k \in DOMAIN Walk : ~AnalyzedIn(state.files, k)
      BY <3>2 DEF AnalyzedIn
    <3>4. \A k \in DOMAIN Walk :
            /\ Awaited(Found(k), 0) <=> Len(state.files) < k /\ k <= walked
            /\ Awaited(Analyzed(k), 0) <=>
                 k <= walked /\ k \notin analyzing /\ ~AnalyzedIn(state.files, k)
            /\ AnalyzedIn(state.files, k) => k \notin analyzing
      BY <2>1, <2>4, <3>3
    <3>5. Awaited(Done, 0) <=> walked > Len(Walk) /\ ~state.done
      BY <2>1, <2>5
    <3>6. state.pending = Cardinality(Loading(state.files))
      BY <3>2, FS_EmptySet
    <3>7. Len(state.files) <= walked /\ Len(state.files) <= Len(Walk)
      BY <2>5, <3>2
    <3>8. Agrees(state, 0)
      BY <3>2, <3>4, <3>5, <3>6, <3>7 DEF Agrees
    <3> QED
      BY <2>1, <3>1, <3>8 DEF Scanning
<1> QED
  BY <1>1, <1>2, <1>3, <1>4 DEF BInv, ScanState, Init

LEMMA StepHolds ==
  ASSUME BInv, [Next]_vars
  PROVE  BInv' /\ (KeptSelection \/ UserMoves) /\ KeptPreview
<1>1. CASE Tick
  BY <1>1, TickHolds
<1>2. CASE Event
  <2>1. KeptPreview
    <3>1. UNCHANGED panel
      BY <1>2 DEF Event, NoEvent, DismissPopup, UserMoves, move_by, Click, EnterRow, handle_enter,
                  handle_escape, handle_filter_click, handle_file_header_click
    <3> QED
      BY <3>1 DEF KeptPreview
  <2>2. CASE NoEvent \/ DismissPopup \/ handle_escape
    BY <2>1, <2>2, OtherEventsHold
  <2>3. CASE UserMoves
    <3>1. CASE \E n \in {1, Len(Walk)}, down \in BOOLEAN : move_by(n, down)
      BY <2>1, <2>3, <3>1, WalkFacts, MoveHolds
    <3>2. CASE \E row \in DOMAIN filtered_file_indices, double \in BOOLEAN : Click(row, double)
      BY <2>1, <2>3, <3>2, ClickHolds
    <3> QED
      BY <2>3, <3>1, <3>2 DEF UserMoves
  <2>4. CASE handle_enter
    BY <2>1, <2>4, EnterHolds
  <2>5. CASE handle_filter_click
    BY <2>1, <2>5, FilterClickHolds
  <2>6. CASE \E col \in Columns : handle_file_header_click(col)
    BY <2>1, <2>6, HeaderClickHolds
  <2> QED
    BY <1>2, <2>2, <2>3, <2>4, <2>5, <2>6 DEF Event
<1>3. CASE Scan
  <2>1. KeptPreview
    BY <1>3 DEF Scan, ReportFound, ReportDone, Analyze, ui, KeptPreview
  <2> QED
    BY <1>3, <2>1, ScanHolds
<1>4. CASE LoadPreview
  <2>1. panel'.shown = panel.shown
    BY <1>4 DEF LoadPreview, BInv, ViewTypes, Panel
  <2> QED
    BY <1>4, <2>1, OtherEventsHold DEF KeptPreview
<1>5. CASE UNCHANGED vars
  <2>1. ViewTypes'
    BY <1>5 DEF vars, BInv, ViewTypes
  <2> QED
    BY <1>5, <2>1, StillStep DEF vars, KeptPreview
<1> QED
  BY <1>1, <1>2, <1>3, <1>4, <1>5 DEF Next

LEMMA BInvAlways == Spec => []BInv
<1>1. BInv /\ [Next]_vars => BInv'
  BY StepHolds
<1> QED
  BY <1>1, InitHolds, PTL DEF Spec

\* The files and what is shown of them have their types, and the list and the
\* selection refer to rows that are there (state.rs:732).
THEOREM BrowserTypesHold == Spec => []TypeOK
<1>1. BInv => TypeOK
  <2> SUFFICES ASSUME BInv PROVE TypeOK
    OBVIOUS
  <2>1. /\ \A i \in DOMAIN files : files[i] \in Row
        /\ \A p \in DOMAIN filtered_file_indices : filtered_file_indices[p] \in DOMAIN files
    BY ElementOf DEF BInv, ListTypes, ChoiceTypes
  <2>2. pending_analysis \in 0..Len(Walk)
    BY PendingIsLoading
  <2>3. panel.rx \in [file : File, sent : BOOLEAN] /\ panel.shown \in Shown
    BY DEF BInv, ViewTypes, Panel
  <2> QED
    BY <2>1, <2>2, <2>3 DEF BInv, ListTypes, ChoiceTypes, ViewTypes, ScanTypes, TypeOK, Row, File, Shown
<1> QED
  BY <1>1, BInvAlways, PTL

\* Whatever order results come in, every file found has its own row with its own
\* result, and when the scan ends none is missing or awaited (state.rs:342, :358).
THEOREM RowsCorrect == Spec => []RowsAreTheWalk
<1>1. BInv => RowsAreTheWalk
  <2> SUFFICES ASSUME BInv PROVE RowsAreTheWalk
    OBVIOUS
  <2> QED
    BY RowsDistinct, PendingIsLoading, RowsCoverTheWalk DEF DistinctFact, Distinct, RowsAreTheWalk, Loading
<1> QED
  BY <1>1, BInvAlways, PTL

\* The list is what the filters select of the rows, after every step (state.rs:326).
THEOREM ListCorrect == Spec => []FilteredIsCurrent
<1>1. BInv => FilteredIsCurrent
  BY DEF BInv
<1> QED
  BY <1>1, BInvAlways, PTL

\* No step but the user's takes the selection off a listed file, and the panel turns
\* to the selected file only (state.rs:373, :775, mod.rs:604).
THEOREM SelectionCorrect == Spec => FollowsTheFile
<1>1. BInv /\ [Next]_vars => [SelectionKept /\ PreviewKept]_vars
  <2> SUFFICES ASSUME BInv, [Next]_vars PROVE SelectionKept /\ PreviewKept
    OBVIOUS
  <2>1. (KeptSelection \/ UserMoves) /\ KeptPreview
    BY StepHolds
  <2> QED
    BY <2>1 DEF KeptSelection, KeptPreview, SelectionKept, PreviewKept
<1> QED
  BY <1>1, BInvAlways, PTL DEF Spec, FollowsTheFile
=============================================================================
