----------------------------- MODULE FileBrowser ----------------------------
(***************************************************************************)
(* The viewer's directory browser: the scan that fills its list in the      *)
(* background (rust/mlt/src/ui/scan.rs), the list with its filters, its      *)
(* order and its selection (ui/state.rs), and the preview of the selected    *)
(* file, which a thread loads (tick in ui/mod.rs).                          *)
(*                                                                         *)
(* One turn of the UI loop is Tick (poll_scan, the preview, the drawing)     *)
(* and then at most one event.  Indices count from 1.  A click carries its   *)
(* row; the 400 ms that make two clicks a double click are left out.  The    *)
(* feature tree that an opened file shows is left out but for Escape, and    *)
(* so are the help, the panels' sizes and quitting, which ends the process.  *)
(***************************************************************************)
EXTENDS Naturals, Sequences, FiniteSets

CONSTANTS Walk,      \* the tile files of the directory, in the order of the walk
          Content,   \* Content[path]: its extension, what analysis makes of it,
                     \* and whether it decodes when it is opened
          NoFile     \* no file: nothing selected, nothing previewed

Paths == {Walk[k] : k \in DOMAIN Walk}

ASSUME BrowserAssumption ==
    /\ Walk \in Seq(Paths)
    /\ \A j, k \in DOMAIN Walk : Walk[j] = Walk[k] => j = k
    /\ NoFile \notin Paths
    /\ Content \in [Paths -> [ext : STRING, row : {"Info", "Error"}, traits : SUBSET STRING,
                              size : Nat, opens : BOOLEAN]]

VARIABLES files,       \* the rows: [path, row], row "Loading", "Info" or "Error"
          pending_analysis, scan_done,
          data_loaded, \* scan_rx is gone
          filtered_file_indices, selected_file_index,
          file_sort,   \* <<>> or <<column, ascending>>
          ext_filters,
          trait_filters,   \* geom_filters and algo_filters, which select alike
          mode,        \* "FileBrowser" or "LayerOverview"
          error_popup,
          panel,       \* preview_tile_path, preview, preview_error,
                       \* preview_load_requested and preview_rx
          phase,       \* "tick" or "event"
          walked,      \* files the walk has reported; Len(Walk) + 1 once it is done
          analyzing,   \* positions whose analysis runs on the pool
          channel,     \* scan events sent and not yet polled
          opened       \* files that a load may have put into tile_cache

scan == <<walked, analyzing, channel>>
list == <<files, pending_analysis, scan_done, data_loaded>>
choice == <<filtered_file_indices, selected_file_index>>
filters == <<ext_filters, trait_filters>>
vars == <<scan, list, choice, filters, file_sort, mode, error_popup, panel, phase, opened>>

NoPreview == [path |-> NoFile, preview |-> NoFile, error |-> FALSE, requested |-> NoFile]
Idle == [file |-> NoFile, sent |-> FALSE]     \* preview_rx: None

Init ==
    /\ files = <<>> /\ pending_analysis = 0 /\ scan_done = FALSE /\ data_loaded = FALSE
    /\ filtered_file_indices = <<>> /\ selected_file_index = 1
    /\ file_sort = <<>> /\ ext_filters = {} /\ trait_filters = {}
    /\ mode = "FileBrowser" /\ error_popup = FALSE
    /\ panel = [shown |-> NoPreview, rx |-> Idle]
    /\ phase = "tick"
    /\ walked = 0 /\ analyzing = {} /\ channel = <<>> /\ opened = {}

-----------------------------------------------------------------------------
(* The list and its selection.                                              *)

Entry(index) == IF index \in DOMAIN files THEN files[index].path ELSE NoFile

selected_file_real_index ==
    IF selected_file_index \in DOMAIN filtered_file_indices
    THEN filtered_file_indices[selected_file_index] ELSE 0

get_selected_file == Entry(selected_file_real_index)

has_filters == ext_filters # {} \/ trait_filters # {}

\* An extension is one of those chosen, and an analyzed file has every trait chosen.
Passes(row) ==
    /\ ext_filters = {} \/ Content[row.path].ext \in ext_filters
    /\ row.row = "Info" => trait_filters \subseteq Content[row.path].traits

\* The rows that pass, by their indices.
Matching(rows) ==
    LET kept[n \in 0..Len(rows)] ==
          IF n = 0 THEN <<>>
          ELSE IF Passes(rows[n]) THEN Append(kept[n - 1], n) ELSE kept[n - 1]
    IN kept[Len(rows)]

PositionOf(index, indices) ==
    IF \E p \in DOMAIN indices : indices[p] = index
    THEN CHOOSE p \in DOMAIN indices : indices[p] = index ELSE 0

\* Mutant: the selection stays at its place in the list.
rebuild_in_place(prev) ==
    /\ filtered_file_indices' = Matching(files)'
    /\ UNCHANGED selected_file_index

\* The selection stays on the row prev, and is the first one if that is gone.
rebuild_filtered_files(prev) ==
    /\ filtered_file_indices' = Matching(files)'
    /\ selected_file_index' = LET p == PositionOf(prev, filtered_file_indices') IN IF p = 0 THEN 1 ELSE p

-----------------------------------------------------------------------------
(* The scan: a thread walks the directory, the pool analyzes the files.     *)

Found(k) == [kind |-> "Found", pos |-> k]
Analyzed(k) == [kind |-> "Analyzed", pos |-> k]
Done == [kind |-> "Done", pos |-> 0]

ui == <<list, choice, filters, file_sort, mode, error_popup, panel, phase, opened>>

ReportFound ==
    /\ walked < Len(Walk)
    /\ walked' = walked + 1
    /\ channel' = Append(channel, Found(walked + 1))
    /\ analyzing' = analyzing \cup {walked + 1}
    /\ UNCHANGED ui

ReportDone ==
    /\ walked = Len(Walk)
    /\ walked' = walked + 1
    /\ channel' = Append(channel, Done)
    /\ UNCHANGED <<analyzing, ui>>

Analyze(k) ==
    /\ k \in analyzing
    /\ analyzing' = analyzing \ {k}
    /\ channel' = Append(channel, Analyzed(k))
    /\ UNCHANGED <<walked, ui>>

SendersGone == walked > Len(Walk) /\ analyzing = {}

apply_scan_event(state, event) ==
    CASE event.kind = "Found" ->
           [state EXCEPT !.files = Append(@, [path |-> Walk[event.pos], row |-> "Loading"]),
                         !.pending = @ + 1]
      [] event.kind = "Analyzed" ->
           [state EXCEPT !.files = IF event.pos \notin DOMAIN @ THEN @
                                   ELSE [@ EXCEPT ![event.pos] = [path |-> Walk[event.pos],
                                                                  row  |-> Content[Walk[event.pos]].row]],
                         !.pending = IF @ = 0 THEN 0 ELSE @ - 1]
      [] event.kind = "Done" -> [state EXCEPT !.done = TRUE]

Applied(events) ==
    LET after[n \in 0..Len(events)] ==
          IF n = 0 THEN [files |-> files, pending |-> pending_analysis, done |-> scan_done]
          ELSE apply_scan_event(after[n - 1], events[n])
    IN after[Len(events)]

\* Mutant: the rows that came are appended, filters or not.
refresh_by_appending(first_new) ==
    /\ filtered_file_indices' = filtered_file_indices
                                \o [i \in 1..(Len(files') - first_new) |-> first_new + i]
    /\ UNCHANGED selected_file_index

refresh_filtered_files(first_new) ==
    IF has_filters THEN rebuild_filtered_files(selected_file_real_index)
    ELSE /\ filtered_file_indices' = filtered_file_indices
                                     \o [i \in 1..(Len(files') - first_new) |-> first_new + i]
         /\ UNCHANGED selected_file_index

\* A disconnected channel ends the scan; so does Done once no analysis is awaited.
poll_scan ==
    IF data_loaded THEN UNCHANGED <<list, choice, channel>>
    ELSE LET state == Applied(channel) IN
         /\ files' = state.files
         /\ pending_analysis' = IF SendersGone THEN 0 ELSE state.pending
         /\ scan_done' = (state.done \/ SendersGone)
         /\ data_loaded' = (scan_done' /\ pending_analysis' = 0)
         /\ channel' = <<>>
         /\ IF channel # <<>> \/ SendersGone THEN refresh_filtered_files(Len(files))
            ELSE UNCHANGED choice

-----------------------------------------------------------------------------
(* The preview.                                                             *)

\* What a load of the file shows: its tile, or that it failed.
Preview(file) ==
    [path |-> file, preview |-> IF Content[file].opens THEN file ELSE NoFile,
     error |-> ~Content[file].opens, requested |-> NoFile]

\* Mutant: an answer that comes too late leaves the request standing.
PreviewAppliedOnly(selected) ==
    IF ~panel.rx.sent THEN panel
    ELSE [shown |-> IF panel.rx.file = selected THEN Preview(selected) ELSE panel.shown, rx |-> Idle]

\* Mutant: the answer is shown whatever is selected by now.
PreviewOfAny(selected) ==
    IF ~panel.rx.sent THEN panel ELSE [shown |-> Preview(panel.rx.file), rx |-> Idle]

\* An answer is shown if its file is still selected; the request is over either way.
PreviewApplied(selected) ==
    IF ~panel.rx.sent THEN panel
    ELSE [shown |-> IF panel.rx.file = selected THEN Preview(selected)
                    ELSE [panel.shown EXCEPT !.requested = NoFile],
          rx |-> Idle]

\* The selected file comes from the cache, which evicts as it likes, or from a new
\* thread; the answer to an earlier request is then never read.
PreviewRequested(before, selected) ==
    IF mode # "FileBrowser" \/ selected = NoFile
       \/ selected \in {before.shown.path, before.shown.requested} THEN {before}
    ELSE {[shown |-> [before.shown EXCEPT !.requested = selected],
           rx    |-> [file |-> selected, sent |-> FALSE]]}
         \cup IF selected \in opened
              THEN {[before EXCEPT !.shown = [Preview(selected) EXCEPT !.requested = before.shown.requested]]}
              ELSE {}

refresh_tile_preview(before, selected) ==
    IF mode = "FileBrowser" /\ selected = NoFile THEN [before EXCEPT !.shown = NoPreview] ELSE before

\* The thread: its tile is in the cache before its answer is sent.
LoadPreview ==
    /\ panel.rx.file # NoFile /\ ~panel.rx.sent
    /\ panel' = [panel EXCEPT !.rx.sent = TRUE]
    /\ UNCHANGED <<scan, list, choice, filters, file_sort, mode, error_popup, phase, opened>>

Tick ==
    /\ phase = "tick"
    /\ UNCHANGED <<walked, analyzing, filters, file_sort, mode, error_popup>>
    /\ poll_scan
    /\ \E after \in PreviewRequested(PreviewApplied(get_selected_file'), get_selected_file') :
          panel' = refresh_tile_preview(after, get_selected_file')
    /\ opened' = opened \cup {f \in Paths : f = panel'.rx.file /\ Content[f].opens}
    /\ phase' = "event"

-----------------------------------------------------------------------------
(* The events.                                                              *)

EndTurn == phase = "event" /\ phase' = "tick"

Browsing == mode = "FileBrowser" /\ ~error_popup

\* The poll timed out, or the event is one that changes nothing here.
NoEvent == EndTurn /\ UNCHANGED <<scan, list, choice, filters, file_sort, mode, error_popup, panel, opened>>

\* Any key or click closes the popup and does nothing else.
DismissPopup ==
    /\ EndTurn /\ error_popup
    /\ error_popup' = FALSE
    /\ UNCHANGED <<scan, list, choice, filters, file_sort, mode, panel, opened>>

Smaller(a, b) == IF a < b THEN a ELSE b
LastRow == IF filtered_file_indices = <<>> THEN 1 ELSE Len(filtered_file_indices)

\* One row, a page, or to the end of the list.
move_by(n, down) ==
    /\ EndTurn /\ Browsing
    /\ selected_file_index' = IF down THEN Smaller(selected_file_index + n, LastRow)
                              ELSE Smaller(IF selected_file_index > n THEN selected_file_index - n ELSE 1, LastRow)
    /\ UNCHANGED <<scan, list, filtered_file_indices, filters, file_sort, mode, error_popup, panel, opened>>

RowOf(index) == files[filtered_file_indices[index]]

\* handle_enter on the row at index: an unreadable file is a popup.
EnterRow(index) ==
    /\ IF RowOf(index).row = "Error" \/ ~Content[RowOf(index).path].opens
       THEN error_popup' = TRUE /\ UNCHANGED <<mode, opened>>
       ELSE /\ mode' = "LayerOverview"
            /\ opened' = opened \cup {RowOf(index).path}
            /\ UNCHANGED error_popup
    /\ UNCHANGED <<scan, list, filtered_file_indices, filters, file_sort, panel>>

handle_enter ==
    /\ EndTurn /\ Browsing
    /\ selected_file_index \in DOMAIN filtered_file_indices
    /\ EnterRow(selected_file_index)
    /\ UNCHANGED selected_file_index

Click(row, double) ==
    /\ EndTurn /\ Browsing
    /\ row \in DOMAIN filtered_file_indices
    /\ selected_file_index' = row
    /\ IF double THEN EnterRow(row)
       ELSE UNCHANGED <<scan, list, filtered_file_indices, filters, file_sort, mode, error_popup, panel, opened>>

handle_escape ==
    /\ EndTurn /\ mode = "LayerOverview" /\ ~error_popup
    /\ mode' = "FileBrowser"
    /\ UNCHANGED <<scan, list, choice, filters, file_sort, error_popup, panel, opened>>

\* The filters on offer are those of the files found and analyzed so far.
handle_filter_click ==
    /\ EndTurn /\ Browsing
    /\ LET toggled(set, value) == IF value \in set THEN set \ {value} ELSE set \cup {value} IN
       \/ ext_filters' = {} /\ trait_filters' = {}
       \/ \E i \in DOMAIN files : ext_filters' = toggled(ext_filters, Content[files[i].path].ext)
          /\ UNCHANGED trait_filters
       \/ \E i \in DOMAIN files : \E t \in Content[files[i].path].traits :
          /\ files[i].row = "Info"
          /\ trait_filters' = toggled(trait_filters, t)
          /\ UNCHANGED ext_filters
    /\ UNCHANGED <<scan, list, file_sort, mode, error_popup, panel, opened>>
    /\ rebuild_filtered_files(selected_file_real_index)

\* The key of a row: analyzed files come first and compare by the column, files
\* that failed by their size or their path.
Columns == {"File", "Size"}
PathRank(path) == CHOOSE k \in DOMAIN Walk : Walk[k] = path
Key(row, col) == IF col = "Size" /\ row.row # "Loading" THEN Content[row.path].size ELSE PathRank(row.path)
Before(a, b, col) ==
    IF (a.row = "Info") # (b.row = "Info") THEN a.row = "Info" ELSE Key(a, col) < Key(b, col)
file_cmp(a, b, col, asc) == IF asc THEN Before(a, b, col) ELSE Before(b, a, col)

\* A stable sort: a row comes after those before it and after its equals that were first.
Precedes(rows, col, asc, j, i) ==
    \/ file_cmp(rows[j], rows[i], col, asc)
    \/ j < i /\ ~file_cmp(rows[i], rows[j], col, asc)

Rank(rows, col, asc, i) == 1 + Cardinality({j \in DOMAIN rows : Precedes(rows, col, asc, j, i)})

Sorted(rows, col, asc) ==
    [p \in DOMAIN rows |-> rows[CHOOSE i \in DOMAIN rows : Rank(rows, col, asc, i) = p]]

SortBy(col) ==
    LET asc == file_sort # <<col, TRUE>> IN
    /\ file_sort' = <<col, asc>>
    /\ files' = Sorted(files, col, asc)
    /\ UNCHANGED <<pending_analysis, scan_done, data_loaded>>

\* Mutant: the list can be sorted while the scan still fills it.
handle_header_click_while_scanning(col) ==
    /\ EndTurn /\ Browsing
    /\ UNCHANGED <<scan, filters, mode, error_popup, panel, opened>>
    /\ LET prev == get_selected_file IN
       /\ SortBy(col)
       /\ filtered_file_indices' = Matching(files)'
       /\ selected_file_index' =
            LET p == PositionOf(prev, [i \in DOMAIN filtered_file_indices' |->
                                         files'[filtered_file_indices'[i]].path]) IN IF p = 0 THEN 1 ELSE p

\* Mutant: the selection is not moved with its file.
handle_header_click_by_index(col) ==
    /\ EndTurn /\ Browsing /\ data_loaded
    /\ UNCHANGED <<scan, filters, mode, error_popup, panel, opened>>
    /\ SortBy(col)
    /\ rebuild_filtered_files(selected_file_real_index)

\* A header sorts once the scan is over, down on the second click, and the
\* selection moves with its file.
handle_file_header_click(col) ==
    /\ EndTurn /\ Browsing /\ data_loaded
    /\ UNCHANGED <<scan, filters, mode, error_popup, panel, opened>>
    /\ LET prev == get_selected_file IN
       /\ SortBy(col)
       /\ filtered_file_indices' = Matching(files)'
       /\ selected_file_index' =
            LET p == PositionOf(prev, [i \in DOMAIN filtered_file_indices' |->
                                         files'[filtered_file_indices'[i]].path]) IN IF p = 0 THEN 1 ELSE p

UserMoves ==
    \/ \E n \in {1, Len(Walk)}, down \in BOOLEAN : move_by(n, down)
    \/ \E row \in DOMAIN filtered_file_indices, double \in BOOLEAN : Click(row, double)

Event ==
    \/ NoEvent \/ DismissPopup \/ UserMoves \/ handle_enter \/ handle_escape
    \/ handle_filter_click
    \/ \E col \in Columns : handle_file_header_click(col)

Scan == ReportFound \/ ReportDone \/ \E k \in DOMAIN Walk : Analyze(k)

Next == Tick \/ Event \/ Scan \/ LoadPreview

Spec == Init /\ [][Next]_vars

\* The loop polls for 16 ms and goes on, and the walk, the pool and a loading
\* thread wait for nobody.
FairSpec == Spec /\ WF_vars(Tick \/ Event) /\ WF_vars(Scan) /\ WF_vars(LoadPreview)

-----------------------------------------------------------------------------
(* Properties.                                                              *)

TypeOK ==
    /\ \A i \in DOMAIN files : files[i] \in [path : Paths, row : {"Loading", "Info", "Error"}]
    /\ pending_analysis \in 0..Len(Walk)
    /\ scan_done \in BOOLEAN /\ data_loaded \in BOOLEAN /\ error_popup \in BOOLEAN
    /\ \A p \in DOMAIN filtered_file_indices : filtered_file_indices[p] \in DOMAIN files
    /\ selected_file_index \in 1..LastRow
    /\ file_sort \in {<<>>} \cup (Columns \X BOOLEAN)
    /\ mode \in {"FileBrowser", "LayerOverview"} /\ phase \in {"tick", "event"}
    /\ panel.rx \in [file : Paths \cup {NoFile}, sent : BOOLEAN]
    /\ panel.shown \in [path : Paths \cup {NoFile}, preview : Paths \cup {NoFile},
                        error : BOOLEAN, requested : Paths \cup {NoFile}]
    /\ walked \in 0..(Len(Walk) + 1) /\ analyzing \subseteq DOMAIN Walk
    /\ opened \subseteq {f \in Paths : Content[f].opens}

\* Results that come out of order land on the row of their own file: every file
\* found has one row, an analyzed row holds its own file's result, the count of
\* those awaited is the rows still loading, and when the scan ends every file of
\* the directory is there and analyzed (state.rs:342, :358, :371).
RowsAreTheWalk ==
    /\ \A i, j \in DOMAIN files : files[i].path = files[j].path => i = j
    /\ {files[i].path : i \in DOMAIN files} = {Walk[k] : k \in 1..Len(files)}
    /\ \A i \in DOMAIN files : files[i].row \in {"Loading", Content[files[i].path].row}
    /\ pending_analysis = Cardinality({i \in DOMAIN files : files[i].row = "Loading"})
    /\ data_loaded => Len(files) = Len(Walk) /\ pending_analysis = 0

\* The list shows what the filters select of the rows as they are now, whether the
\* last step appended rows, replaced some or changed the filters (state.rs:326).
FilteredIsCurrent == filtered_file_indices = Matching(files)

\* A scan event, a new order or another filter leaves the selection on its file as
\* long as the file is listed; only the user moves it (state.rs:373, :775).
SelectionKept ==
    LET file == get_selected_file IN
    \/ file = NoFile
    \/ get_selected_file' = file
    \/ \A p \in DOMAIN filtered_file_indices' : files'[filtered_file_indices'[p]].path # file
    \/ UserMoves

\* What the panel shows changes to the selected file's, or to nothing when there is
\* none: never to the answer for a file left behind (mod.rs:604).
PreviewKept ==
    panel.shown.path = panel'.shown.path \/ panel'.shown.path = get_selected_file'

FollowsTheFile == [][SelectionKept /\ PreviewKept]_vars

\* The scan ends, and a file that stays selected is previewed, or its failure is
\* shown: no request is left standing that nobody will answer (mod.rs:603, :635).
PreviewSettles ==
    /\ <>data_loaded
    /\ \A f \in Paths :
         mode = "FileBrowser" /\ get_selected_file = f ~>
             \/ mode # "FileBrowser" \/ get_selected_file # f
             \/ panel.shown.path = f /\ (panel.shown.preview = f \/ panel.shown.error)
=============================================================================
