# Verification of the MapLibre Tile converters and layer writer

TLA+ specifications of the parts of this repository whose correctness depends on
order or on two sides counting alike: threads that hand tiles to one another, a
feature written in place and dropped half way, a list that grows under a selection, a
reader that finds a stream only if it counts as the writer did. Each module is written from the source it names; TLC checks it
on small instances and TLAPS proves the theorems listed under *What is proved*.

## Inventory

The repository holds one tile format implemented in Rust, Java, C++ and
TypeScript, with command line converters, a terminal viewer and bindings.

| Part | State it keeps | Operations and interaction | What makes it hard | What makes it correct |
| --- | --- | --- | --- | --- |
| Rust PMTiles encode pipeline (`rust/mlt/src/convert/from_pmtiles.rs`) | four channels, permits, a reorder buffer | a reader thread, encoder threads and an emitter thread feed the conversion task | interleaving, back pressure by permits, errors in mid-sequence, dropped channel ends, panics | output in input order, bounded memory, success only when complete, the conversion returns |
| Java PMTiles encoder (`java/mlt-cli/.../PMTiles.kt`, `ThreadPoolTaskRunner.kt`, `TaskRunner.kt`) | task queue, map from input offset to hash, success flag, archive | a root task submits a task per range to a bounded pool; tasks share the map and the deduplicating writer | get and put of the map are two steps, caller-runs, exceptions outside a `try`, shutdown | a range is processed once, equal inputs share one entry, the data is written before references to it, failure is reported, main returns |
| Rust layer writer (`rust/mlt-core/src/layer_writer.rs`) | columns, spare columns, ids, three levels of cumulative ends over flat coordinates | add a property, write a feature part by part, finish, drop, reset | a half-written feature is cut back from every list; buffers reused across layers; late columns | the layer is exactly the table of finished features |
| Rust FFI layer buffer (`rust/mlt-ffi/src/store.rs`) | owned features, parts, properties, strings | C calls append; `encode` replays into a layer writer | calls in any order, a failed call between two good ones, kinds inferred late | what is replayed is what was set |
| Viewer's tile loader (`rust/mlt/src/ui/mbt.rs`) | tile cache, set of loading keys, request and result channels | the UI requests and evicts, a thread answers | full channels, late answers for evicted tiles, start-up failure | a tile shown as loading is on its way; what is drawn stays drawn; a dead loader is reported |
| Viewer's state and directory scan (`rust/mlt/src/ui/state.rs`, `scan.rs`) | rows, their filtered and sorted order, selection, preview | threads find and analyze files, another loads the preview, the UI sorts and filters | rows found, analyzed and sorted in any order; a preview that comes late | the selection and the preview stay on their file |
| MBTiles conversion (`rust/mlt/src/convert/from_mbtiles.rs`) | a stream of encodings in flight, a batch of rows | database to encoders to database | an error in the stream | every tile or a reported failure |
| File and GeoJSON conversion (`from_files.rs`, `from_geojson/`) | a shared deduplication cache | independent files in parallel; project, clip, write | two inputs with one output name | every input has its output |
| Decoder (`rust/mlt-core/src/decoder/`) | memory budget, lazily decoded columns | parse, decode, iterate | budget charged before and returned after, offsets from streams | the budget is never exceeded by what is alive; decoding inverts encoding |
| Codecs (`rust/mlt-core/src/codecs/`) and encoder (`encoder/`) | none | pure pairs; the optimizer picks the shortest | counts that no stream carries, levels left out when they say nothing, wrapping deltas | a reader rebuilds the layer, whichever encoding was picked |
| Java MBTiles and offline database encoders, PMTiles reader | success flag; directory caches | tasks on the same pool; directory search | as the PMTiles encoder; run lengths, partial ranges | every tile once |
| Java library, C++, TypeScript, inspector, QGIS, documents, fixtures | | | | |

## Modules

| Module | What it is |
| --- | --- |
| `OrderedConversion` | what a conversion promises: it writes the archive's tiles in order, without skipping one, and ends once, as a success only when all are written |
| `EncodePipeline` | the Rust pipeline, thread by thread; implements `OrderedConversion` |
| `EncodePipelineProofs` | types, permits, one place per tile, order, completeness and the refinement, proved |
| `MCEncodePipeline` | its symmetry set for TLC |
| `PmtilesEncode`, `MCPmtilesEncode` | the Java encoder: root task, pool, shared map, writer, main |
| `PmtilesEncodeProofs` | its types and its safety, proved |
| `FeatureLayer` | what a layer written feature by feature promises: a table and at most one draft |
| `LayerWriter`, `MCLayerWriter` | the Rust layer writer; implements `FeatureLayer` |
| `LayerWriterProofs` | its types, its columns and its ends, proved |
| `LayerWriterRefinement` | that it implements `FeatureLayer`, proved |
| `LayerBuffer`, `MCLayerBuffer` | the FFI builder with the `LayerWriter` it is replayed into, which it EXTENDS |
| `LayerBufferProofs` | its ranges, its parts and its kinds, proved |
| `LayerBufferReplay` | that the encoded layer is what the caller gave, and that no call of `encode` is refused, proved; uses both `LayerBufferProofs` and `LayerWriterRefinement` |
| `TileLoader`, `MCTileLoader` | the viewer's tile cache and the thread that fills it |
| `TileLoaderProofs` | its types and its safety, proved |
| `FileBrowser`, `MCFileBrowser` | the viewer's directory browser: scan, list, selection, preview |
| `FileBrowserProofs` | its types and its safety, proved; induction over the numbers |
| `PresenceCoding` | masks as bitmaps, runs and sparse bytes; varints |
| `IntegerStreams` | zigzag, deltas, runs, and their inverses; EXTENDS `PresenceCoding` |
| `TriangleTrees` | the triangles of a tessellated layer as trees, and back |
| `GeometryColumn` | features pushed onto offset levels, levels as streams, and back; EXTENDS `TriangleTrees` |
| `LayerColumns`, `MCLayerColumns` | a layer to the v1 and the v2 wire and back, composed of the four |

### EncodePipeline

A message is a sequence number, or `Err` for the error arm. One action is one
step between two channel operations: the reader starts its runtime, gets a tile,
takes a permit, pushes; an encoder takes a tile and encodes it, or finds the
channel closed, and sends its result; the emitter receives, drains what is next
in order, forwards an error, notices that the receiver is gone, and joins; the
conversion receives, writes, and finalizes. A channel closes when the last
owner of its other end has left the scope that holds it (`EmitterLoops`,
`EncodersExited`, `ConsumerAlive`). The archive is an input: every id is a tile, missing,
unreadable, unencodable, or one whose encoder panics. `Faults` are the
environment's: the reader's runtime, the writer, the finalizer. The raw and
result channels are unbounded in the code; the permits bound what is in them. The raw
channel is kept as its history with a read index. Progress output, metadata and the tile
bytes are left out.

### PmtilesEncode

A range of tiles is the unit: it is written in one section of the
writer's monitor. The root task submits ranges to the pool as `ThreadPoolExecutor` takes
them: a new worker while there are fewer than its core size, else the queue, else the
submitting thread. A task is four steps, `CheckMap`, `Convert`, `Publish` and
`WriteTiles`, split where another task can see the difference: the map read, the map's
`putIfAbsent`, the monitor. An exception outside a `try` ends the task, and the
root task too when it runs on the caller. The deduplicating
writer belongs to a library; `ArchiveWrite` is modelled from how the code relies
on it: the bytes that come first with a hash are kept. A tile may encode to
one of several hashes, since the encoding is not assumed to be deterministic.

### LayerWriter

All lists are in the model: columns with values and presence, spare columns, ids,
types, and feature, group and part ends over flat coordinates. A call is one
action, and includes the rewind when it is `finish` that fails. `Overflow` is a call that
exceeds `u32::MAX` vertices: the error leaves coordinates without an end, and
the only caller in the repository (`mlt-ffi/src/store.rs`) returns it with `?`, which
drops the writer, so the two are one step. Kinds of values, names and coordinates are
model values; the layer's name, extent and the MVT export are left out. `LayerSpec` reads the
lists back the way `push_geometry` and `property` do and requires the
result to be the table of `FeatureLayer`.

### LayerBuffer

Each call of `store.rs` that changes the builder is one action: `BufferReset`,
`BufferAddProperty`, `Begin` with its whole MVT decoder, `SetValue` and `SetStr`, the calls that fail
included, with what they leave behind. `Encode` starts the replay, and each `Replay` makes the
call that `at` points to (the `at[2]`-th of feature `at[1]`, or of the columns), by the
action of `LayerWriter`, whose variables and definitions `LayerBuffer` EXTENDS; nothing else
calls the writer. A feature's geometry is
decoded twice: by `Decoded`, translated from the code's lists and its ring roles, and by
`Shape`, which draws paths from the commands alone and which `Promised` records in the ghost
`given`. They share only the cursor, which saturates at `Far` in each
coordinate. Which rings start a polygon they find apart: `Decoded` by `SignedArea`, the code's sum in an
`i64`, and the promise by `Area`, the sum itself. `Far` is `i32::MAX`, and `Wide`, twice the square of
`Far + 1`, is then 2^63. A sum that leaves the `i64` wraps, as in a release build; a build with
overflow checks panics, which ends the process at the C interface and has no behaviour to check. The
texts are sequences of letters, since the code stores them end to end in one
string. The writer's `Overflow` is a call that encode answers with `?`, and is left to `LayerWriter`:
`MaxVertices` is the writer's limit here too, and a call beyond it is not accepted. `lib.rs` turns C pointers into these calls and is left out.

### TileLoader

One turn of the UI loop is the code's order: the handshake, one answer at a time until
none is waiting, a request for each tile of the view and each ancestor not cached, the pruning, then
at most one event. The loader opens the database, takes a request, answers it, or stops,
and waits where the code's channel waits. The cache's size is the estimate of
the code, with two weights. The choice of what is pruned is that of the code: everything
outside the view, its margin and their ancestors when the estimate is over the budget. One
column of tiles stands for both axes.

### FileBrowser

The scan's walk and each analysis are steps of their own, so that the events of
different files come in any order, and `Done` before the last `Analyzed`.
`Tick` applies a batch of them and brings the filtered list, the selection and the preview
up to date, in the order in which `tick` does; an event is a key, a click
on a row, a header or a filter, or nothing. The two families of
filters, geometry and algorithm, select alike and are one. A preview that is in the code's cache of eight is
available at once: a file whose load was started once may be a hit or a miss, as if
the cache evicted at will. Left out: the 400 ms that make two clicks a double click,
the feature tree but for Escape, hovering, help, panel sizes, quitting; and a
preview thread that panics, which would leave its panel at "Loading".

### LayerColumns and the codecs

`Push` stages a feature, `Encode` chooses a format and an encoding and writes the
wire, `Decode` reads it. The three actions carry no concurrency; what is checked is that
two pieces of code written apart count alike. A wire is a sequence of numbers and a reader gets
nothing but this sequence: what a format does not say, such as the number of values of a
v2 stream, the reader infers, and from a wrong inference on it reads garbage. The writer and
the reader of each part are translated from their own files and share only
constants. The optimizer's choice of the shortest encoding is any of the
`Options`. Words and bytes are narrow (`WordBits`, `ByteBits`), so that
wrapping, second varint bytes and padding bits happen in small layers. Triangulation by
ear cutting is external and stands as a fan; what is checked does not depend on which triangles.
The run pushes, encodes and decodes once. It does not encode again what was decoded, whose levels are dense
where pushed ones are sparse: this second cycle is what the tests ignored at `geotype.rs:942-954` ("encoder
does not implement this correctly") fail on, for a Point with a MultiLineString or a MultiPolygon, and it is outside the model.

## Runs

| Run | Instance | Question |
| --- | --- | --- |
| `pipeline_safety` | 5 ids of any outcome, 3 encoders (symmetric), 3 permits, out channel of 1, all faults | are permits conserved, memory bounded, tiles never duplicated, output in order, whatever fails? |
| `pipeline_liveness` | 4 ids, 2 encoders, 2 permits, no panic | does it return, implement `OrderedConversion`, and end its threads when every tile encodes? |
| `pipeline_teardown_gap` | the same, unencodable tiles only | violated: threads park for good after a tile that does not encode |
| `encode` | 3 ranges, 2 input tiles (one tracked), 2 hashes, 2 workers, a queue of 1, all faults | tasks once, one hash per input, one writer of data, quiet when finished; is a range lost only by an uncaught exception, and does the pool end once it is shut down? |
| `encode_empty_race` | 2 ranges of one tile, 3 workers, no failure | violated: the empty placeholder is stored |
| `encode_read_error` | a tile that cannot be read | violated: success without the range |
| `encode_hang` | a directory that cannot be read | violated: main waits for ever |
| `layer` | 1 column, 2 features, 2 of 2 distinct vertices in 2 parts, ids, resets | do the ends tile the coordinates, are the columns aligned, does it implement `FeatureLayer`? |
| `layer_buffer` | 2 names (symmetric), 4 kinds, 8 inputs of which 3 malformed, 2 features, 3 values | do parts fit their type, does the writer accept every call of a replay, and is the result what the caller was promised? |
| `tiles` | 3 views over 5 tiles, channels of 1, a budget of one loaded tile, a loader that does not start and queries that fail | is a loading tile under way, is the hovered tile cached, does what is drawn stay drawn, does a visible tile settle, is a stop reported? |
| `viewer` | 3 files (two open, one cannot be read), 2 extensions, 1 trait, 2 columns | are the rows the walk, is the list what the filters select, do selection and preview follow their file, does the preview settle? |
| `columns` | 11 shapes alone and in pairs, 6 of them in triples, layers of up to 10 points, 11 encodings in 2 formats | does a layer come back from its bytes: geometries, vertex ranges, triangles, columns and masks? |

**Bounds.** Five ids with three permits make the reader run out of permits, refill
and run out again, with a gap before, at and after any position; an
out channel of one blocks the emitter. With three encoders any of six
orders of three results can reach the emitter. Three ranges on two workers and a queue of one reach every way
a task is started, the caller's included, with a second range behind it. In the layer
writer two features are enough for one to be cut back, or read, into the other, and two
parts for a polygon with a hole, a polygon next to another, and a part cut back behind one that
stays; `MaxParts`, `MaxFeatures` and
`MaxVertices` bound the lists, of which only the last stands for a limit of the code.
In the buffer, `MaxFeatures`, `MaxSets` and `MaxText` let a value be set before the first
feature, twice on one, after a failed `Begin`, and of two kinds in one column. `Far` is 7, that of a
word of 4 bits, and the areas are those of one of 8: the square between the extreme corners has twice
the area 450, which wraps to -62, and every other ring of an input fits. The viewer's channels hold 200
messages; of one, they are full whenever a second request is made. The two ends of
zoom 2 are outside one another's margin, so a tile is evicted while it loads, asked for again,
and answered twice; their ancestors are shared. Of three files, one can be found
before, at or behind the selected one, and be sorted past it. A byte of three bits makes a mask
of ten four bytes long, with padding in the last, and makes a varint of 4 two bytes;
a word of six bits wraps between the ends of its range; `MaxShared` 1
is exceeded by the second shared mask. Three features reach a level that appears
with the second feature and one that is empty in the middle.

**Deadlock.** Checked except in five runs. In `pipeline_safety` an encoder
that panicked may leave every thread waiting; in `encode`, `encode_read_error`
and `encode_hang` a root task that threw leaves main waiting. Both are what the
code does. `columns` ends when its layer is read. The pipeline's liveness runs end in a stuttering
`Returned` step; a user interface always has a next turn; and a builder can be reset, unless its
replay stands at a call that the writer refuses: this is what `layer_buffer` asks of it.

**Fairness.** Weak fairness of each thread, never strong: the operating system
schedules it, and nothing is assumed of its choices. In the pipeline none of the
blocking calls has a timeout. In the Java encoder it is that of the root
task, of each worker and of main. The viewer's UI thread polls its events with a timeout
of 16 ms and never waits on a loader, so `Tick` and `Event` share one condition; an event may always be none, and
the user is assumed to do nothing in particular. `VisibleSettles` and
`PreviewSettles` ask only for what stays visible or selected.

## What the runs found

* The emitter notices the dropped receiver only by a send. A tile that does not
  encode carries no sequence number, so the emitter has nothing in order to send
  and the teardown announced at `from_pmtiles.rs:275` does not happen. In the command
  line tool the process exits; a longer-lived caller would keep the threads.
  `TornDownIfEncodable` shows it is only this case.
* `PMTiles.kt:453` publishes a hash before its bytes are written; another
  range's empty array may reach the writer first.
* `PMTiles.kt:393` can throw out of a task without touching the success flag.
* `PMTiles.kt:255` is skipped when the root task throws, and main waits for a pool
  nobody shut down.
* Not a run of its own, but a step of `layer_buffer`: `store.rs:59-65` sums the area of a ring in an `i64`, which three corners at the limits of an `i32`
  leave; mlt-core's own winding (`geotype.rs:462`) sums in an `i128` for this reason. Coordinates of a tile
  are far below, but the decoder lets a cursor come there and stay (`:245`): the sum wraps, and
  a ring of positive area becomes a hole of the polygon before it, as the square of this run does, although
  `store.rs:252` says that every such ring starts a polygon. `EncodesWhatWasGiven` excepts these rings, and shows that nothing
  else goes wrong then: every ring keeps its coordinates and its place, and one whose area fits its role.

## What is proved

For every number of ids, set of encoders, number of permits and capacity, from
`PipelineAssumption` alone:

* `TypesHold`: `TypeOK`, through `TInv`, which adds what indexes need: where the reader is
  in the ids, how far encoders have taken, and that every message in a channel is a
  sequence number already issued.
* `PermitsCorrect` and `InFlightCorrect`: `PermitsConserved` and `InFlightBounded`, through
  `PInv`. A permit is in the pool, in the reader's hand, or held by a tile between raw and the
  emitter's `next`; the sum is the inductive fact.
* `PlacesCorrect`: `TileInOnePlace`, through `PlaceInv`: a number that is encoded, queued as a
  result or buffered was taken from raw (`Passed`), and no two of these places hold the same one
  (`Apart`).
* `OutputCorrect`: `OutputInOrder`, through `OutInv`: what was written followed by what
  is in the out channel, up to the first error, is the sequence up to `next`.

Under the further hypothesis `NoPanic` (no encoder panics; a panic is swallowed
by the join and the conversion would report success without the tile):

* `DoneIsCompleteHolds`: success implies that every tile the reader pushed was written
  and the threads ended. It is not inductive: `CInv` follows a lost tile through the system.
  Either an `Err` is still on its way to the consumer, or every number issued is in
  the raw channel, an encoder, the result channel, the buffer or behind `next`, and the threads shut
  down in the order in which they drop their ends.
* `PipelineRefines`: `Spec => ConversionSpec`, by `RawInv` (the raw history is the
  ascending list of ids that hold a tile, without one left out) and a step by step mapping.

For every set of views, content, capacity and budget, from `LoaderAssumption` and
`ContentAssumption` (whatever a view reaches, the database has an answer for):

* `LoaderTypesHold`, `LoadingCorrect`, `HoveredCorrect`: `TypeOK`, `LoadingIsUnderWay`
  and `HoveredIsCached` of the tile loader. Their conjunction `LInv` is
  inductive. `LoadingIsUnderWay` needs the types of the queues, and its step
  for a request needs that the tile asked for is one the cache lacks, a fact about the choice
  of the next request among the tiles of a view and their ancestors; `HoveredIsCached` needs
  that a chain with a loaded tile has a deepest one, and that pruning drops
  the hover together with the tile.
* `DrawnCorrect`: the action property `StaysDrawn`. It needs besides `EntryInv`, that what
  is cached or answered is what the database holds: a second answer is then the
  first one over again, and what pruning keeps covers what is drawn.

For every finite set of workers, any number of ranges and queue capacity, from `EncodeAssumption`
(a pool is not empty, a tile has an encoding):

* `EncodeTypesHold` and `TasksCorrect`: `TypeOK` and `TasksRunOnce`, through `RunInv`: a range
  is queued, with one thread, or over, in one place only (`OnePlace`).
* `EntriesCorrect` and `WriterCorrect`: `EntriesAgree` and `OneDataWriter`, through
  `DataInv`. A task holds a hash that agrees with the map from `Publish` on
  (`HashHeld`, `MapHolds`), and the one that put it there is the only one to write data.
* `FinishedCorrect` and `LostCorrect`: `FinishedIsQuiet` and `OnlyUncaughtLost`, through
  `EndInv`: while the flag says success, every submitted range is queued, in progress,
  written, empty, or lost to an exception nobody caught (`Accounted`), and main goes on only past a pool
  that is shut down and empty (`Ended`).

For every set of names, kinds, values, ids and coordinate lists and every bound, from
`WriterAssumption` (a kind's values do not include "none"; coordinate lists are
sequences) and `NoDraftAssumption` (the absence of a draft is not a draft, in
the writer or in the table it implements):

* `LayerTypesHold`, `ColumnsCorrect`, `EndsCorrect`: `TypeOK`, `ColumnsAligned` and
  `EndsTile`, through `WInv`. `EndsTile` is not stated inductively: what is inductive are
  rising ends, what each of them ends at, and for the feature being written that the place it
  is cut back to is an end on each level and that it has a part once it has a group (`CutBack`).
  Ends rise for every pair of indexes and not only for neighbours (`Rising`), which
  spares an induction from neighbours to pairs.
* `LayerRefines`: `Spec => LayerSpec`, every action of the writer is the action of
  `FeatureLayer` of the same meaning, on what the lists read back as (`Finished`, `Drafted`). It
  needs `WInv` before and after the step, in three arguments. A list of ends reads back as
  slices of the coordinates (`Geometric`: the parts of groups g to h are the parts between
  the ends of g and h, their coordinates one slice). What lies before an end that stays, with the
  parts and coordinates before it, reads back as before (`Kept`): so the
  finished features do not change while one is written, cut back or added. And the
  feature being written grows at its end only: one part more is one line more (`PartListGrows`),
  one group more one polygon more, a part that joins the last group one hole more in
  the last polygon. A column that is added is empty whatever the spare one held
  (`FreshColumn`), and what `finish` accepts is well-formed (`ValidIsWellFormed`).

For every directory, whatever its files are and whatever order results come in, from
`BrowserAssumption` (the walk is a finite sequence without repetition; each file has an
extension, a result and traits):

* `BrowserTypesHold`, `RowsCorrect`, `ListCorrect`: `TypeOK`, `RowsAreTheWalk` and
  `FilteredIsCurrent`, through `BInv`. While the scan runs, the rows are the first files of the walk
  and the channel holds exactly what they lack: `Agrees(state, n)` says this of a list
  to which the first n events have been applied, so that it is an invariant at n = 0 and
  one event takes it from n to n + 1. It needs `InOrder`: a file is found before it is analyzed,
  and after the files before it. When `Done` or the end of the channel closes the scan,
  nothing is left that the rows could lack (`Settled`), in which form sorting keeps it.
* `SelectionCorrect`: the action property `FollowsTheFile`, from the same invariant: rows that
  are appended or analyzed keep their places (`Grown`), a filter looks for the selected
  row, and sorting for the selected path, which only one row has.

One `Tick` applies a channel of any length, and `Matching` filters a list of any length, both by
recursive functions. That they have a value and what it is takes an induction over data, made
here and in `LayerBufferProofs` without a theorem that has an operator as its parameter: a
set of numbers that is not empty has a least one (`Least`, from `NatLessThanWellFounded` and `WFMin`), so a set that holds 0
and with n also n + 1 holds them all (`Induction`), and the hypothesis of each induction
is written as such a set. That sorting loses no row and doubles none (`SortedPermutes`)
follows from `PrecedesIsOrder`, that file_cmp with ties by place is a strict total order: the
number of rows that precede a row is then different for each.

For every set of names, values and ids, every set of MVT inputs of any length and whatever
coordinates, from `BufferAssumption` (an input is a type and a sequence of commands; a value
is of a kind the interface has, a text is a sequence):

* `BufferTypesHold`, `PartsCorrect`, `KindsCorrect`: `BufferTypeOK` and `PartsFit` of the FFI builder, and
  `KindsHold`, which `EncodesWhatWasGiven` says of an encoded layer's columns, through `LInv`. `PartsFit` is about the end of a decoding and says nothing of
  its middle; what holds there is `Reading(d, type)`, once after every command and, inside
  one, after every coordinate. The lists of the earlier features are as they were, each part read
  lies inside the points, and as long as nothing was malformed the parts read so far fit: no part
  has ended for points, an exterior came first for rings and, while there is one, it is that one.
  `DecodingReads`, the lemmas on one command and `Induction` give what `decode_mvt`
  leaves (`DecodedFits`); what it refuses is cut back to the lists before it.
* `KindsHold` is not inductive, since a column without values has the kind `Str` of
  a column of texts, and merging into it would keep `Str`: `KindsInv` tells `Unknown` from it. The kind
  is the least one that holds the set of kinds that came in (`Holds`), which does not depend
  on their order, and one `Merge` keeps that (`MergeHolds`).
* `EncodedAsGiven`: `EncodesWhatWasGiven`, which takes the builder and the writer together, and
  besides the assumptions above those of `LayerWriter` and two more on its constants:
  `CastsTaken`, that the writer takes any value of a column's kind, and `ListsTaken`, that
  it takes any list of coordinates an input describes. The code's types say both. The inductive
  invariant is `LInv /\ GInv /\ RInv`:
  * `GInv` is about what the builder keeps. Every feature shows, in its parts and points, the
    geometry that was promised for the input it was begun with, and its last value in a column is the last one set.
    For the geometry, `Decoded` and `Shape` go through the commands side by side: the paths drawn are
    the parts ended, and the last of them the part being read (`Follows`). The roles of the parts then
    group the rings as `Grouped` does for the rings that `SignedArea` takes for outer ones (`Coded`).
    Of those whose area an `i64` holds it takes the right ones (`CodedRightly`), and this is all that
    is said of a ring's role: no bound on coordinates is assumed.
  * `RInv` is about the replay. While nothing is encoded the writer is empty. Else its own invariant
    `WInv` holds, and `property`, `Finished` and `Drafted` are what the calls before `at` have
    written (`Written`): the columns declared so far, or a row per feature finished and a draft with as
    many parts and values as were replayed.
  * The step of a call that is accepted is taken by the refinement: `LayerWriterRefinement` says
    what the call does to `Finished` and `Drafted`, so that no argument here looks at the writer's ends.
* `ReplayIsReady`: `encode` passes errors of the writer on with `?`, and there is only one that it can meet,
  the limit of `u32::MAX` vertices. `Ready` is what the writer asks of a call besides room: an undeclared name,
  a part of its draft's family, an exterior before a hole, a value of its column's kind, a valid draft at
  `finish`. `NextIsReady` says this of the call that is next. It follows from the invariant above and from
  `DraftInv`, that a draft is open between the first and the last call for a feature. `Shape` never puts
  a hole first, `Cast` gives a value of the column's kind (`CastHolds`), and what is promised of a geometry is what
  `finish` asks for (`FinishReady`, the converse of `ValidIsWellFormed`).

Model-checked only: everything under fairness (temporal properties with WF are beyond the
prover), `PreviewSettles` among them; the absence of deadlock, which takes ENABLED to state (in `layer_buffer` the step
from `Ready`, and room for the coordinates, to a replay that goes on); and the invariants of `LayerColumns`, whose RECURSIVE operators the
prover does not take, and whose round trips are inductions over what they compute.

## Plan

The decoder's memory budget and PMTiles `findTile` and `mapDirectory`, as operators
checked against a reference on bounded inputs.

## Not modelled

* **Decoder budget** (`decoder/limits.rs`): an estimate charged before a column is decoded. It
  is sequential, and sizes beyond `u32` are refused.
* **Streams of strings, floats, dictionaries, nested and m-values; Morton, Hilbert,
  front coding, rANS, FSST, FastPFOR, bit packing, ALP**: what a layer's columns share, presence,
  counts and order, is in `LayerColumns`; what is left is arithmetic on the bits of one
  stream, over widths that an explicit state search does not cover.
* **The optimizer** (`encoder/optimizer.rs`, the sessions of `writer.rs`): which encoding it picks
  is any in the model. That a losing alternative leaves no bytes behind is a hazard without a
  property.
* **MBTiles conversion**: its failures are those of stream adaptors and of SQLite, outside
  the repository. **File and GeoJSON conversion**: independent files; projection
  and clipping in floating point.
* **Java encoder for MBTiles and offline databases**: the same pool without the shared map.
  **Java PMTiles reader**: planned. **Java library, C++, TypeScript**: pure
  implementations of the same format.
* **Command line, listing, bindings, synthetics, inspector, QGIS**: formatting, wrappers and user interfaces.

`PROJECT.json` lists every part with its reason, the source lines behind each
definition, and the hazards that no property covers yet.
