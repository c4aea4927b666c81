--------------------------- MODULE GeometryColumn ---------------------------
(***************************************************************************)
(* The geometry column of a layer: how features are pushed onto its offset  *)
(* levels (src/rust/mlt-core/src/encoder/geometry/geotype.rs), how the      *)
(* levels become length streams (streams.rs, encode01.rs and encode02.rs    *)
(* beside it), and how a reader rebuilds the levels and the features from    *)
(* them (src/rust/mlt-core/src/decoder/geometry/).                          *)
(*                                                                         *)
(* A vertex is the position at which it was pushed, counted from 0.  A      *)
(* feature is a type and its parts, each part a sequence of ring or line    *)
(* lengths; a point is a part <<1>>.  A level is a sequence of offsets and   *)
(* <<>> when the layer has no such level; a length stream is <<lengths>>, or *)
(* <<>> when it is not written.  The winding and closing of rings, and the   *)
(* coordinates, are left out.                                               *)
(***************************************************************************)
EXTENDS TriangleTrees

(* GeometryType, in the order the decoders compare by. *)
Point == 0
LineString == 1
Polygon == 2
MultiPoint == 3
MultiLineString == 4
MultiPolygon == 5

Multis == {MultiPoint, MultiLineString, MultiPolygon}
Lines == {LineString, MultiLineString}
Polygons == {Polygon, MultiPolygon}
IsMulti(t) == t \in Multis
IsPoint(t) == t \in {Point, MultiPoint}
IsLine(t) == t \in Lines
IsPolygon(t) == t \in Polygons

Sum(s) == FoldLeft(LAMBDA a, b: a + b, 0, s)
Diffs(offsets) == [i \in 1..(Len(offsets) - 1) |-> offsets[i + 1] - offsets[i]]
Upto(S(_), i) == Cardinality({j \in 1..i : S(j)})   \* how many of 1..i are in S
Vertices(f) == Sum(FlattenSeq(f.parts))

-----------------------------------------------------------------------------
(* Pushing a feature *)
Started(offsets) == IF offsets = <<>> THEN <<0>> ELSE offsets
PushLengths(offsets, lengths) ==
  FoldLeft(LAMBDA acc, n: Append(acc, Last(acc) + n), Started(offsets), lengths)

\* new_tessellated starts the triangle offsets, and only then polygons are cut.
NoGeometry(tessellated) ==
  [types |-> <<>>, geometry |-> <<>>, part |-> <<>>, ring |-> <<>>,
   index |-> <<>>, triangles |-> IF tessellated THEN <<0>> ELSE <<>>, count |-> 0]

\* Once a layer has rings, its lines count their vertices there.
push_lines(g, lengths) ==
  IF g.ring # <<>> THEN [g EXCEPT !.ring = PushLengths(@, lengths)]
  ELSE [g EXCEPT !.part = PushLengths(@, lengths)]

\* The lines pushed before the first polygon move to the ring level.
init_polygon_offsets(g) ==
  IF g.ring # <<>> THEN [g EXCEPT !.part = Started(@)]
  ELSE [g EXCEPT !.ring = Started(g.part), !.part = <<0>>]

push_polygon_rings(g, polygons) ==
  LET h == init_polygon_offsets(g) IN
  [h EXCEPT !.ring = PushLengths(@, FlattenSeq(polygons)),
            !.part = PushLengths(@, [p \in DOMAIN polygons |-> Len(polygons[p])])]

push_geometry_count(g, n) == [g EXCEPT !.geometry = PushLengths(@, <<n>>)]

(* The triangles earcut cuts from rings of these lengths, by the number of   *)
(* the vertex among those it was given: a star in a hexagon, the ring around *)
(* a triangular hole, a fan otherwise.                                      *)
Earcut(lengths) ==
  CASE lengths = <<6>>    -> <<0, 1, 2, 2, 3, 4, 4, 5, 0, 0, 2, 4>>
    [] lengths = <<3, 3>> -> <<0, 1, 3, 1, 4, 3, 1, 2, 4, 2, 5, 4, 2, 0, 5, 0, 3, 5>>
    [] OTHER -> FlattenSeq([t \in 1..(Sum(lengths) - 2) |-> <<0, t, t + 1>>])

\* Two points, or points on a line, enclose nothing: such rings are not cut.
HasArea(length) == length >= 3

earcut_into(rings, offset) ==
  LET start(r) == offset + Sum(SubSeq(rings, 1, r - 1))
      stored == FlattenSeq([r \in DOMAIN rings |->
                  [k \in 1..(IF HasArea(rings[r]) THEN rings[r] ELSE 0) |-> start(r) + k - 1]])
      cut == Earcut(SelectSeq(rings, HasArea))
  IN IF rings = <<>> \/ ~HasArea(rings[1]) THEN <<>>
     ELSE [k \in DOMAIN cut |-> stored[cut[k] + 1]]

\* A bug seeded for the check: a feature counts its indices, three to a triangle.
tessellate_polygons_by_index(g, polygons, first_vertex) ==
  LET start(p) == first_vertex + Sum(FlattenSeq(SubSeq(polygons, 1, p - 1)))
      cut == FlattenSeq([p \in DOMAIN polygons |-> earcut_into(polygons[p], start(p))])
  IN IF g.triangles = <<>> THEN g
     ELSE [g EXCEPT !.index = @ \o cut, !.triangles = PushLengths(@, <<Len(cut)>>)]

tessellate_polygons(g, polygons, first_vertex) ==
  LET start(p) == first_vertex + Sum(FlattenSeq(SubSeq(polygons, 1, p - 1)))
      cut == FlattenSeq([p \in DOMAIN polygons |-> earcut_into(polygons[p], start(p))])
  IN IF g.triangles = <<>> THEN g
     ELSE [g EXCEPT !.index = @ \o cut, !.triangles = PushLengths(@, <<Len(cut) \div 3>>)]

\* An empty multi brings neither a part nor a ring level into being.
push_geom(g, f) ==
  LET typed == [g EXCEPT !.types = Append(@, f.type), !.count = @ + Vertices(f)]
      leveled == CASE IsPoint(f.type) \/ f.parts = <<>> -> typed
                   [] IsLine(f.type)    -> push_lines(typed, FlattenSeq(f.parts))
                   [] IsPolygon(f.type) -> push_polygon_rings(typed, f.parts)
      counted == IF IsMulti(f.type) THEN push_geometry_count(leveled, Len(f.parts)) ELSE leveled
  IN IF IsPolygon(f.type) THEN tessellate_polygons(counted, f.parts, g.count) ELSE counted

-----------------------------------------------------------------------------
(* The levels as length streams.  Every running counter of the code advances *)
(* over the entries it writes and no others, so the stream it writes is a     *)
(* prefix of the differences.                                               *)
Prefix(offsets, n) == SubSeq(Diffs(offsets), 1, n)

encode_root_length_stream(types, offsets, buffer_id) ==
  LET lengths == Diffs(offsets)
      longer == SelectSeq([i \in DOMAIN types |-> i], LAMBDA i: types[i] > buffer_id)
      dense == Len(offsets) = Len(types) + 1
      zipped == IF dense \/ Len(longer) <= Len(lengths) THEN Len(longer) ELSE Len(lengths)
  IN [k \in 1..zipped |-> lengths[IF dense THEN longer[k] ELSE k]]

CountOf(types, offsets, some) == Sum([i \in DOMAIN types |-> IF types[i] \in some THEN Diffs(offsets)[i] ELSE 0])

encode_level1_length_stream(types, geometry, part, some) == Prefix(part, CountOf(types, geometry, some))

\* Polygons count their rings, and lines themselves.
encode_level2_length_stream(types, geometry, part, ring) ==
  Prefix(ring, part[1 + CountOf(types, geometry, Polygons)] + CountOf(types, geometry, Lines))

encode_ring_lengths_for_mixed(types, part, ring) ==
  FlattenSeq([i \in DOMAIN types |->
     IF IsPoint(types[i]) THEN <<>> ELSE SubSeq(Diffs(ring), part[i] + 1, part[i + 1])])

\* The entries of a level only some types have, spread over every feature: of
\* the others those in empty have none, and the rest one.
Spread(types, offsets, some, empty) ==
  LET nth(i) == Upto(LAMBDA j: types[j] \in some, i)
      length(i) == IF types[i] \in empty THEN 0 ELSE IF types[i] \notin some THEN 1
                   ELSE IF nth(i) < Len(offsets) THEN Diffs(offsets)[nth(i)] ELSE 0
  IN PushLengths(<<>>, [i \in DOMAIN types |-> length(i)])

normalize_geometry_offsets(types, geometry) == Spread(types, geometry, Multis, {})
normalize_part_offsets_for_rings(types, part) ==
  Spread(types, part, Polygons, {Point})

NonEmpty(lengths) == IF lengths = <<>> THEN <<>> ELSE <<lengths>>

\* forced: the caller asked for the empty geometries stream that Java writes.
LengthStreams(g, forced) ==
  LET n == Len(g.types) + 1
      geometry == IF g.geometry = <<>> \/ Len(g.geometry) = n THEN g.geometry
                  ELSE normalize_geometry_offsets(g.types, g.geometry)
      part == IF g.geometry = <<>> /\ g.ring # <<>> /\ g.part # <<>> /\ Len(g.part) # n
              THEN normalize_part_offsets_for_rings(g.types, g.part) ELSE g.part
      root(offsets, id) == NonEmpty(encode_root_length_stream(g.types, offsets, id))
      none == [geo |-> <<>>, part |-> <<>>, ring |-> <<>>]
  IN CASE g.geometry # <<>> ->
            [geo  |-> root(geometry, Polygon),
             part |-> NonEmpty(IF part = <<>> THEN <<>>
                               ELSE encode_level1_length_stream(g.types, geometry, part,
                                                                IF g.ring = <<>> THEN Lines ELSE Polygons)),
             ring |-> NonEmpty(IF part = <<>> \/ g.ring = <<>> THEN <<>>
                               ELSE encode_level2_length_stream(g.types, geometry, part, g.ring))]
       [] g.geometry = <<>> /\ part # <<>> /\ g.ring = <<>> ->
            [none EXCEPT !.part = root(part, Point)]
       [] g.geometry = <<>> /\ part # <<>> /\ g.ring # <<>> ->
            [geo  |-> IF forced THEN <<<<>>>> ELSE <<>>,
             part |-> root(part, LineString),
             ring |-> NonEmpty(encode_ring_lengths_for_mixed(g.types, part, g.ring))]
       [] OTHER -> none

-----------------------------------------------------------------------------
(* The offsets of a level, one per slot: read from the stream where the      *)
(* type has a length there, and one more than the last where it has not.     *)
Failed == [ok |-> FALSE]

Offsets(reads, lengths) ==
  LET taken(i) == Upto(LAMBDA j: reads[j], i) IN
  IF taken(Len(reads)) > Len(lengths) THEN Failed
  ELSE [ok |-> TRUE,
        offsets |-> PushLengths(<<>>, [i \in DOMAIN reads |-> IF reads[i] THEN lengths[taken(i)] ELSE 1])]

\* Each slot a feature has in the level above, as the type of the feature.
SlotsOf(types, offsets) ==
  FlattenSeq([i \in DOMAIN types |-> [k \in 1..(offsets[i + 1] - offsets[i]) |-> types[i]]])

decode_root_length_stream(types, lengths, buffer_id) ==
  Offsets([i \in DOMAIN types |-> types[i] > buffer_id], lengths)

decode_level1_length_stream(types, root, lengths, some) ==
  LET slots == SlotsOf(types, root) IN Offsets([j \in DOMAIN slots |-> slots[j] \in some], lengths)

\* A bug seeded for the check: a line that stands beside polygons has no ring of its own.
decode_level2_of_polygons(types, root, level1, lengths) ==
  LET slots == SlotsOf(types, root)
      below == FlattenSeq([j \in DOMAIN slots |->
                 [k \in 1..(IF IsPolygon(slots[j]) THEN level1[j + 1] - level1[j] ELSE 1) |-> slots[j]]])
  IN Offsets([k \in DOMAIN below |-> IsPolygon(below[k])], lengths)

decode_level2_length_stream(types, root, level1, lengths) ==
  LET slots == SlotsOf(types, root)
      below == FlattenSeq([j \in DOMAIN slots |->
                 [k \in 1..(IF IsPoint(slots[j]) THEN 1 ELSE level1[j + 1] - level1[j]) |-> slots[j]]])
  IN Offsets([k \in DOMAIN below |-> ~IsPoint(below[k])], lengths)

decode_topology(types, streams) ==
  LET absent == [ok |-> TRUE, offsets |-> <<>>]
      level(up, stream, Decode(_)) ==
        IF ~up.ok THEN Failed ELSE IF stream = <<>> THEN absent ELSE Decode(stream[1])
      hasGeo == streams.geo # <<>>
      hasRing == streams.ring # <<>>
      lines == \E i \in DOMAIN types : IsLine(types[i])
      geo == level(absent, streams.geo, LAMBDA s: decode_root_length_stream(types, s, Polygon))
      part == level(geo, streams.part, LAMBDA s:
                IF ~hasGeo THEN decode_root_length_stream(types, s, IF hasRing THEN LineString ELSE Point)
                ELSE decode_level1_length_stream(types, geo.offsets, s,
                                                 IF hasRing THEN Polygons ELSE Lines))
      ring == level(part, IF streams.part = <<>> THEN <<>> ELSE streams.ring, LAMBDA s:
                IF hasGeo THEN decode_level2_length_stream(types, geo.offsets, part.offsets, s)
                ELSE decode_level1_length_stream(types, part.offsets, s,
                                                 IF lines THEN Polygons \cup Lines ELSE Polygons))
  IN IF ~ring.ok THEN Failed
     ELSE [ok |-> TRUE, geometry |-> geo.offsets, part |-> part.offsets, ring |-> ring.offsets]

-----------------------------------------------------------------------------
(* Reading a feature back.  An offset that is not there is Missing, and so   *)
(* is a vertex past the last one: the code returns an error.                *)
Missing == -1
At(level, idx) == IF idx + 1 \in DOMAIN level THEN level[idx + 1] ELSE Missing
Through(level, idx) == IF level = <<>> THEN idx ELSE At(level, idx)

\* A bug seeded for the check: only a multi looks its slot up.
vertex_range_of_multis(g, i) ==
  LET below(range, level) == <<Through(level, range[1]), Through(level, range[2])>>
      geoms == IF IsMulti(g.types[i + 1]) THEN <<At(g.geometry, i), At(g.geometry, i + 1)>> ELSE <<i, i + 1>>
  IN below(below(geoms, g.part), g.ring)

vertex_range(g, i) ==
  LET below(range, level) == <<Through(level, range[1]), Through(level, range[2])>>
      geoms == IF g.geometry = <<>> THEN <<i, i + 1>> ELSE <<At(g.geometry, i), At(g.geometry, i + 1)>>
  IN below(below(geoms, g.part), g.ring)

to_geojson(g, i) ==
  LET run(a, b) == IF Missing \in {a, b} \/ b > g.count THEN <<Missing>>
                   ELSE [k \in 1..(b - a) |-> a + k - 1]
      ringRun(r) == run(At(g.ring, r), At(g.ring, r + 1))
      first == Through(g.geometry, i)
      \* A multi needs the geometry level, a single feature has the one slot.
      slots == IF IsMulti(g.types[i + 1])
               THEN [k \in 1..(At(g.geometry, i + 1) - At(g.geometry, i)) |-> At(g.geometry, i) + k - 1]
               ELSE <<first>>
      vertex(slot) == Through(g.ring, Through(g.part, slot))
      part(slot) ==
        CASE IsPoint(g.types[i + 1]) -> <<run(vertex(slot), vertex(slot) + 1)>>
          [] IsLine(g.types[i + 1])  ->
               <<IF g.ring # <<>> THEN ringRun(At(g.part, slot)) ELSE run(At(g.part, slot), At(g.part, slot + 1))>>
          [] OTHER -> [k \in 1..(At(g.part, slot + 1) - At(g.part, slot)) |-> ringRun(At(g.part, slot) + k - 1)]
  IN [k \in DOMAIN slots |-> part(slots[k])]

(* v1 counts the triangle indices of a polygon from its first vertex, the     *)
(* values from the first one of the layer.                                   *)
rebase_indices(g, sign) ==
  LET polygons == SelectSeq([i \in DOMAIN g.types |-> i], LAMBDA i: IsPolygon(g.types[i]))
      offsets == Started(g.triangles)
      owner(k) == CHOOSE p \in DOMAIN polygons : 3 * offsets[p] < k /\ k <= 3 * offsets[p + 1]
      shifted(k) == IF k > 3 * Last(offsets) THEN g.index[k]
                    ELSE g.index[k] + sign * vertex_range(g, polygons[owner(k)] - 1)[1]
  IN IF g.index = <<>> THEN [ok |-> TRUE, index |-> <<>>]
     ELSE IF Len(offsets) # Len(polygons) + 1 \/ 3 * Last(offsets) > Len(g.index) THEN Failed
     ELSE [ok |-> \A k \in DOMAIN g.index : shifted(k) >= 0, index |-> [k \in DOMAIN g.index |-> shifted(k)]]

rebase_indices_to_layer(g) == rebase_indices(g, 1)
rebase_indices_to_feature(g) == rebase_indices(g, -1)
=============================================================================
