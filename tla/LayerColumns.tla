---------------------------- MODULE LayerColumns ----------------------------
(***************************************************************************)
(* A layer from its features to the wire and back, in the released v1 and    *)
(* the unstable v2 format: the geometry column, an id column and property    *)
(* columns with values missing here and there                               *)
(* (src/rust/mlt-core/src/encoder/encode01.rs and encode02.rs,               *)
(* src/rust/mlt-core/src/decoder/root01.rs and root02.rs).                   *)
(*                                                                         *)
(* The wire is a sequence of numbers.  A byte that packs fields is one       *)
(* number, a varint as many as its bytes; a column's name and its type are   *)
(* its place in Columns.  A v2 reader knows a stream's role from its place   *)
(* and, where the header says nothing, its number of values from the column: *)
(* a reader and a writer that count differently read garbage from there on.  *)
(* Strings, floats, dictionaries, nested and m-value columns are left out,   *)
(* and so is the choice of the shortest encoding: Encode takes any.          *)
(***************************************************************************)
EXTENDS IntegerStreams, GeometryColumn

CONSTANTS
  Layers,      \* the layers that are encoded: sequences of features, with every prefix
  Columns,     \* the columns of a feature, in the order they are written; the id first
  TypeOf,      \* "U32", "I32" or "Bool" for each column
  Options,     \* how a layer may be encoded: format, outlines, forced, encoding
  MaxShared    \* 7 in the code

VARIABLES
  layer,       \* the features staged so far
  geometry,    \* GeometryValues: what they were pushed onto
  choice,      \* how the layer was encoded
  wire,        \* the body of the layer, <<>> until it is encoded
  read         \* what a reader made of it, <<>> until it has

vars == <<layer, geometry, choice, wire, read>>

-----------------------------------------------------------------------------
(* Streams *)
Encodings == <<"Raw", "None", "Delta", "Rle", "DeltaRle", "Delta2">>
CodeOf(encoding) == (CHOOSE i \in DOMAIN Encodings : Encodings[i] = encoding) - 1
IsRle(encoding) == encoding \in {"Rle", "DeltaRle"}
Technique(encoding) == IF encoding = "Raw" THEN "None" ELSE encoding   \* Raw: words of a fixed width

(* What a v1 stream says it holds. *)
RoleTypes == 0
RoleGeometries == 1
RoleParts == 2
RoleRings == 3
RoleTriangles == 4
RoleIndex == 5
RoleVertex == 6
RolePresent == 7
RoleData == 8

(* Use of a value that is computed first. *)
With(value, Use(_)) == Use(value)

PayloadOf(words, encoding) ==
  IF encoding = "Raw" THEN words ELSE FlattenSeq([i \in DOMAIN words |-> Varint(words[i])])

write_stream01(role, values, type, encoding) ==
  With(EncodeInts(values, type, Technique(encoding), "Split"), LAMBDA e:
    LET payload == PayloadOf(e.words, encoding)
    IN <<role, CodeOf(encoding)>> \o Varint(Len(e.words)) \o Varint(Len(payload))
       \o (IF IsRle(encoding) THEN Varint(e.runs) \o Varint(Len(values)) ELSE <<>>) \o payload)

write_bool_stream01(role, bits) ==
  LET payload == encode_byte_rle(Pack(bits))
  IN <<role, CodeOf("Rle")>> \o Varint(Len(bits)) \o Varint(Len(payload)) \o payload

\* A count is written only where it is not the one the reader would assume.
Head02(code, count, implied) ==
  IF count = implied THEN <<2 * code>> ELSE <<2 * code + 1>> \o Varint(count)

write_stream02(values, type, encoding, implied) ==
  With(EncodeInts(values, type, Technique(encoding), "Interleaved"), LAMBDA e:
    LET payload == PayloadOf(e.words, encoding)
    IN Head02(CodeOf(encoding), Len(values), implied)
       \o (IF encoding = "Raw" THEN <<>> ELSE Varint(Len(payload))) \o payload)

CodingCode(coding) == (CHOOSE i \in DOMAIN All : All[i] = coding) - 1
write_bool_stream02(bits, implied) ==
  Head02(CodingCode(Smallest(bits)), Len(bits), implied) \o Write(bits, Smallest(bits))

(* Reading: a parser returns what it found and the rest of the input. *)
Then(parsed, Next_(_)) == IF parsed.ok THEN Next_(parsed) ELSE Fail

Take(input, n) ==
  IF n > Len(input) THEN Fail
  ELSE [ok |-> TRUE, data |-> SubSeq(input, 1, n), rest |-> SubSeq(input, n + 1, Len(input))]

\* n of what Parse reads, one after the other.
Many(input, n, Parse(_, _)) ==
  FoldLeft(LAMBDA acc, k: Then(acc, LAMBDA a: Then(Parse(a.rest, k),
             LAMBDA p: [ok |-> TRUE, items |-> Append(a.items, p), rest |-> p.rest])),
           [ok |-> TRUE, items |-> <<>>, rest |-> input], [k \in 1..n |-> k])

Varints(input, n) ==
  Then(Many(input, n, LAMBDA i, k: ParseVarint(i)),
       LAMBDA m: [ok |-> TRUE, values |-> [k \in 1..n |-> m.items[k].value], rest |-> m.rest])

RECURSIVE AllVarints(_)
AllVarints(data) ==
  IF data = <<>> THEN [ok |-> TRUE, values |-> <<>>]
  ELSE Then(ParseVarint(data), LAMBDA v: Then(AllVarints(v.rest),
         LAMBDA more: [ok |-> TRUE, values |-> <<v.value>> \o more.values]))

EncodingAt(code) == IF code + 1 \in DOMAIN Encodings THEN Encodings[code + 1] ELSE "None"

parse_stream01(input, is_bool) ==
  Then(Take(input, 2), LAMBDA head:
    LET encoding == EncodingAt(head.data[2])
        parameters == IF IsRle(encoding) /\ ~is_bool THEN 4 ELSE 2
    IN Then(Varints(head.rest, parameters), LAMBDA p: Then(Take(p.rest, p.values[2]), LAMBDA t:
         [ok |-> TRUE, role |-> head.data[1], encoding |-> encoding, words |-> p.values[1],
          runs  |-> IF parameters = 4 THEN p.values[3] ELSE 0,
          count |-> IF parameters = 4 THEN p.values[4] ELSE p.values[1],
          data  |-> t.data, rest |-> t.rest])))

Count02(input, implied) ==
  Then(Take(input, 1), LAMBDA head:
    Then(IF head.data[1] % 2 = 1 THEN ParseVarint(head.rest)
         ELSE [ok |-> TRUE, value |-> implied, rest |-> head.rest],
         LAMBDA n: [ok |-> TRUE, code |-> head.data[1] \div 2, count |-> n.value, rest |-> n.rest]))

parse_stream02(input, implied) ==
  Then(Count02(input, implied), LAMBDA head:
    LET encoding == EncodingAt(head.code)
        length == IF encoding = "Raw" THEN [ok |-> TRUE, value |-> head.count, rest |-> head.rest]
                  ELSE ParseVarint(head.rest)
    IN Then(length, LAMBDA n: Then(Take(n.rest, n.value), LAMBDA t:
         [ok |-> TRUE, encoding |-> encoding, words |-> head.count, runs |-> 0,
          count |-> head.count, data |-> t.data, rest |-> t.rest])))

\* Only the runs of a v2 stream are read to the end of their payload.
decode_ints(stream, type, layout) ==
  LET words == IF stream.encoding = "Raw"
               THEN Then(Take(stream.data, stream.words), LAMBDA t: [ok |-> TRUE, values |-> t.data])
               ELSE IF IsRle(stream.encoding) /\ layout # "Split" THEN AllVarints(stream.data)
               ELSE IF stream.words > Len(stream.data) THEN Fail
               ELSE Varints(stream.data, stream.words)
  IN Then(words, LAMBDA w: DecodeInts(w.values, type, Technique(stream.encoding), layout,
                                      stream.runs, stream.count))

read_bits01(input) ==
  Then(parse_stream01(input, TRUE), LAMBDA s:
    Then(decode_byte_rle(s.data, CeilDiv(s.words)), LAMBDA d:
      [ok |-> TRUE, bits |-> SubSeq(Bits(d.bytes), 1, s.words), rest |-> s.rest]))

read_bits02(input, implied) ==
  Then(Count02(input, implied), LAMBDA head:
    IF head.code + 1 \notin DOMAIN All THEN Fail
    ELSE LET coding == All[head.code + 1] IN
         Then(Split(head.rest, head.count, coding), LAMBDA s:
           Then(Read(s.payload, head.count, coding), LAMBDA b:
             [ok |-> b.rest = <<>>, bits |-> b.bits, rest |-> s.rest])))

-----------------------------------------------------------------------------
(* Staging: a column nobody has a value in is dropped, one that everybody    *)
(* has a value in keeps no mask.                                            *)
Staged(features) ==
  LET mask(c) == [i \in DOMAIN features |-> features[i].values[c] # <<>>]
      values(c) == FlattenSeq([i \in DOMAIN features |-> features[i].values[c]])
      kept == SelectSeq([c \in DOMAIN Columns |-> c], LAMBDA c: values(Columns[c]) # <<>>)
      column(c) == [column |-> c, values |-> values(Columns[c]),
                    presence |-> IF Len(values(Columns[c])) = Len(features) THEN <<>>
                                 ELSE <<mask(Columns[c])>>]
  IN [k \in DOMAIN kept |-> column(kept[k])]

ColumnType(c) == TypeOf[Columns[c]]

(* v1: the types of the columns, then their streams.  The geometry comes     *)
(* after the id.                                                            *)
GeometryType01 == 0
write_geometry01(g, forced, encoding) ==
  With(LengthStreams(g, forced), LAMBDA lengths:
  With(decode_topology(g.types, lengths), LAMBDA topology:
    LET drop == g.index = <<>>
        dense == [g EXCEPT !.geometry = topology.geometry, !.part = topology.part, !.ring = topology.ring]
        level(role, stream) == IF stream = <<>> THEN <<>>
                               ELSE <<write_stream01(role, stream[1], "U32", encoding)>>
        vertices == [i \in 1..g.count |-> i - 1]
        \* Runs are no technique of the vertex stream.
        plain == IF IsRle(encoding) THEN "Delta" ELSE encoding
        streams ==
          level(RoleTypes, <<g.types>>) \o level(RoleGeometries, lengths.geo)
          \o level(RoleParts, lengths.part) \o level(RoleRings, lengths.ring)
          \o level(RoleTriangles, IF drop THEN <<>> ELSE <<Diffs(g.triangles)>>)
          \o level(RoleIndex, IF drop THEN <<>> ELSE <<rebase_indices_to_feature(dense).index>>)
          \o <<write_stream01(RoleVertex, vertices, "U32", plain)>>
    IN Varint(Len(streams)) \o FlattenSeq(streams)))

write_column01(c, encoding) ==
  (IF c.presence = <<>> THEN <<>> ELSE write_bool_stream01(RolePresent, c.presence[1]))
  \o (IF ColumnType(c.column) = "Bool" THEN write_bool_stream01(RoleData, c.values)
      ELSE write_stream01(RoleData, c.values, ColumnType(c.column), encoding))

encode_into01(g, staged, how) ==
  LET isId(c) == c.column = 1
      ids == SelectSeq(staged, isId)
      properties == SelectSeq(staged, LAMBDA c: ~isId(c))
      types(cs) == [k \in DOMAIN cs |-> 2 * cs[k].column + (IF cs[k].presence = <<>> THEN 0 ELSE 1)]
      data(cs) == FlattenSeq([k \in DOMAIN cs |-> write_column01(cs[k], how.encoding)])
  IN Varint(Len(staged) + 1) \o types(ids) \o <<GeometryType01>> \o types(properties)
     \o data(ids) \o write_geometry01(g, how.forced, how.encoding) \o data(properties)

(* A stream that comes twice, or a role the column has no place for, fails;   *)
(* so do triangles without outlines.                                        *)
GeometryOf(types, streams, triangles, index, vertices) ==
  Then(decode_topology(types, streams), LAMBDA levels:
    [ok |-> TRUE,
     values |-> [types |-> types, geometry |-> levels.geometry, part |-> levels.part,
                 ring |-> levels.ring, index |-> index,
                 triangles |-> IF triangles = <<>> THEN <<>> ELSE PushLengths(<<>>, triangles[1]),
                 count |-> Len(vertices)],
     vertices |-> vertices])

read_geometry01(input) ==
  Then(ParseVarint(input), LAMBDA n:
  IF n.value = 0 \/ n.value > Len(n.rest) THEN Fail ELSE
  Then(Many(n.rest, n.value, LAMBDA i, k: parse_stream01(i, FALSE)), LAMBDA m:
    LET of(role) == SelectSeq(Tail(m.items), LAMBDA s: s.role = role)
        all == [k \in DOMAIN m.items |-> decode_ints(m.items[k], "U32", "Split")]
        ints(role) == [k \in DOMAIN of(role) |-> decode_ints(of(role)[k], "U32", "Split").values]
        roles == RoleGeometries..RoleVertex
    IN IF \/ \E k \in DOMAIN all : ~all[k].ok
          \/ \E k \in 2..Len(m.items) : m.items[k].role \notin roles
          \/ \E role \in roles : Len(of(role)) > 1
          \/ ints(RoleIndex) # <<>> /\ ints(RoleParts) = <<>>
       THEN Fail
       ELSE Then(GeometryOf(all[1].values,
                   [geo |-> ints(RoleGeometries), part |-> ints(RoleParts), ring |-> ints(RoleRings)],
                   ints(RoleTriangles), FlattenSeq(ints(RoleIndex)), FlattenSeq(ints(RoleVertex))),
                 LAMBDA g: Then(rebase_indices_to_layer(g.values), LAMBDA r:
                   [ok |-> TRUE, values |-> [g.values EXCEPT !.index = r.index],
                    vertices |-> g.vertices, rest |-> m.rest]))))

read_column01(input, type) ==
  LET c == type \div 2
      presence == IF type % 2 = 1 THEN read_bits01(input) ELSE [ok |-> TRUE, rest |-> input]
  IN IF c \notin DOMAIN Columns THEN Fail
     ELSE Then(presence, LAMBDA p:
       LET column(values, rest) ==
             [ok |-> TRUE, rest |-> rest,
              column |-> [column |-> c, values |-> values,
                          presence |-> IF type % 2 = 1 THEN <<p.bits>> ELSE <<>>]]
       IN IF ColumnType(c) = "Bool" THEN Then(read_bits01(p.rest), LAMBDA b: column(b.bits, b.rest))
          ELSE Then(parse_stream01(p.rest, FALSE), LAMBDA s:
                 Then(decode_ints(s, ColumnType(c), "Split"), LAMBDA v: column(v.values, s.rest))))

\* The columns that are no geometry, and all of the input read.
Layer(parsed, geometries, columns) ==
  IF parsed.rest # <<>> \/ Len(geometries) # 1 THEN Fail
  ELSE [ok |-> TRUE, geometry |-> geometries[1].values, vertices |-> geometries[1].vertices,
        columns |-> [k \in DOMAIN columns |-> columns[k].column]]

parse_layer01(input) ==
  Then(ParseVarint(input), LAMBDA n: Then(Take(n.rest, n.value), LAMBDA types:
  Then(Many(types.rest, n.value,
            LAMBDA i, k: IF types.data[k] = GeometryType01 THEN read_geometry01(i)
                         ELSE read_column01(i, types.data[k])),
       LAMBDA m: LET isGeometry(k) == types.data[k] = GeometryType01
                     indices == [k \in 1..n.value |-> k]
                     those(S(_)) == LET ks == SelectSeq(indices, S) IN [k \in DOMAIN ks |-> m.items[ks[k]]]
                 IN Layer(m, those(isGeometry), those(LAMBDA k: ~isGeometry(k))))))

-----------------------------------------------------------------------------
(* v2: the masks that several columns share come first, the most read of     *)
(* them, in the order in which the columns first need them.                  *)
SharedPresence(staged) ==
  LET optional == SelectSeq(staged, LAMBDA c: c.presence # <<>>)
      mask(k) == optional[k].presence[1]
      readers(k) == Cardinality({j \in DOMAIN optional : mask(j) = mask(k)})
      groups == {k \in DOMAIN optional : readers(k) > 1 /\ \A j \in 1..(k - 1) : mask(j) # mask(k)}
      before(j, k) == readers(j) > readers(k) \/ (readers(j) = readers(k) /\ j < k)
      kept == SelectSeq([k \in DOMAIN optional |-> k],
                LAMBDA k: k \in groups /\ Cardinality({j \in groups : before(j, k)}) < MaxShared)
  IN [k \in DOMAIN kept |-> mask(kept[k])]

Coded(masks) == \E k \in DOMAIN masks : Smallest(masks[k]) # "Bitmap"

write_shared(masks) ==
  FlattenSeq([k \in DOMAIN masks |->
     (IF Coded(masks) THEN <<CodingCode(Smallest(masks[k]))>> ELSE <<>>)
     \o Write(masks[k], Smallest(masks[k]))])

(* Which length streams a layout declares.  A tessellated layer has all of   *)
(* them, or none.                                                           *)
LayoutOf(streams, tessellated) ==
  (IF streams.geo = <<>> THEN 0 ELSE 1)
  + 2 * (IF streams.part = <<>> THEN 0 ELSE IF streams.ring = <<>> THEN 1 ELSE 2)
  + (IF tessellated THEN 6 ELSE 0)

encode_geometry02(g, outlines) ==
  With(LengthStreams(g, FALSE), LAMBDA lengths:
  LET tessellated == g.index # <<>>
      polygonsOnly == \A i \in DOMAIN g.types : IsPolygon(g.types[i])
      filled(stream) == IF stream = <<>> THEN <<<<>>>> ELSE stream
      dropped == tessellated /\ outlines = "DropForPolygons" /\ polygonsOnly
      streams == [level \in DOMAIN lengths |->
                    IF dropped THEN <<>>
                    ELSE IF tessellated THEN filled(lengths[level]) ELSE lengths[level]]
  IN [streams |-> streams, tessellated |-> tessellated, layout |-> LayoutOf(streams, tessellated)])

\* The one type of all features, which then write no types.
uniform_type(types) ==
  IF types # <<>> /\ \A i \in DOMAIN types : types[i] = types[1] THEN <<types[1]>> ELSE <<>>

write_geometry02(g, section, encoding) ==
  With(encode_trees(g.index, g.triangles), LAMBDA trees:
  LET n == Len(g.types)
      stream(values) == write_stream02(values, "U32", encoding, n)
      level(s) == IF s = <<>> THEN <<>> ELSE stream(s[1])
      plain == IF IsRle(encoding) THEN "Delta" ELSE encoding
  IN (IF uniform_type(g.types) = <<>> THEN stream(g.types) ELSE <<>>)
     \o level(section.streams.geo) \o level(section.streams.part) \o level(section.streams.ring)
     \o (IF section.tessellated
         THEN stream(Diffs(g.triangles)) \o stream(trees.symbols) \o stream(trees.cycles) ELSE <<>>)
     \o write_stream02([i \in 1..g.count |-> i - 1], "U32", plain, n))

(* A column's type byte: no mask, its own mask in a coding, or a shared one.  *)
SharedBase == 4
TypeByte(nibble, c) == nibble * (Len(Columns) + 1) + c

write_column02(c, masks, features, encoding) ==
  LET shared == IF c.presence = <<>> THEN {} ELSE {k \in DOMAIN masks : masks[k] = c.presence[1]}
      nibble == IF c.presence = <<>> THEN 0
                ELSE IF shared # {} THEN SharedBase + (CHOOSE k \in shared : TRUE) - 1
                ELSE 1 + CodingCode(Smallest(c.presence[1]))
      popcount == IF c.presence = <<>> THEN features ELSE Count(c.presence[1])
  IN <<TypeByte(nibble, c.column)>>
     \o (IF c.presence = <<>> \/ shared # {} THEN <<>> ELSE Write(c.presence[1], Smallest(c.presence[1])))
     \o (IF ColumnType(c.column) = "Bool" THEN write_bool_stream02(c.values, popcount)
         ELSE write_stream02(c.values, ColumnType(c.column), encoding, popcount))

encode_into02(g, staged, how) ==
  LET masks == SharedPresence(staged)
      section == encode_geometry02(g, how.outlines)
      uniform == uniform_type(g.types)
      n == Len(g.types)
  IN <<IF uniform = <<>> THEN 0 ELSE uniform[1] + 1>> \o Varint(n)
     \o <<section.layout + 16 * Len(masks) + (IF Coded(masks) THEN 128 ELSE 0)>> \o write_shared(masks)
     \o write_geometry02(g, section, how.encoding) \o Varint(Len(staged))
     \o FlattenSeq([k \in DOMAIN staged |-> write_column02(staged[k], masks, n, how.encoding)])

read_shared(input, n, coded, count) ==
  Many(input, count, LAMBDA i, k:
    Then(IF coded THEN Take(i, 1) ELSE [ok |-> TRUE, data |-> <<0>>, rest |-> i], LAMBDA head:
      IF head.data[1] + 1 \notin DOMAIN All THEN Fail
      ELSE Read(head.rest, n, All[head.data[1] + 1])))

read_geometry02(input, uniform, layout, n) ==
  LET ints(i, present) ==
        IF ~present THEN [ok |-> TRUE, values |-> <<>>, rest |-> i]
        ELSE Then(parse_stream02(i, n), LAMBDA s: Then(decode_ints(s, "U32", "Interleaved"),
               LAMBDA v: [ok |-> TRUE, values |-> <<v.values>>, rest |-> s.rest]))
      tess == layout >= 6
      levels == (layout % 6) \div 2
      declared == <<uniform = <<>>, layout % 2 = 1, levels > 0, levels > 1, tess, tess, tess, TRUE>>
  IN Then(Many(input, 8, LAMBDA i, k: ints(i, declared[k])), LAMBDA m:
       LET part(k) == m.items[k].values
           types == IF uniform = <<>> THEN part(1)[1] ELSE [i \in 1..n |-> uniform[1]]
           trees == IF tess THEN decode_trees(part(6)[1], part(7)[1]) ELSE [ok |-> TRUE, indices |-> <<>>]
           cycles == IF tess THEN part(7)[1] ELSE <<>>
       IN IF \/ ~trees.ok
             \/ tess /\ part(3) = <<>> /\ \E i \in DOMAIN types : ~IsPolygon(types[i])
             \/ tess /\ 3 * Sum(part(5)[1]) # Len(trees.indices)
             \/ \E i \in DOMAIN cycles : cycles[i] >= Len(part(8)[1])
          THEN Fail
          ELSE Then(GeometryOf(types, [geo |-> part(2), part |-> part(3), ring |-> part(4)],
                               part(5), trees.indices, part(8)[1]),
                    LAMBDA g: [ok |-> TRUE, values |-> g.values, vertices |-> g.vertices, rest |-> m.rest]))

\* A bug seeded for the check: a column with a mask counts every feature.
data_count_of_all(mask, n) == n

\* How many values a reader expects of a column.
data_count(mask, n) == IF mask = <<>> THEN n ELSE Count(mask[1])

read_column02(input, masks, n) ==
  Then(Take(input, 1), LAMBDA head:
    LET c == head.data[1] % (Len(Columns) + 1)
        nibble == head.data[1] \div (Len(Columns) + 1)
        presence ==
          CASE nibble = 0 -> [ok |-> TRUE, mask |-> <<>>, rest |-> head.rest]
            [] nibble \in 1..(SharedBase - 1) ->
                 Then(Read(head.rest, n, All[nibble]),
                      LAMBDA b: [ok |-> TRUE, mask |-> <<b.bits>>, rest |-> b.rest])
            [] nibble - SharedBase + 1 \in DOMAIN masks ->
                 [ok |-> TRUE, mask |-> <<masks[nibble - SharedBase + 1]>>, rest |-> head.rest]
            [] OTHER -> Fail
    IN IF c \notin DOMAIN Columns THEN Fail
       ELSE Then(presence, LAMBDA p:
         LET count == data_count(p.mask, n)
             column(values, rest) ==
               [ok |-> TRUE, rest |-> rest,
                column |-> [column |-> c, values |-> values, presence |-> p.mask]]
         IN IF ColumnType(c) = "Bool" THEN Then(read_bits02(p.rest, count), LAMBDA b: column(b.bits, b.rest))
            ELSE Then(parse_stream02(p.rest, count), LAMBDA s:
                   Then(decode_ints(s, ColumnType(c), "Interleaved"), LAMBDA v: column(v.values, s.rest)))))

parse_layer02(input) ==
  Then(Take(input, 1), LAMBDA head: Then(ParseVarint(head.rest), LAMBDA n:
  Then(Take(n.rest, 1), LAMBDA byte:
    LET coded == byte.data[1] >= 128
        uniform == IF head.data[1] = 0 THEN <<>> ELSE <<head.data[1] - 1>>
    IN Then(read_shared(byte.rest, n.value, coded, (byte.data[1] % 128) \div 16), LAMBDA shared:
       Then(read_geometry02(shared.rest, uniform, byte.data[1] % 16, n.value), LAMBDA g:
       Then(ParseVarint(g.rest), LAMBDA columns:
         LET masks == [k \in DOMAIN shared.items |-> shared.items[k].bits]
         IN IF columns.value > Len(columns.rest) THEN Fail
            ELSE Then(Many(columns.rest, columns.value, LAMBDA i, k: read_column02(i, masks, n.value)),
                      LAMBDA m: Layer(m, <<g>>, m.items))))))))

-----------------------------------------------------------------------------
Features == UNION {Range(l) : l \in Layers}

Init ==
  /\ layer = <<>>
  /\ geometry \in {NoGeometry(TRUE), NoGeometry(FALSE)}
  /\ choice = <<>>
  /\ wire = <<>>
  /\ read = <<>>

(* A feature joins the layer. *)
Push(f) ==
  /\ wire = <<>>
  /\ Append(layer, f) \in Layers
  /\ layer' = Append(layer, f)
  /\ geometry' = push_geom(geometry, f)
  /\ UNCHANGED <<choice, wire, read>>

(* The layer is written, in either format. *)
Encode(how) ==
  /\ wire = <<>> /\ layer # <<>>
  /\ choice' = <<how>>
  /\ \E staged \in {Staged(layer)} :
        wire' = IF how.format = "v1" THEN encode_into01(geometry, staged, how)
                ELSE encode_into02(geometry, staged, how)
  /\ UNCHANGED <<layer, geometry, read>>

(* A reader gets it. *)
Decode ==
  /\ wire # <<>> /\ read = <<>>
  /\ read' = <<IF choice[1].format = "v1" THEN parse_layer01(wire) ELSE parse_layer02(wire)>>
  /\ UNCHANGED <<layer, geometry, choice, wire>>

Next == (\E f \in Features : Push(f)) \/ (\E how \in Options : Encode(how)) \/ Decode

Spec == Init /\ [][Next]_vars

-----------------------------------------------------------------------------
Back == read[1].geometry
TrianglesOnly == Back.index # <<>> /\ Back.part = <<>>

Rising(offsets) == offsets = <<>> \/ (offsets[1] = 0 /\ \A i \in 1..(Len(offsets) - 1) : offsets[i] <= offsets[i + 1])

(* Every level starts at 0 and never falls, every triangle has three corners *)
(* among the vertices, and the wire holds numbers.                          *)
TypeOK ==
  /\ layer \in Layers \cup {<<>>}
  /\ \A level \in {geometry.geometry, geometry.part, geometry.ring, geometry.triangles} : Rising(level)
  /\ Len(geometry.index) = 3 * Last(Started(geometry.triangles))
  /\ \A i \in DOMAIN geometry.index : geometry.index[i] \in 0..(geometry.count - 1)
  /\ \A i \in DOMAIN wire : wire[i] \in Nat
  /\ Len(choice) <= 1 /\ Len(read) <= 1

(* Every feature of the layer comes back with its type and its vertices, in  *)
(* the order they were pushed, whatever features stand before it and         *)
(* whichever levels, streams and padding the format gave them.               *)
GeometriesReadBack ==
  read # <<>> =>
    /\ read[1].ok
    /\ Back.types = [i \in DOMAIN layer |-> layer[i].type]
    /\ read[1].vertices = [i \in 1..geometry.count |-> i - 1]
    /\ ~TrianglesOnly =>
         \A i \in DOMAIN layer :
           LET first == Sum([j \in 1..(i - 1) |-> Vertices(layer[j])])
               before(p, r) == Sum(FlattenSeq(SubSeq(layer[i].parts, 1, p - 1)))
                               + Sum(SubSeq(layer[i].parts[p], 1, r - 1))
               given == [p \in DOMAIN layer[i].parts |->
                          [r \in DOMAIN layer[i].parts[p] |->
                            [k \in 1..layer[i].parts[p][r] |-> first + before(p, r) + k - 1]]]
           IN to_geojson(Back, i - 1) = given

(* The vertex ranges of the features follow one another and cover the        *)
(* vertices, so a value per vertex, or a triangle index counted from a        *)
(* feature's first vertex, finds the vertex it was written for.              *)
VertexRangesTile ==
  read # <<>> /\ read[1].ok /\ ~TrianglesOnly =>
    \A i \in DOMAIN layer :
      vertex_range(Back, i - 1) =
        <<Sum([j \in 1..(i - 1) |-> Vertices(layer[j])]), Sum([j \in 1..i |-> Vertices(layer[j])])>>

(* Every polygon comes back with the triangles it was cut into: the very      *)
(* same ones from v1, from the trees of v2 in any order and rotation.  An     *)
(* index names a vertex of the layer in memory, and of its feature in v1.     *)
TrianglesReadBack ==
  read # <<>> => read[1].ok /\
    IF geometry.index = <<>> THEN Back.index = <<>>
    ELSE /\ Back.triangles = geometry.triangles
         /\ IF choice[1].format = "v1" THEN Back.index = geometry.index
            ELSE same_triangles(geometry.index, Back.index, geometry.triangles)

(* Every column that has a value comes back with its values and with the     *)
(* features that have one, from its own mask or a shared one, and nothing is  *)
(* left unread.                                                             *)
ColumnsReadBack == read # <<>> => read[1].ok /\ read[1].columns = Staged(layer)

(* The three codings of a mask agree: each takes the size that was foretold   *)
(* for it, so the one that is chosen is the smallest, and with another mask    *)
(* right behind it, it ends where its writer ended and holds as many set bits. *)
CodingsAgree ==
  \A k \in DOMAIN Staged(layer) : \A mask \in Range(Staged(layer)[k].presence) :
    \A coding \in Range(All) :
      LET written == Write(mask, coding)
          found == Split(written \o written, Len(mask), coding)
      IN /\ Size(mask, coding) = Len(written)
         /\ Len(Write(mask, Smallest(mask))) <= Len(written)
         /\ found.ok /\ found.payload = written
         /\ Popcount(written, Len(mask), coding) = Count(mask)
=============================================================================
