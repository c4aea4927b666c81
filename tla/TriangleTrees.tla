--------------------------- MODULE TriangleTrees ----------------------------
(***************************************************************************)
(* The triangle trees a tessellated v2 layer stores instead of its index    *)
(* buffer (src/rust/mlt-core/src/codecs/tri.rs): the triangles of a feature *)
(* are joined across shared edges into trees, and each tree is written as   *)
(* one symbol per triangle in preorder and the cycle of its outline.  The   *)
(* tree is entered wherever its outline is smallest, so the reader gives    *)
(* back the triangles of a feature in another order, each maybe rotated.    *)
(*                                                                         *)
(* An index buffer is a sequence of vertices, three to a triangle; sides    *)
(* are numbered from 0, side 3t + k running from corner k of triangle t.    *)
(* The buckets that make first_side fast are left out.                      *)
(***************************************************************************)
EXTENDS Integers, SequencesExt

NoTwin == -1

NextSide(side) == IF side % 3 = 2 THEN side - 2 ELSE side + 1
Left(side) == NextSide(side)
Right(side) == NextSide(NextSide(side))

From(indices, side) == indices[side + 1]
To(indices, side) == indices[NextSide(side) + 1]
Sides(indices) == 0..(Len(indices) - 1)

(* A bug seeded for the check: a triangle is joined from both its neighbours. *)
JoinClaimed(indices, forest, side) ==
  LET same == {s \in Sides(indices) : /\ From(indices, s) = To(indices, side)
                                      /\ To(indices, s) = From(indices, side)}
      child == CHOOSE s \in same : \A t \in same : s <= t
  IN IF same = {} THEN forest
     ELSE [forest EXCEPT !.claimed = @ \cup {child \div 3},
                         !.twins = [@ EXCEPT ![side] = child],
                         !.stack = IF (child \div 3) \in forest.claimed THEN @ ELSE Append(@, child)]

(* A side joins the first triangle that holds the same edge reversed, unless *)
(* that triangle is claimed already.                                        *)
Join(indices, forest, side) ==
  LET same == {s \in Sides(indices) : /\ From(indices, s) = To(indices, side)
                                      /\ To(indices, s) = From(indices, side)}
      child == CHOOSE s \in same : \A t \in same : s <= t
  IN IF same = {} \/ (child \div 3) \in forest.claimed THEN forest
     ELSE [forest EXCEPT !.claimed = @ \cup {child \div 3},
                         !.twins = [@ EXCEPT ![side] = child, ![child] = side],
                         !.stack = Append(@, child)]

RECURSIVE Claim(_, _)
Claim(indices, forest) ==
  IF forest.stack = <<>> THEN forest
  ELSE LET entry == Last(forest.stack)
           popped == [forest EXCEPT !.stack = Front(@)]
       IN Claim(indices, Join(indices, Join(indices, popped, Left(entry)), Right(entry)))

(* The spanning forest, a root at the first triangle no tree has reached. *)
Grow(indices) ==
  FoldLeft(LAMBDA forest, t:
             IF t \in forest.claimed THEN forest
             ELSE Claim(indices, [forest EXCEPT !.claimed = @ \cup {t}, !.stack = <<3 * t>>,
                                                !.roots = Append(@, t)]),
           [twins |-> [s \in Sides(indices) |-> NoTwin], claimed |-> {}, roots |-> <<>>, stack |-> <<>>],
           [t \in 1..(Len(indices) \div 3) |-> t - 1])

RECURSIVE Unjoined(_, _)
Unjoined(twins, side) ==
  IF twins[side] = NoTwin THEN <<side>>
  ELSE Unjoined(twins, Left(twins[side])) \o Unjoined(twins, Right(twins[side]))

Outline(twins, entry) == <<entry>> \o Unjoined(twins, Left(entry)) \o Unjoined(twins, Right(entry))

RECURSIVE Symbols(_, _)
Symbols(twins, entry) ==
  LET child(side, weight) == IF twins[side] = NoTwin THEN <<0, <<>>>>
                             ELSE <<weight, Symbols(twins, twins[side])>>
      left == child(Left(entry), 1)
      right == child(Right(entry), 2)
  IN <<left[1] + right[1]>> \o left[2] \o right[2]

(* A tree is entered where its outline has the smallest vertex, and of those *)
(* where the edge runs to the next vertex.                                  *)
Entry(indices, outline) ==
  LET key(i) == 2 * From(indices, outline[i])
                + (IF To(indices, outline[i]) = From(indices, outline[i]) + 1 THEN 0 ELSE 1)
  IN CHOOSE i \in DOMAIN outline :
       \A j \in DOMAIN outline : IF j < i THEN key(i) < key(j) ELSE key(i) <= key(j)

EncodeTree(indices, twins, root) ==
  LET outline == Outline(twins, 3 * root)
      start == Entry(indices, outline)
      rotated == SubSeq(outline, start, Len(outline)) \o SubSeq(outline, 1, start - 1)
  IN [symbols |-> Symbols(twins, rotated[1]),
      cycles |-> [i \in DOMAIN rotated |-> From(indices, rotated[i])]]

\* The indices of the feature whose triangles offsets[f] .. offsets[f + 1] count.
RunOf(indices, offsets, f) == SubSeq(indices, 3 * offsets[f] + 1, 3 * offsets[f + 1])

encode_trees(indices, offsets) ==
  LET feature(f) == LET run == RunOf(indices, offsets, f)
                        forest == Grow(run)
                    IN [t \in DOMAIN forest.roots |-> EncodeTree(run, forest.twins, forest.roots[t])]
      trees == FlattenSeq([f \in 1..(Len(offsets) - 1) |-> feature(f)])
  IN [symbols |-> FlattenSeq([t \in DOMAIN trees |-> trees[t].symbols]),
      cycles |-> FlattenSeq([t \in DOMAIN trees |-> trees[t].cycles])]

-----------------------------------------------------------------------------
HasLeft(symbol) == symbol % 2 = 1
HasRight(symbol) == symbol >= 2

(* The triangles under each node, sized from the last node back, and a zero  *)
(* past it: the left subtree starts right after the node, the right one      *)
(* right after that.                                                        *)
subtree_sizes(symbols) ==
  LET n == Len(symbols)
      size[i \in 1..(n + 1)] ==
        IF i = n + 1 THEN 0
        ELSE LET left == IF HasLeft(symbols[i]) THEN size[i + 1] ELSE 0
             IN 1 + left + (IF HasRight(symbols[i]) THEN size[i + 1 + left] ELSE 0)
      left(i) == IF HasLeft(symbols[i]) THEN size[i + 1] ELSE 0
  IN [ok |-> \A i \in 1..n : /\ HasLeft(symbols[i]) => i < n
                             /\ HasRight(symbols[i]) => i + left(i) < n,
      sizes |-> size]

(* The tree at a node, entered across from -> to: each apex stands after     *)
(* those of the left subtree.                                               *)
RECURSIVE Unfold(_, _, _, _, _, _)
Unfold(symbols, sizes, node, from, to, apexes) ==
  LET left == IF HasLeft(symbols[node]) THEN sizes[node + 1] ELSE 0
      apex == apexes[left + 1]
  IN <<from, to, apex>>
     \o (IF HasLeft(symbols[node])
         THEN Unfold(symbols, sizes, node + 1, apex, to, SubSeq(apexes, 1, left)) ELSE <<>>)
     \o (IF HasRight(symbols[node])
         THEN Unfold(symbols, sizes, node + 1 + left, from, apex,
                     SubSeq(apexes, left + 2, Len(apexes))) ELSE <<>>)

RECURSIVE UnfoldAll(_, _, _, _)
UnfoldAll(symbols, sizes, root, cycles) ==
  IF root > Len(symbols) THEN [ok |-> cycles = <<>>, indices |-> <<>>]
  ELSE IF Len(cycles) < 2 + sizes[root] THEN [ok |-> FALSE]
  ELSE LET apexes == SubSeq(cycles, 3, 2 + sizes[root])
           rest == UnfoldAll(symbols, sizes, root + sizes[root],
                             SubSeq(cycles, 3 + sizes[root], Len(cycles)))
       IN IF ~rest.ok THEN rest
          ELSE [ok |-> TRUE,
                indices |-> Unfold(symbols, sizes, root, cycles[1], cycles[2], apexes) \o rest.indices]

decode_trees(symbols, cycles) ==
  LET tree == subtree_sizes(symbols) IN
  IF (\E i \in DOMAIN symbols : symbols[i] > 3) \/ ~tree.ok THEN [ok |-> FALSE]
  ELSE UnfoldAll(symbols, tree.sizes, 1, cycles)

-----------------------------------------------------------------------------
(* The triangles of a buffer with how often each is there, up to rotation. *)
Canonical(indices) ==
  LET triangle(t) == <<indices[3 * t - 2], indices[3 * t - 1], indices[3 * t]>>
      turned(x) == {x, <<x[2], x[3], x[1]>>, <<x[3], x[1], x[2]>>}
      all == 1..(Len(indices) \div 3)
  IN {<<turned(triangle(t)), Cardinality({u \in all : turned(triangle(u)) = turned(triangle(t))})>>
        : t \in all}

same_triangles(a, b, offsets) ==
  /\ Len(a) = Len(b)
  /\ \A f \in 1..(Len(offsets) - 1) :
       Canonical(RunOf(a, offsets, f)) = Canonical(RunOf(b, offsets, f))
=============================================================================
