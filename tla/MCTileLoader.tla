---------------------------- MODULE MCTileLoader ----------------------------
(* Instances of TileLoader for TLC.                                         *)
EXTENDS TileLoader, TLC

View(z, first, last) == [z |-> z, first |-> first, last |-> last]

\* Both ends of zoom 2, each out of the other's margin, and a view panned off the
\* east edge, which shows no tile.
MCViews == {View(2, 0, 0), View(2, 3, 3), View(2, 5, 3)}

\* The tiles these views reach.
MCContent == (<<0, 0>> :> "tile") @@ (<<1, 0>> :> "tile") @@ (<<1, 1>> :> "empty")
          @@ (<<2, 0>> :> "tile") @@ (<<2, 3>> :> "bad")
=============================================================================
