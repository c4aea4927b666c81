---------------------------- MODULE MCFileBrowser ---------------------------
(* An instance of FileBrowser for TLC.                                      *)
EXTENDS FileBrowser, TLC

CONSTANTS a, b, c

Tile(ext, row, traits, size, opens) ==
    [ext |-> ext, row |-> row, traits |-> traits, size |-> size, opens |-> opens]

\* Two files that open, the larger one first and without the trait of the other, so
\* that a filter can empty the list, and one that cannot be read.
MCWalk == <<a, b, c>>

MCContent == (a :> Tile("mlt", "Info", {}, 2, TRUE))
          @@ (b :> Tile("mvt", "Info", {"point"}, 1, TRUE))
          @@ (c :> Tile("mvt", "Error", {}, 1, FALSE))
=============================================================================
