--------------------------- MODULE MCPmtilesEncode ---------------------------
(* Instances of PmtilesEncode for TLC.                                      *)
EXTENDS PmtilesEncode, TLC

CONSTANTS o1, o2, h1, h2


\* Tile o1 may encode to two different results, one of them that of tile o2.
MCEncodings == (o1 :> {h1, h2}) @@ (o2 :> {h2})

\* One tile, one hash.
OneEncoding == (o1 :> {h1})
=============================================================================
