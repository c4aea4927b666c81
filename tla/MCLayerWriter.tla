--------------------------- MODULE MCLayerWriter ---------------------------
(* Instances of LayerWriter for TLC.                                        *)
EXTENDS LayerWriter, TLC

CONSTANTS c1, c2, text, yes

\* One value of each kind.
MCValuesOf == [Str |-> {text}, Bool |-> {yes}]
MCStrings == [Str |-> {text}]

\* No coordinate, one, or one of two.
MCLists == {<<>>, <<c1>>}
MCCoordLists == MCLists \cup {<<c2>>}
=============================================================================
