------------------------- MODULE OrderedConversion -------------------------
(***************************************************************************)
(* What a PMTiles to PMTiles conversion promises, whatever threads do it:  *)
(* the tiles the input archive holds are written once each, in ascending   *)
(* tile id order, and the conversion reports success only after all of     *)
(* them.  EncodePipeline implements it.                                    *)
(***************************************************************************)
EXTENDS Naturals, Sequences

CONSTANTS NumIds,    \* tile ids 1..NumIds the input's directory lists, ascending
          Outcomes   \* what may become of an id, see EncodePipeline

VARIABLES archive,   \* archive[id]: what reading and encoding that id comes to
          written,   \* ids given to the output writer, in order
          conv       \* "running", "done" (archive finalized) or "failed"

vars == <<archive, written, conv>>

Ids == 1..NumIds

\* get_tile answers Ok(None) for an id without data; every other id has a tile.
Held(id) == archive[id] # "missing"

WrittenIds == {written[k] : k \in DOMAIN written}

Init ==
    /\ archive \in [Ids -> Outcomes]
    /\ written = <<>>
    /\ conv = "running"

\* The next tile in id order goes to the writer.
Write(id) ==
    /\ conv = "running"
    /\ Held(id)
    /\ id \notin WrittenIds
    /\ \A j \in Ids : j < id /\ Held(j) => j \in WrittenIds
    /\ written' = Append(written, id)
    /\ UNCHANGED <<archive, conv>>

\* Success is reported only when no tile of the input is left out.
Finish ==
    /\ conv = "running"
    /\ \A id \in Ids : Held(id) => id \in WrittenIds
    /\ conv' = "done"
    /\ UNCHANGED <<archive, written>>

Fail ==
    /\ conv = "running"
    /\ conv' = "failed"
    /\ UNCHANGED <<archive, written>>

Next == (\E id \in Ids : Write(id)) \/ Finish \/ Fail

Spec == Init /\ [][Next]_vars
=============================================================================
