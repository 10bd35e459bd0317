---------------------------- MODULE MCReloadRace ----------------------------
(***************************************************************************)
(* An instance of ReloadPipeline with four edits.  All interleavings of    *)
(* four edits are out of TLC's reach, so the user of this instance waits   *)
(* for a moment to edit: x twice, the second time while the dispatch of    *)
(* the first is about to be validated; then h1, once the debouncer thread  *)
(* has scanned it; then h1 again, once the validator has captured it.      *)
(* Every step of the program is as in Next.                                *)
(***************************************************************************)
EXTENDS MCReloadPipeline

CONSTANTS h1, x

Edited == <<x, x, h1, h1>>
Moment == <<TRUE, tpc = "validate", Done("handler", "scan"), Done("validator", "states")>>

Scripted ==
    edits' # edits => Moment[edits'] /\ disk'[Edited[edits']] # disk[Edited[edits']]

RaceSpec == Init /\ [][Next /\ Scripted]_vars
=============================================================================
