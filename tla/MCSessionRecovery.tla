------------------------- MODULE MCSessionRecovery -------------------------
(***************************************************************************)
(* Instances of SessionRecovery for TLC.  Contents are interchangeable: no *)
(* action or property tells one from another.                              *)
(***************************************************************************)
EXTENDS SessionRecovery, TLC

Symmetric == Permutations(Contents)
=============================================================================
