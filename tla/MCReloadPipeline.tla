-------------------------- MODULE MCReloadPipeline --------------------------
(***************************************************************************)
(* Instances of ReloadPipeline for TLC.  Contents that compile are         *)
(* interchangeable: the program only compares hashes.                      *)
(***************************************************************************)
EXTENDS ReloadPipeline, TLC

GoodContents == Permutations(Contents \ Bad)
=============================================================================
