----------------------- MODULE MCCompilationAttempt -----------------------
(***************************************************************************)
(* Instances of CompilationAttempt for TLC.                                *)
(***************************************************************************)
EXTENDS CompilationAttempt
=============================================================================
