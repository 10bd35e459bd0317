--------------------------- MODULE MCPipeProtocol ---------------------------
(* Small instances of PipeProtocol for TLC. *)
EXTENDS PipeProtocol
=============================================================================
