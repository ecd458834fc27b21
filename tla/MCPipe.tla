------------------------------- MODULE MCPipe -------------------------------
(* Pipe at a size TLC can exhaust. *)
EXTENDS Pipe
=============================================================================
