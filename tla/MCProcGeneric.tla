---------------------------- MODULE MCProcGeneric ----------------------------
(***************************************************************************)
(* Two callers: the event loop that closes a device and an HTTP handler or *)
(* device unit that restarts one of its processes.                         *)
(***************************************************************************)
EXTENDS ProcGeneric

CONSTANTS c1, c2
=============================================================================
