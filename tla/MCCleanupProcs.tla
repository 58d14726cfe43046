---------------------------- MODULE MCCleanupProcs ----------------------------
(***************************************************************************)
(* Two programs of the coordinator, a node process and another program.    *)
(***************************************************************************)
EXTENDS CleanupProcs

CONSTANTS p1, p2, p3, p4

MCKind == [p \in Pid |-> CASE p = p3 -> "node" [] p = p4 -> "other" [] OTHER -> "ours"]
=============================================================================
