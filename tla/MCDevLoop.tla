------------------------------ MODULE MCDevLoop ------------------------------
(***************************************************************************)
(* One phone that is plugged in twice, so that the threads of its first    *)
(* device object meet those of the second.                                 *)
(***************************************************************************)
EXTENDS DevLoop

CONSTANT d1
=============================================================================
