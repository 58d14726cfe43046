------------------------------ MODULE MCTempWda -------------------------------
(***************************************************************************)
(* All three tasks; the shutdown may interfere with the one that runs in   *)
(* the event loop.                                                         *)
(***************************************************************************)
EXTENDS TempWda

CONSTANTS user, signal
=============================================================================
