------------------------------- MODULE MCLogHup -------------------------------
(***************************************************************************)
(* The instance of LogHup that TLC checks: two goroutines that log next to *)
(* the one that receives the signals.                                      *)
(***************************************************************************)
EXTENDS LogHup

CONSTANTS a, b, h
=============================================================================
