------------------------------ MODULE MCRelease -------------------------------
(***************************************************************************)
(* Two phones, of which one is restarted every few hours, too.  Three      *)
(* inputs are enough to put a restart off, pull a phone out and release    *)
(* the other one; where a phone is not released the program rests.         *)
(***************************************************************************)
EXTENDS Release

CONSTANTS d1, d2
=============================================================================
