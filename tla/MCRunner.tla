------------------------------- MODULE MCRunner -------------------------------
(***************************************************************************)
(* Two web requests at a time, and the signal.                             *)
(***************************************************************************)
EXTENDS Runner

CONSTANTS w1, w2, sig
=============================================================================
