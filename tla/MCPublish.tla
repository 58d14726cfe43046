------------------------------ MODULE MCPublish -------------------------------
(***************************************************************************)
(* One phone that comes and goes with its wrapper.                         *)
(***************************************************************************)
EXTENDS Publish

CONSTANT u1
=============================================================================
