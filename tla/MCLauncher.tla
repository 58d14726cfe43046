------------------------------ MODULE MCLauncher ------------------------------
(***************************************************************************)
(* Two runs of the program, one daemon and one agent, with two versions of *)
(* each.  The runs are alike: all that is checked is safety, so that they  *)
(* may be exchanged.                                                       *)
(***************************************************************************)
EXTENDS Launcher, TLC

CONSTANTS c1, c2, vpn, app, old, new

Alike == Permutations({c1, c2})
=============================================================================
