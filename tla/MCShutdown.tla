----------------------------- MODULE MCShutdown ------------------------------
(***************************************************************************)
(* The provider and one phone, for which any two of these are started: a   *)
(* wdaproxy, which posts events, a device unit, which may restart others,  *)
(* and the vnc_proxy of a first and of a second start of WDA, which        *)
(* cleanup_procs does not know.                                            *)
(***************************************************************************)
EXTENDS Shutdown, TLC

CONSTANTS d1, base, provider, wda, unit, vnc1, vnc2

MCOf == [p \in Proc |-> IF p = provider THEN base ELSE d1]

MCFormer == [p \in Proc |-> IF p = vnc2 THEN vnc1 ELSE Nil]
=============================================================================
