------------------------------- MODULE MCPorts -------------------------------
(***************************************************************************)
(* Three phones; two VNC ports, so that the third phone exhausts a pool;   *)
(* five decode ports, so that the third device object gets only one.       *)
(***************************************************************************)
EXTENDS Ports

MCPortRange ==
    [p \in Pool |-> CASE p = "decode" -> 31..35
                      [] p = "vnc" -> 21..22
                      [] OTHER -> 11..13]
=============================================================================
