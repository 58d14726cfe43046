----------------------------- MODULE Supervisor -----------------------------
(***************************************************************************)
(* What a supervised process of the coordinator looks like to the threads  *)
(* that Kill or Restart it: in some phases a request returns at once       *)
(* without effect, in the others it waits until the supervisor takes it,   *)
(* and there is a phase in which it waits for ever.                        *)
(*                                                                         *)
(*   down      no command: requests are dropped                            *)
(*   starting  a command, nobody listening: requests wait                  *)
(*   up        listening                                                   *)
(*   busy      in an output handler: requests wait                         *)
(*   closing   the child is gone, the command still there: requests wait   *)
(*   gone      the supervisor returned: requests are dropped               *)
(*   deaf      the supervisor returned and left its command behind:        *)
(*             requests wait for ever                                      *)
(***************************************************************************)
CONSTANT Caller

VARIABLES phase,    \* the phase of the supervisor
          stopped,  \* a Kill was taken
          asking    \* the callers that wait

vars == <<phase, stopped, asking>>

Phase == {"down", "starting", "up", "busy", "closing", "gone", "deaf"}
Silent == {"down", "gone"}   \* phases that drop a request

Init == phase = "down" /\ stopped = FALSE /\ asking = {}

(* The phase changes a supervisor makes on its own. *)
Move(from, to) == phase = from /\ phase' = to /\ UNCHANGED <<stopped, asking>>

Launch     == ~stopped /\ Move("down", "starting")
Listen     == Move("starting", "up")
GiveUp     == Move("starting", "deaf")
Handle     == Move("up", "busy")
Handled    == Move("busy", "up")
ChildGone  == Move("up", "closing")
Close      == Move("closing", "down")
Retire     == Move("down", "gone")

(* A request made while there is a command. *)
Ask(c) == /\ phase \notin Silent
          /\ c \notin asking
          /\ asking' = asking \cup {c}
          /\ UNCHANGED <<phase, stopped>>

(* The supervisor takes a request: a Kill, or a Restart. *)
Take(c) == /\ phase = "up"
           /\ c \in asking
           /\ asking' = asking \ {c}
           /\ stopped' \in {stopped, TRUE}
           /\ UNCHANGED phase

Next == \/ Launch \/ Listen \/ GiveUp \/ Handle \/ Handled
        \/ ChildGone \/ Close \/ Retire
        \/ \E c \in Caller : Ask(c) \/ Take(c)

Spec == Init /\ [][Next]_vars

(* To those who ask, a supervisor is what module Requests says. *)
AnswerIn == [p \in Phase |-> CASE p \in Silent -> "drops"
                               [] p = "up"     -> "takes"
                               [] p = "deaf"   -> "never"
                               [] OTHER        -> "waits"]

Asked == INSTANCE Requests WITH answer <- AnswerIn[phase]
=============================================================================
