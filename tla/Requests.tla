------------------------------ MODULE Requests ------------------------------
(***************************************************************************)
(* What a thread may rely on that Kills or Restarts a supervised process,  *)
(* and no more: the common part of what the models say of supervisors,     *)
(* whichever of their phases they tell apart.                              *)
(*                                                                         *)
(*   drops   a request returns at once, without effect                     *)
(*   waits   a request waits                                               *)
(*   takes   a request is taken                                            *)
(*   never   a request waits for ever                                      *)
(***************************************************************************)
CONSTANT Caller

VARIABLES answer,   \* what becomes of a request
          stopped,  \* a Kill was taken
          asking    \* the callers that wait

vars == <<answer, stopped, asking>>

Answer == {"drops", "waits", "takes", "never"}

Init == answer \in {"drops", "takes"} /\ stopped = FALSE /\ asking = {}

(* The supervisor goes on by itself.  One that has taken a Kill and drops  *)
(* requests has no child and starts none any more; one that never answers  *)
(* does not come back.                                                     *)
Change == /\ answer # "never"
          /\ ~(stopped /\ answer = "drops")
          /\ answer' \in Answer
          /\ UNCHANGED <<stopped, asking>>

Ask(c) == /\ answer # "drops"
          /\ asking' = asking \cup {c}
          /\ UNCHANGED <<answer, stopped>>

(* A request is taken, which may be a Kill; of a caller that waits, or of  *)
(* one that comes at this moment.                                          *)
Taken == /\ answer = "takes"
         /\ stopped' \in {stopped, TRUE}
         /\ UNCHANGED answer

Take(c) == Taken /\ c \in asking /\ asking' = asking \ {c}
AtOnce  == Taken /\ UNCHANGED asking

Next == Change \/ AtOnce \/ \E c \in Caller : Ask(c) \/ Take(c)

Spec == Init /\ [][Next]_vars
=============================================================================
