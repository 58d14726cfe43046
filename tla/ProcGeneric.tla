----------------------------- MODULE ProcGeneric -----------------------------
(***************************************************************************)
(* One supervised process of the coordinator: the goroutine that           *)
(* proc_generic starts (src/coordinator/proc_generic.go), the child it     *)
(* launches through go-cmd, the backoff between two runs, and the threads  *)
(* that call Kill and Restart.  Kill and Restart read proc.cmd without a   *)
(* lock and then send on a channel without a buffer, so a caller that has  *)
(* seen a command waits until the goroutine is in its select.              *)
(***************************************************************************)
EXTENDS Naturals, Sequences

CONSTANTS Caller,     \* threads that call Kill or Restart
          noRestart,  \* the process option: one run only
          noWait      \* the process option: no backoff between runs

ASSUME OptionAssumption == noRestart \in BOOLEAN /\ noWait \in BOOLEAN

VARIABLES gpc,    \* where the goroutine is
          cmd,    \* proc.cmd # nil
          child,  \* the child process of the last command
          termed, \* go-cmd has sent the child SIGTERM
          stop,   \* the local variable stop
          wda,    \* devd.wda, set by an output line and reset by onStop
          fails,  \* backoff.fails
          nap,    \* the length of the last sleep of backoff.wait
          cpc,    \* where each caller is: not in a call, or waiting to send
          msg     \* the message a waiting caller sends

childVars == <<child, termed>>
backVars  == <<fails, nap>>
callVars  == <<cpc, msg>>
procVars == <<gpc, cmd, child, termed, stop, wda, fails, nap, cpc, msg>>

ProcInit == /\ gpc = "top"
            /\ cmd = FALSE
            /\ child = "none"
            /\ termed = FALSE
            /\ stop = FALSE
            /\ wda = FALSE
            /\ fails = 0
            /\ nap = 0
            /\ cpc = [c \in Caller |-> "idle"]
            /\ msg = [c \in Caller |-> "none"]
-----------------------------------------------------------------------------
(* The goroutine. *)

(* proc.cmd = gocmd.NewCmdOptions(...) *)
NewCommand ==
    /\ gpc = "top"
    /\ gpc' = "start"
    /\ cmd' = TRUE
    /\ UNCHANGED <<child, termed, stop, wda, fails, nap, cpc, msg>>

(* backoff.markStart(); cmd.Start() *)
StartCommand ==
    /\ gpc = "start"
    /\ gpc' = "poll"
    /\ child' = "starting"
    /\ termed' = FALSE
    /\ UNCHANGED <<cmd, stop, wda, fails, nap, cpc, msg>>

(* The bug of a wait that does not look for an early end. *)
PollPid_OnlyPid ==
    /\ gpc = "poll"
    /\ child = "running"
    /\ gpc' = "select"
    /\ UNCHANGED <<cmd, child, termed, stop, wda, fails, nap, cpc, msg>>

(* The loop that waits for a pid.  A child that could not be started, or   *)
(* that has already exited, ends the goroutine for good: proc.cmd stays,   *)
(* onStop does not run and nothing is restarted.  While go-cmd has not     *)
(* started the child yet, the loop sleeps and looks again.                 *)
PollPid ==
    /\ gpc = "poll"
    /\ child # "starting"
    /\ gpc' = IF child = "running" THEN "select" ELSE "returned"
    /\ UNCHANGED <<cmd, child, termed, stop, wda, fails, nap, cpc, msg>>

(* case <- statCh *)
StatusArrives ==
    /\ gpc = "select"
    /\ child = "exited"
    /\ gpc' = "ended"
    /\ UNCHANGED <<cmd, child, termed, stop, wda, fails, nap, cpc, msg>>

(* The bug of a stop that is noted but not carried out. *)
TakeMessage_NoStop(c) ==
    /\ gpc = "select"
    /\ cpc[c] = "send"
    /\ stop' = (stop \/ msg[c] = "kill")
    /\ cpc' = [cpc EXCEPT ![c] = "idle"]
    /\ msg' = [msg EXCEPT ![c] = "none"]
    /\ UNCHANGED <<gpc, cmd, child, termed, wda, fails, nap>>

(* case msg := <- controlCh: both message types stop the child, a kill     *)
(* also sets stop.  Stop does nothing to a child that has exited.          *)
TakeMessage(c) ==
    /\ gpc = "select"
    /\ cpc[c] = "send"
    /\ stop' = (stop \/ msg[c] = "kill")
    /\ termed' = (termed \/ child = "running")
    /\ cpc' = [cpc EXCEPT ![c] = "idle"]
    /\ msg' = [msg EXCEPT ![c] = "none"]
    /\ UNCHANGED <<gpc, cmd, child, wda, fails, nap>>

(* case line := <- outStream or errStream.  Lines the child wrote before   *)
(* it exited may still be in the channel afterwards.  The line that says   *)
(* WDA has started sets devd.wda before the handler does anything else.    *)
OutputLine(says_started) ==
    /\ gpc = "select"
    /\ child \in {"running", "exited"}
    /\ gpc' = "handler"
    /\ wda' = (wda \/ says_started)
    /\ UNCHANGED <<cmd, child, termed, stop, fails, nap, cpc, msg>>

(* The handler returns: the event it sends, if any, has been received.     *)
(* It need not return: the handlers of wdaproxy send on devEventCh, whose  *)
(* receiver may be waiting itself, and that of a device unit may be in a   *)
(* whole restart.                                                          *)
HandlerReturns ==
    /\ gpc = "handler"
    /\ gpc' = "select"
    /\ UNCHANGED <<cmd, child, termed, stop, wda, fails, nap, cpc, msg>>

(* The bug of a run that ends without proc.cmd = nil. *)
RunEnds_KeepsCommand ==
    /\ gpc = "ended"
    /\ gpc' = "onStop"
    /\ UNCHANGED <<cmd, child, termed, stop, wda, fails, nap, cpc, msg>>

(* proc.cmd = nil; backoff.markEnd() *)
RunEnds ==
    /\ gpc = "ended"
    /\ gpc' = "onStop"
    /\ cmd' = FALSE
    /\ UNCHANGED <<child, termed, stop, wda, fails, nap, cpc, msg>>

sleeps == <<0, 0, 2, 5, 10>>
LastIndex == Len(sleeps) - 1

(* The sleep after a run.  fails is only used through index, so it is      *)
(* counted up to the last index and no further.                            *)
wait(quick) ==
    LET index == IF fails < LastIndex THEN fails + 1 ELSE LastIndex
    IN IF quick
       THEN /\ fails' = index
            /\ nap' = sleeps[index + 1]
       ELSE /\ fails' = 0
            /\ nap' = 0

(* The bug of a process without its onStop. *)
AfterRun_NoOnStop ==
    /\ gpc = "onStop"
    /\ IF noRestart \/ stop
       THEN gpc' = "returned" /\ UNCHANGED backVars
       ELSE IF noWait
            THEN gpc' = "top" /\ UNCHANGED backVars
            ELSE gpc' = "wait" /\ \E quick \in BOOLEAN : wait(quick)
    /\ UNCHANGED <<cmd, child, termed, stop, wda, cpc, msg>>

(* The bug of a Restart that is taken for an end. *)
AfterRun_StopOnTerm ==
    /\ gpc = "onStop"
    /\ wda' = FALSE
    /\ IF noRestart \/ termed
       THEN gpc' = "returned" /\ UNCHANGED backVars
       ELSE IF noWait
            THEN gpc' = "top" /\ UNCHANGED backVars
            ELSE gpc' = "wait" /\ \E quick \in BOOLEAN : wait(quick)
    /\ UNCHANGED <<cmd, child, termed, stop, cpc, msg>>

(* onStop, which resets devd.wda; then the end of the goroutine, or the    *)
(* next run, at once or after backoff.wait.  A run is quick if it took     *)
(* less than 20 seconds.                                                   *)
AfterRun ==
    /\ gpc = "onStop"
    /\ wda' = FALSE
    /\ IF noRestart \/ stop
       THEN gpc' = "returned" /\ UNCHANGED backVars
       ELSE IF noWait
            THEN gpc' = "top" /\ UNCHANGED backVars
            ELSE gpc' = "wait" /\ \E quick \in BOOLEAN : wait(quick)
    /\ UNCHANGED <<cmd, child, termed, stop, cpc, msg>>

WakeUp ==
    /\ gpc = "wait"
    /\ gpc' = "top"
    /\ UNCHANGED <<cmd, child, termed, stop, wda, fails, nap, cpc, msg>>

Goroutine == \/ NewCommand \/ StartCommand \/ PollPid \/ StatusArrives
             \/ HandlerReturns \/ RunEnds \/ AfterRun \/ WakeUp
             \/ \E s \in BOOLEAN : OutputLine(s)
-----------------------------------------------------------------------------
(* The child, as go-cmd shows it. *)
Child(from, to) ==
    /\ child = from
    /\ child' = to
    /\ UNCHANGED <<gpc, cmd, termed, stop, wda, fails, nap, cpc, msg>>

ChildStarts == Child("starting", "running")
ChildFails  == Child("starting", "failed")
ChildExits  == Child("running", "exited")

(* A child that was sent SIGTERM. *)
ChildObeys  == termed /\ ChildExits
-----------------------------------------------------------------------------
(* Kill and Restart: return if proc.cmd is nil, otherwise send. *)
Call(c, m) ==
    /\ cpc[c] = "idle"
    /\ cmd
    /\ cpc' = [cpc EXCEPT ![c] = "send"]
    /\ msg' = [msg EXCEPT ![c] = m]
    /\ UNCHANGED <<gpc, cmd, child, termed, stop, wda, fails, nap>>

Kill(c)    == Call(c, "kill")
Restart(c) == Call(c, "restart")

ProcNext == \/ Goroutine
            \/ ChildStarts \/ ChildFails \/ ChildExits
            \/ \E c \in Caller : Kill(c) \/ Restart(c) \/ TakeMessage(c)

(* The goroutine runs; select picks a ready case at random and a channel   *)
(* serves its senders in turn; go-cmd starts a child or fails to; a child  *)
(* obeys SIGTERM.  Nothing makes a child that was not told to exit do so,  *)
(* and nothing makes a handler return.                                     *)
Fairness ==
    /\ WF_procVars(NewCommand) /\ WF_procVars(StartCommand) /\ WF_procVars(PollPid)
    /\ SF_procVars(StatusArrives)
    /\ WF_procVars(RunEnds) /\ WF_procVars(AfterRun) /\ WF_procVars(WakeUp)
    /\ WF_procVars(ChildStarts \/ ChildFails)
    /\ WF_procVars(ChildObeys)
    /\ \A c \in Caller : SF_procVars(TakeMessage(c))

ProcSpec == ProcInit /\ [][ProcNext]_procVars /\ Fairness
-----------------------------------------------------------------------------
Returned == gpc = "returned"
Live == child \in {"starting", "running"}

(* Every variable has its type. *)
ProcTypeOK ==
    /\ gpc \in {"top", "start", "poll", "select", "handler", "ended", "onStop", "wait", "returned"}
    /\ cmd \in BOOLEAN
    /\ child \in {"none", "starting", "running", "exited", "failed"}
    /\ termed \in BOOLEAN
    /\ stop \in BOOLEAN
    /\ wda \in BOOLEAN
    /\ fails \in 0..LastIndex
    /\ nap \in Nat
    /\ cpc \in [Caller -> {"idle", "send"}]
    /\ msg \in [Caller -> {"none", "kill", "restart"}]

(* The coordinator never has a child that nobody supervises: a child lives *)
(* only while the goroutine waits for its pid or its end, so that no       *)
(* process runs twice and none outlives its supervisor                     *)
(* (proc_generic.go:91-210).                                               *)
NoUnsupervisedChild == Live => gpc \in {"poll", "select", "handler"}

(* Once a Kill has been taken, the process is never launched again, even   *)
(* if the child it was meant for had already ended, or another thread asks *)
(* for a Restart afterwards (proc_generic.go:170-175, 203).                *)
KilledStaysDown == [][stop => ~(gpc = "start" /\ gpc' = "poll")]_procVars

(* devd.wda, which the pages and the scheduled restart trust, is never     *)
(* left over from an earlier run when a new one begins, whichever way the  *)
(* earlier one ended (proc_wdaproxy.go:72-92, proc_generic.go:194).        *)
WdaOnlyDuringRun == wda => gpc \in {"select", "handler", "ended", "onStop"}

(* A supervisor that gave up on a child that would not start is never one  *)
(* that was told to stop, and has no child; the command it leaves behind   *)
(* is what makes later requests wait for ever (proc_generic.go:127-143).   *)
AbandonedUntold ==
    Returned /\ cmd => ~stop /\ ~wda /\ child \in {"failed", "exited"}

(* The inductive strengthening: which child and which flags go with each   *)
(* place in the goroutine.                                                 *)
ChildFits ==
    /\ gpc \in {"select", "handler"} => child \in {"running", "exited"}
    /\ gpc \in {"top", "start"} => child \in {"none", "exited"}
    /\ gpc = "poll" => child # "none"
    /\ gpc \in {"ended", "onStop", "wait"} => child = "exited"
    /\ gpc = "returned" => child \in {"exited", "failed"}
CmdFits ==
    /\ gpc \in {"start", "poll", "select", "handler", "ended"} => cmd
    /\ gpc \in {"top", "onStop", "wait"} => ~cmd
StopFits ==
    /\ stop => gpc \in {"select", "handler", "ended", "onStop", "returned"}
    /\ stop /\ Returned => ~cmd
ProcIInv == ProcTypeOK /\ ChildFits /\ CmdFits /\ StopFits /\ WdaOnlyDuringRun

(* The goroutine is caught in an output handler: module DevLoop shows how  *)
(* the event loop, which should receive the handler's event, may wait for  *)
(* ever itself.                                                            *)
HandlerCaught == <>[](gpc = "handler")

(* A request waits in vain only at a supervisor that has returned, or that *)
(* is caught in a handler.  Otherwise every Kill and Restart that found a  *)
(* command is taken, across any number of runs (proc_generic.go:41-49,     *)
(* 165-175).                                                               *)
RequestsTaken ==
    HandlerCaught \/ \A c \in Caller : cpc[c] = "send" ~> cpc[c] = "idle" \/ Returned

(* A Kill that was taken brings the process down for good, unless its      *)
(* supervisor is caught in a handler: that it took the Kill is no help     *)
(* then, since a line the child wrote earlier may still be handled         *)
(* (proc_generic.go:168-190).                                              *)
KillTakesEffect == HandlerCaught \/ (stop ~> [](Returned /\ ~cmd /\ ~Live))

(* A Restart that was taken leads to a new run, unless a Kill overtakes it *)
(* or the process option says one run only, or the supervisor is caught.   *)
RestartRuns ==
    \/ HandlerCaught
    \/ gpc = "select" /\ termed /\ ~stop /\ ~noRestart ~> gpc = "poll" \/ stop
-----------------------------------------------------------------------------
(* The supervisor as its callers see it. *)
AbstractPhase ==
    CASE gpc \in {"top", "onStop", "wait"} -> "down"
      [] gpc \in {"start", "poll"}         -> "starting"
      [] gpc = "select"                    -> "up"
      [] gpc = "handler"                   -> "busy"
      [] gpc = "ended"                     -> "closing"
      [] gpc = "returned"                  -> IF cmd THEN "deaf" ELSE "gone"

Abstract == INSTANCE Supervisor
    WITH phase   <- AbstractPhase,
         stopped <- stop,
         asking  <- {c \in Caller : cpc[c] = "send"}

(* proc_generic is the supervisor that the event loop's model relies on.   *)
ImplementsSupervisor == Abstract!Spec
=============================================================================
