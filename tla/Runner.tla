-------------------------------- MODULE Runner --------------------------------
(***************************************************************************)
(* The runner (src/runner), which runs the coordinator in a loop and lets  *)
(* operators start, stop, restart and update it from a web page.  The loop *)
(* is the goroutine of proc_generic in runner.go; every web request and    *)
(* the signal handler is a thread that hands it messages over a channel    *)
(* without a buffer.                                                       *)
(***************************************************************************)
EXTENDS Naturals

CONSTANTS Web,  \* the web requests that may be in progress together
          Sig   \* the signal handler's goroutine

ASSUME CallerAssumption == Sig \notin Web

Caller == Web \cup {Sig}

VARIABLES gpc,     \* where the goroutine is
          hold,    \* its local variable hold
          stop,    \* its local variable stop
          cmd,     \* proc.cmd # nil
          child,   \* the coordinator of the last run
          termed,  \* go-cmd has sent it SIGTERM
          binary,  \* the coordinator's binary exists
          cpc,     \* where each caller is
          msg,     \* the message a waiting caller sends
          exited,  \* the runner has exited
          down     \* a Stop has returned, and no Start after it

runnerVars == <<gpc, hold, stop, cmd, child, termed, binary, cpc, msg, exited, down>>

(* runUpdate sends its own stop and start. *)
Message == {"kill", "restart", "start", "stop", "updateStop", "updateStart"}
IsStart(m) == m \in {"start", "updateStart"}
IsStop(m)  == m \in {"stop", "updateStop"}

RunnerInit == /\ gpc = "top"
              /\ hold = FALSE
              /\ stop = FALSE
              /\ cmd = FALSE
              /\ child = "none"
              /\ termed = FALSE
              /\ binary \in BOOLEAN
              /\ cpc = [c \in Caller |-> "idle"]
              /\ msg = [c \in Caller |-> "none"]
              /\ exited = FALSE
              /\ down = FALSE
-----------------------------------------------------------------------------
(* What the goroutine does once it has received the message of caller c:   *)
(* the caller goes on, an update to the removal of the old installation,   *)
(* the signal handler to its cleanup.                                      *)
Received(c) ==
    /\ cpc' = [cpc EXCEPT ![c] = CASE msg[c] = "updateStop" -> "erase"
                                   [] msg[c] = "kill"       -> "cleanup"
                                   [] OTHER                 -> "idle"]
    /\ msg' = [msg EXCEPT ![c] = "none"]
    /\ down' = ((down \/ IsStop(msg[c])) /\ ~IsStart(msg[c]))

(* The top of the loop: wait if the coordinator is held, or its binary is  *)
(* missing; otherwise launch it.                                           *)
Top ==
    /\ ~exited
    /\ gpc = "top"
    /\ IF hold \/ ~binary
       THEN /\ gpc' = "held"
            /\ hold' = TRUE
            /\ UNCHANGED <<cmd, child, termed>>
       ELSE /\ gpc' = "poll"
            /\ cmd' = TRUE
            /\ child' = "starting"
            /\ termed' = FALSE
            /\ UNCHANGED hold
    /\ UNCHANGED <<stop, binary, cpc, msg, exited, down>>

(* The bug of a wait that leaves every message but a start in the channel. *)
TakeHeld_OnlyStart(c) ==
    /\ ~exited
    /\ gpc = "held"
    /\ cpc[c] = "send"
    /\ IsStart(msg[c])
    /\ Received(c)
    /\ hold' = FALSE
    /\ gpc' = "top"
    /\ UNCHANGED <<stop, cmd, child, termed, binary, exited>>

(* A message while the coordinator is held: only a start does anything.    *)
TakeHeld(c) ==
    /\ ~exited
    /\ gpc = "held"
    /\ cpc[c] = "send"
    /\ Received(c)
    /\ hold' = ~IsStart(msg[c])
    /\ gpc' = IF IsStart(msg[c]) THEN "top" ELSE "held"
    /\ UNCHANGED <<stop, cmd, child, termed, binary, exited>>

(* The loop that waits for a pid.  It has no end when the launch fails:    *)
(* its counter is never raised.                                            *)
PollPid ==
    /\ ~exited
    /\ gpc = "poll"
    /\ child \in {"running", "exited"}
    /\ gpc' = "select"
    /\ UNCHANGED <<hold, stop, cmd, child, termed, binary, cpc, msg, exited, down>>

(* The bug of a stop that is not noted. *)
TakeMessage_NoHold(c) ==
    /\ ~exited
    /\ gpc = "select"
    /\ cpc[c] = "send"
    /\ Received(c)
    /\ stop' = (stop \/ msg[c] = "kill")
    /\ IF IsStart(msg[c])
       THEN UNCHANGED <<gpc, termed>>
       ELSE /\ termed' = (termed \/ child = "running")
            /\ gpc' = "cleanup"
    /\ UNCHANGED <<hold, cmd, child, binary, exited>>

(* A message while the coordinator runs: a kill is final, a stop holds the *)
(* next run back, both and a restart stop the coordinator and clean up     *)
(* after it.  A start does nothing, whether or not a stop came before it.  *)
TakeMessage(c) ==
    /\ ~exited
    /\ gpc = "select"
    /\ cpc[c] = "send"
    /\ Received(c)
    /\ stop' = (stop \/ msg[c] = "kill")
    /\ hold' = (hold \/ IsStop(msg[c]))
    /\ IF IsStart(msg[c])
       THEN UNCHANGED <<gpc, termed>>
       ELSE /\ termed' = (termed \/ child = "running")
            /\ gpc' = "cleanup"
    /\ UNCHANGED <<cmd, child, binary, exited>>

(* cleanup_subprocs: run the coordinator's binary with -killProcs.         *)
CleanupReturns ==
    /\ ~exited
    /\ gpc = "cleanup"
    /\ gpc' = "select"
    /\ UNCHANGED <<hold, stop, cmd, child, termed, binary, cpc, msg, exited, down>>

StatusArrives ==
    /\ ~exited
    /\ gpc = "select"
    /\ child = "exited"
    /\ gpc' = "ended"
    /\ UNCHANGED <<hold, stop, cmd, child, termed, binary, cpc, msg, exited, down>>

RunEnds ==
    /\ ~exited
    /\ gpc = "ended"
    /\ cmd' = FALSE
    /\ gpc' = IF stop THEN "returned" ELSE "wait"
    /\ UNCHANGED <<hold, stop, child, termed, binary, cpc, msg, exited, down>>

(* backoff.wait, as in module ProcGeneric *)
WakeUp ==
    /\ ~exited
    /\ gpc = "wait"
    /\ gpc' = "top"
    /\ UNCHANGED <<hold, stop, cmd, child, termed, binary, cpc, msg, exited, down>>
-----------------------------------------------------------------------------
(* The coordinator.  The programs it leaves are module CleanupProcs' part. *)
Child(from, to) ==
    /\ child = from
    /\ child' = to
    /\ UNCHANGED <<gpc, hold, stop, cmd, termed, binary, cpc, msg, exited, down>>

ChildStarts == binary /\ Child("starting", "running")
ChildFails  == Child("starting", "failed")
ChildExits  == Child("running", "exited")
ChildObeys  == termed /\ ChildExits
-----------------------------------------------------------------------------
(* The callers.  Kill and Restart return if proc.cmd is nil.               *)
Send(c, m) ==
    /\ ~exited
    /\ cpc' = [cpc EXCEPT ![c] = "send"]
    /\ msg' = [msg EXCEPT ![c] = m]
    /\ UNCHANGED <<gpc, hold, stop, cmd, child, termed, binary, exited, down>>

handleStart(c)   == cpc[c] = "idle" /\ Send(c, "start")
handleStop(c)    == cpc[c] = "idle" /\ Send(c, "stop")
handleRestart(c) == cpc[c] = "idle" /\ cmd /\ Send(c, "restart")

(* runUpdate, step by step. *)
UpdateStops(c) == cpc[c] = "idle" /\ Send(c, "updateStop")

UpdateStep(c, from, to) ==
    /\ ~exited
    /\ cpc[c] = from
    /\ cpc' = [cpc EXCEPT ![c] = to]
    /\ UNCHANGED <<gpc, hold, stop, cmd, child, termed, msg, exited, down>>

(* os.RemoveAll( installDir ) *)
UpdateErases(c) == UpdateStep(c, "erase", "fetch") /\ binary' = FALSE

(* No update information: return, with nothing installed and held. *)
UpdateFails(c) == UpdateStep(c, "fetch", "idle") /\ UNCHANGED binary

(* The install program, whose result is not looked at. *)
UpdateInstalls(c) == UpdateStep(c, "fetch", "start") /\ binary' \in {binary, TRUE}

UpdateStarts(c) == cpc[c] = "start" /\ Send(c, "updateStart")

(* coro_sigterm: Kill, cleanup_subprocs, os.Exit *)
Sigterm ==
    /\ ~exited
    /\ cpc[Sig] = "idle"
    /\ IF cmd
       THEN cpc' = [cpc EXCEPT ![Sig] = "send"] /\ msg' = [msg EXCEPT ![Sig] = "kill"]
       ELSE cpc' = [cpc EXCEPT ![Sig] = "cleanup"] /\ UNCHANGED msg
    /\ UNCHANGED <<gpc, hold, stop, cmd, child, termed, binary, exited, down>>

Exit ==
    /\ ~exited
    /\ cpc[Sig] = "cleanup"
    /\ exited' = TRUE
    /\ UNCHANGED <<gpc, hold, stop, cmd, child, termed, binary, cpc, msg, down>>
-----------------------------------------------------------------------------
Goroutine == \/ Top \/ PollPid \/ StatusArrives \/ CleanupReturns \/ RunEnds \/ WakeUp
             \/ \E c \in Caller : TakeHeld(c) \/ TakeMessage(c)

WebRequest(c) == \/ handleStart(c) \/ handleStop(c) \/ handleRestart(c)
                 \/ UpdateStops(c) \/ UpdateErases(c) \/ UpdateFails(c)
                 \/ UpdateInstalls(c) \/ UpdateStarts(c)

RunnerNext == \/ Goroutine
              \/ ChildStarts \/ ChildFails \/ ChildExits
              \/ \E c \in Web : WebRequest(c)
              \/ Sigterm \/ Exit

(* The goroutine runs and serves its channel in turn; a coordinator that   *)
(* was told to end does; -killProcs returns.                               *)
Fairness ==
    /\ WF_runnerVars(Top) /\ WF_runnerVars(PollPid) /\ WF_runnerVars(CleanupReturns)
    /\ SF_runnerVars(StatusArrives) /\ WF_runnerVars(RunEnds) /\ WF_runnerVars(WakeUp)
    /\ WF_runnerVars(ChildStarts \/ ChildFails) /\ WF_runnerVars(ChildObeys)
    /\ \A c \in Caller : SF_runnerVars(TakeHeld(c) \/ TakeMessage(c))

RunnerSpec == RunnerInit /\ [][RunnerNext]_runnerVars /\ Fairness
-----------------------------------------------------------------------------
(* Every variable has its type, and there is a command exactly while there *)
(* is a run: Kill and Restart trust it (runner.go:26-34, 139).             *)
RunnerTypeOK ==
    /\ gpc \in {"top", "held", "poll", "select", "cleanup", "ended", "wait", "returned"}
    /\ {hold, stop, cmd, termed, binary, exited, down} \subseteq BOOLEAN
    /\ child \in {"none", "starting", "running", "exited", "failed"}
    /\ cpc \in [Caller -> {"idle", "send", "erase", "fetch", "start", "cleanup"}]
    /\ msg \in [Caller -> Message \cup {"none"}]
    /\ cmd <=> gpc \in {"poll", "select", "cleanup", "ended"}

(* There is never a second coordinator, and none runs that the goroutine   *)
(* does not watch, whatever operators and updates do together              *)
(* (runner.go:57-148).                                                     *)
OneCoordinator ==
    child \in {"starting", "running"} => gpc \in {"poll", "select", "cleanup"}

(* Once a Stop has returned, and until a Start does, the coordinator is    *)
(* not launched (runner.go:62-75, 122).  An update erases and replaces the *)
(* installation in that time.                                              *)
StopObeyed == [][down => ~(gpc = "top" /\ gpc' = "poll")]_runnerVars

(* In that time the coordinator has ended or has been told to              *)
(* (runner.go:122-129): the installation is not taken from under one that  *)
(* is meant to go on.                                                      *)
DownIsStopping == down => child # "starting" /\ (child = "running" => termed)

Stuck == gpc = "returned" \/ (gpc = "poll" /\ child = "failed")

(* Every request is served, unless the goroutine has returned after a      *)
(* kill, or waits for the pid of a coordinator that could not be launched, *)
(* from which the runner never recovers (runner.go:94-104).                *)
RequestsServed ==
    \A c \in Caller : cpc[c] = "send" ~> cpc[c] # "send" \/ exited \/ Stuck

(* "Click the update button to download/install/start `coordinator`"       *)
(* (README.md:132): when the Start at the end of an update returns, the    *)
(* coordinator is not held.                                                *)
UpdateStartsIt ==
    [][\A c \in Web : msg[c] = "updateStart" /\ msg'[c] = "none" => ~hold']_runnerVars
=============================================================================
