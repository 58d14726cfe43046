------------------------------- MODULE TempWda -------------------------------
(***************************************************************************)
(* The temporary WDA (src/coordinator/wda.go): a wdaproxy that is started  *)
(* for one task, to unlock the phone (-unlock) or to reset its media       *)
(* services (-resetVideo, and each connect when the video method is ivp),  *)
(* and is waited for before the task and killed after it.  Its supervisor  *)
(* is module ProcGeneric with the option noRestart; its output handler     *)
(* posts to a channel of its own, which only NewTempWDA reads, and only    *)
(* until WDA has started.                                                  *)
(***************************************************************************)
EXTENDS Naturals, Sequences

CONSTANTS User,   \* the goroutine that needs the WDA
          Signal  \* coro_sigterm, which closes the device meanwhile

ASSUME CallerAssumption == User # Signal

VARIABLES mode,  \* the task: "unlock", "reset" or "ivp"
          tpc,   \* where User is
          line   \* what the supervisor's output handler has read

(* The supervisor's, as in ProcGeneric. *)
VARIABLES gpc, cmd, child, termed, stop, wda, fails, nap, cpc, msg

supVars  == <<gpc, cmd, child, termed, stop, wda, fails, nap, cpc, msg>>
userVars == <<mode, tpc>>
vars == <<mode, tpc, line, gpc, cmd, child, termed, stop, wda, fails, nap, cpc, msg>>

Sup == INSTANCE ProcGeneric
    WITH Caller <- {User, Signal}, noRestart <- TRUE, noWait <- FALSE

(* NewTempWDA has called proc_wdaproxy and begins to wait. *)
Init == /\ mode \in {"unlock", "reset", "ivp"}
        /\ tpc = "waiting"
        /\ line = "none"
        /\ Sup!ProcInit

(* os.Exit or a panic ends the supervisor with the program. *)
Runs == tpc \notin {"exited", "dead"}
-----------------------------------------------------------------------------
(* The supervisor, as far as it does not meet the others. *)
Launch ==
    /\ Runs
    /\ Sup!NewCommand \/ Sup!StartCommand \/ Sup!PollPid
    /\ UNCHANGED <<mode, tpc, line>>

RunEnds ==
    /\ Runs
    /\ Sup!StatusArrives \/ Sup!RunEnds \/ Sup!AfterRun
    /\ UNCHANGED <<mode, tpc, line>>

TakeMessage(c) ==
    /\ Runs
    /\ Sup!TakeMessage(c)
    /\ UNCHANGED <<mode, tpc, line>>

(* A line of output: "[WDA] successfully started", "TEST EXECUTE FAILED"   *)
(* or another one.                                                         *)
Reads(l) ==
    /\ Runs
    /\ Sup!OutputLine(l = "started")
    /\ line' = l
    /\ UNCHANGED userVars

(* The handler waits for its event to be received. *)
Posts == gpc = "handler" /\ line \in {"started", "failed"}

PlainLineDone ==
    /\ Runs
    /\ line = "other"
    /\ Sup!HandlerReturns
    /\ line' = "none"
    /\ UNCHANGED userVars

(* The child does not end with the program that started it. *)
Child ==
    /\ Sup!ChildStarts \/ Sup!ChildFails \/ Sup!ChildExits
    /\ UNCHANGED <<mode, tpc, line>>
-----------------------------------------------------------------------------
(* The bug of a channel with room for the events. *)
Receive_Buffered ==
    /\ Posts
    /\ Sup!HandlerReturns
    /\ line' = "none"
    /\ tpc' = IF tpc = "waiting" /\ line = "started" THEN "working" ELSE tpc
    /\ UNCHANGED mode

(* The bug of a wait that reads nothing but a start. *)
Receive_Once ==
    /\ tpc = "waiting"
    /\ Posts
    /\ line = "started"
    /\ Sup!HandlerReturns
    /\ line' = "none"
    /\ tpc' = "working"
    /\ UNCHANGED mode

(* devEvent := <- tempCh: a start ends the wait, a failure does not. *)
Receive ==
    /\ tpc = "waiting"
    /\ Posts
    /\ Sup!HandlerReturns
    /\ line' = "none"
    /\ tpc' = IF line = "started" THEN "working" ELSE "waiting"
    /\ UNCHANGED mode

User_(from, to) == tpc = from /\ tpc' = to /\ UNCHANGED <<mode, line>>

(* The bug of a reset that leaves its WDA as an unlock does. *)
Work_NoEnd ==
    /\ User_("working", IF mode = "unlock" THEN "exited" ELSE "pausing")
    /\ UNCHANGED supVars

(* The requests to WDA.  After an unlock the program exits; after a reset  *)
(* it ends the temporary WDA.  A request has no timeout: if WDA takes it   *)
(* and does not answer, this step is never taken.                          *)
Work ==
    /\ User_("working", IF mode = "unlock" THEN "exited" ELSE "ending")
    /\ UNCHANGED supVars

(* WDA does not answer one of the requests: the nil response is used.      *)
WorkPanics == User_("working", "dead") /\ UNCHANGED supVars

(* Kill of the temporary WDA's supervisor, from one place or another. *)
KillFrom(from, wait, next) ==
    \/ cmd /\ User_(from, wait) /\ Sup!Kill(User)
    \/ ~cmd /\ User_(from, next) /\ UNCHANGED supVars

end == KillFrom("ending", "killing", "pausing")

Killed(wait, next) ==
    /\ cpc[User] = "idle"
    /\ User_(wait, next)
    /\ UNCHANGED supVars

EndReturns == Killed("killing", "pausing")

(* Two seconds later -resetVideo exits and the event loop goes on. *)
Pause ==
    /\ User_("pausing", IF mode = "reset" THEN "exited" ELSE "running")
    /\ UNCHANGED supVars

(* The device keeps the process in its map: closeRunningDev Kills it again.*)
closeRunningDev == KillFrom("running", "closing", "closed")
CloseReturns    == Killed("closing", "closed")

(* So does the shutdown, at any moment. *)
ShutdownKills ==
    /\ Runs
    /\ mode = "ivp"
    /\ ~stop
    /\ Sup!Kill(Signal)
    /\ UNCHANGED <<mode, tpc, line>>

UserSteps == Receive \/ end \/ EndReturns \/ Pause \/ CloseReturns

Next == \/ Launch \/ RunEnds \/ PlainLineDone \/ Child
        \/ \E l \in {"started", "failed", "other"} : Reads(l)
        \/ \E c \in {User, Signal} : TakeMessage(c)
        \/ UserSteps \/ Work \/ WorkPanics \/ closeRunningDev \/ ShutdownKills

(* As in ProcGeneric, but for output that is no event, whose handler just  *)
(* returns.  WDA need not say anything nor answer a request, and devices   *)
(* are not closed nor the coordinator shut down.                           *)
Fairness ==
    /\ WF_vars(Launch) /\ SF_vars(RunEnds) /\ WF_vars(PlainLineDone)
    /\ \A c \in {User, Signal} : SF_vars(TakeMessage(c))
    /\ WF_vars(Child /\ (child = "starting" \/ termed))
    /\ WF_vars(UserSteps)

Spec == Init /\ [][Next]_vars /\ Fairness
-----------------------------------------------------------------------------
(* The types of the state. *)
TypeOK ==
    /\ Sup!ProcTypeOK
    /\ mode \in {"unlock", "reset", "ivp"}
    /\ tpc \in {"waiting", "working", "ending", "killing", "pausing", "running",
                "closing", "closed", "exited", "dead"}
    /\ line \in {"none", "started", "failed", "other"}
    /\ gpc = "handler" <=> line # "none"

(* When the reset of the media services is over, the temporary WDA has     *)
(* ended or was told to, although it may have been restarted, killed by    *)
(* the shutdown, or have ended at any moment before: the phone's ordinary  *)
(* wdaproxy follows on the same port (wda.go:60-80).                       *)
TempWdaIsOver ==
    tpc \in {"pausing", "running", "closing", "closed"}
        \/ (tpc = "exited" /\ mode = "reset")
    => child # "running" \/ termed

(* User waits for a start, or for its Kill to be taken, from a supervisor  *)
(* that has returned; or for its Kill to be taken by one that is posting   *)
(* an event nobody reads.                                                  *)
Stuck ==
    \/ tpc = "waiting" /\ gpc = "returned"
    \/ /\ tpc \in {"killing", "closing"}
       /\ cpc[User] = "send"
       /\ gpc = "returned" \/ Posts

(* None of these waits resolves, and in ivp mode it is the event loop that *)
(* waits: no phone is served any more (wda.go:44-56, 81).                  *)
StuckForGood == [][Stuck => Stuck']_vars

(* The task comes to its end, unless it is stuck, or WDA runs without ever *)
(* reporting a start, or without ever answering a request: nothing bounds  *)
(* these two waits (wda.go:44-56, 98-168), and no other step of the task,  *)
(* of its supervisor or of the Kill can hold it.                           *)
TaskEnds ==
    \/ <>(tpc \in {"running", "exited", "dead"})
    \/ <>[]Stuck
    \/ <>[](tpc = "waiting" /\ child = "running")
    \/ <>[](tpc = "working")
=============================================================================
