---------------------------- MODULE TempWdaProofs ----------------------------
(***************************************************************************)
(* Proofs about the temporary WDA and the web handler that ends it.        *)
(***************************************************************************)
EXTENDS TempWda, TLAPS

(* Once WDA has started, its one run goes on or ends.                      *)
OneRun == tpc # "waiting" => gpc \in {"select", "handler", "ended", "onStop", "returned"}

(* The WDA has ended or was told to, when the task has killed it.          *)
Over == child # "running" \/ termed
KillIsTaken == tpc \in {"killing", "closing"} /\ cpc[User] = "idle" => Over

IInv == /\ TypeOK /\ Sup!ChildFits /\ Sup!CmdFits
        /\ OneRun /\ KillIsTaken /\ TempWdaIsOver

(* The task has just begun to wait.                                        *)
LEMMA InitIInv == Init => IInv
<1>. SUFFICES ASSUME Init PROVE IInv
  OBVIOUS
<1>1. /\ cpc \in [{User, Signal} -> {"idle", "send"}]
      /\ msg \in [{User, Signal} -> {"none", "kill", "restart"}]
  BY DEF Init, Sup!ProcInit
<1>2. fails \in 0..Sup!LastIndex /\ nap \in Nat
  BY DEF Init, Sup!ProcInit, Sup!LastIndex, Sup!sleeps
<1>. QED
  BY <1>1, <1>2 DEF Init, Sup!ProcInit, IInv, TypeOK, Sup!ProcTypeOK, Sup!ChildFits, Sup!CmdFits,
                    OneRun, KillIsTaken, TempWdaIsOver

(* The supervisor and its child, which the task does not wait for.         *)
LEMMA SupervisorIInv ==
    ASSUME IInv, Launch \/ RunEnds \/ PlainLineDone \/ Child
                 \/ \E l \in {"started", "failed", "other"} : Reads(l)
    PROVE  IInv'
<1>. USE DEF IInv, TypeOK, Sup!ProcTypeOK, Sup!ChildFits, Sup!CmdFits, OneRun, KillIsTaken,
             Over, TempWdaIsOver
<1>1. CASE Launch
  <2>2. CASE Sup!NewCommand
    BY <1>1, <2>2 DEF Launch, Sup!NewCommand
  <2>3. CASE Sup!StartCommand
    BY <1>1, <2>3 DEF Launch, Sup!StartCommand
  <2>4. CASE Sup!PollPid
    BY <1>1, <2>4 DEF Launch, Sup!PollPid
  <2>. QED
    BY <1>1, <2>2, <2>3, <2>4 DEF Launch
<1>2. CASE RunEnds
  <2>1. CASE Sup!StatusArrives
    BY <1>2, <2>1 DEF RunEnds, Sup!StatusArrives
  <2>2. CASE Sup!RunEnds
    BY <1>2, <2>2 DEF RunEnds, Sup!RunEnds
  <2>3. CASE Sup!AfterRun
    BY <1>2, <2>3 DEF RunEnds, Sup!AfterRun, Sup!backVars
  <2>. QED
    BY <1>2, <2>1, <2>2, <2>3 DEF RunEnds
<1>3. CASE PlainLineDone
  BY <1>3 DEF PlainLineDone, Sup!HandlerReturns, userVars
<1>4. CASE Child
  BY <1>4 DEF Child, Sup!ChildStarts, Sup!ChildFails, Sup!ChildExits, Sup!Child
<1>5. ASSUME NEW l \in {"started", "failed", "other"}, Reads(l) PROVE IInv'
  BY <1>5 DEF Reads, Sup!OutputLine, userVars
<1>. QED
  BY <1>1, <1>2, <1>3, <1>4, <1>5

(* A Kill: one is sent, and one is taken.                                  *)
LEMMA CallIInv ==
    ASSUME IInv, \/ ShutdownKills
                 \/ \E c \in {User, Signal} : TakeMessage(c)
    PROVE  IInv'
<1>. USE DEF IInv, TypeOK, Sup!ProcTypeOK, Sup!ChildFits, Sup!CmdFits, OneRun, KillIsTaken,
             Over, TempWdaIsOver
<1>1. CASE ShutdownKills
  BY <1>1, CallerAssumption DEF ShutdownKills, Sup!Kill, Sup!Call
<1>2. ASSUME NEW c \in {User, Signal}, TakeMessage(c) PROVE IInv'
  BY <1>2 DEF TakeMessage, Sup!TakeMessage
<1>. QED
  BY <1>1, <1>2

(* The goroutine that needs the WDA.                                       *)
LEMMA UserIInv == ASSUME IInv, UserSteps \/ Work \/ WorkPanics \/ closeRunningDev PROVE IInv'
<1>. USE DEF IInv, TypeOK, Sup!ProcTypeOK, Sup!ChildFits, Sup!CmdFits, OneRun, KillIsTaken,
             Over, TempWdaIsOver
<1>1. CASE Receive
  BY <1>1 DEF Receive, Posts, Sup!HandlerReturns
<1>2. CASE Work \/ WorkPanics \/ Pause
  BY <1>2 DEF Work, WorkPanics, Pause, User_, supVars
<1>3. ASSUME NEW from, NEW wait, NEW next \in {"pausing", "closed"},
             <<from, wait>> \in {<<"ending", "killing">>, <<"running", "closing">>},
             KillFrom(from, wait, next)
      PROVE  IInv'
  <2>1. CASE cmd /\ User_(from, wait) /\ Sup!Kill(User)
    <3>1. \/ <<from, wait>> = <<"ending", "killing">>
          \/ <<from, wait>> = <<"running", "closing">>
      BY <1>3
    <3>. QED
      BY <2>1, <3>1 DEF User_, Sup!Kill, Sup!Call
  <2>2. CASE ~cmd /\ User_(from, next) /\ UNCHANGED supVars
    <3>1. from \in {"ending", "running"}
      BY <1>3
    <3>2. Over
      BY <2>2, <3>1 DEF User_
    <3>. QED
      BY <1>3, <2>2, <3>2 DEF User_, supVars
  <2>. QED
    BY <1>3, <2>1, <2>2 DEF KillFrom
<1>4. CASE end \/ closeRunningDev
  BY <1>3, <1>4 DEF end, closeRunningDev
<1>5. CASE EndReturns \/ CloseReturns
  BY <1>5 DEF EndReturns, CloseReturns, Killed, User_, supVars
<1>. QED
  BY <1>1, <1>2, <1>4, <1>5 DEF UserSteps

(* Every step preserves the invariant.                                     *)
LEMMA NextIInv == IInv /\ [Next]_vars => IInv'
<1>. SUFFICES ASSUME IInv, [Next]_vars PROVE IInv'
  OBVIOUS
<1>1. CASE UNCHANGED vars
  BY <1>1 DEF vars, IInv, TypeOK, Sup!ProcTypeOK, Sup!ChildFits, Sup!CmdFits, OneRun,
              KillIsTaken, Over, TempWdaIsOver
<1>. QED
  BY <1>1, SupervisorIInv, CallIInv, UserIInv DEF Next

(* What the task waits for goes with the place its supervisor is in.       *)
THEOREM Invariance == Spec => []IInv
  BY InitIInv, NextIInv, PTL DEF Spec

(* The state keeps its types, and a line is there while it is handled.     *)
THEOREM TypeCorrect == Spec => []TypeOK
<1>1. IInv => TypeOK
  BY DEF IInv
<1>. QED
  BY Invariance, <1>1, PTL

(* No temporary WDA that was not told to end is left running when the      *)
(* reset is over.                                                          *)
THEOREM OverIsOver == Spec => []TempWdaIsOver
<1>1. IInv => TempWdaIsOver
  BY DEF IInv
<1>. QED
  BY Invariance, <1>1, PTL

(* A task that waits for a supervisor which cannot answer waits for ever.  *)
THEOREM StuckStays == Spec => StuckForGood
<1>1. ASSUME IInv, Next, Stuck PROVE Stuck'
  <2>. USE DEF Stuck, Posts
  <2>0. cpc \in [{User, Signal} -> {"idle", "send"}]
    BY <1>1 DEF IInv, TypeOK, Sup!ProcTypeOK
  <2>1. CASE Launch \/ RunEnds \/ PlainLineDone \/ Child
    BY <1>1, <2>1 DEF Launch, Sup!NewCommand, Sup!StartCommand, Sup!PollPid, RunEnds,
       Sup!StatusArrives, Sup!RunEnds, Sup!AfterRun, PlainLineDone, Sup!HandlerReturns,
       Child, Sup!ChildStarts, Sup!ChildFails, Sup!ChildExits, Sup!Child, userVars
  <2>2. CASE \E l \in {"started", "failed", "other"} : Reads(l)
    BY <1>1, <2>2 DEF Reads, Sup!OutputLine
  <2>3. CASE \E c \in {User, Signal} : TakeMessage(c)
    BY <1>1, <2>3 DEF TakeMessage, Sup!TakeMessage
  <2>4. CASE ShutdownKills
    BY <1>1, <2>0, <2>4, CallerAssumption DEF ShutdownKills, Sup!Kill, Sup!Call
  <2>5. CASE UserSteps \/ Work \/ WorkPanics \/ closeRunningDev
    BY <1>1, <2>5 DEF UserSteps, closeRunningDev, Receive, Work, WorkPanics, end, EndReturns,
       Pause, CloseReturns, KillFrom, Killed, User_
  <2>. QED
    BY <1>1, <2>1, <2>2, <2>3, <2>4, <2>5 DEF Next
<1>2. IInv /\ [Next]_vars => [Stuck => Stuck']_vars
  BY <1>1
<1>. QED
  BY Invariance, <1>2, PTL DEF Spec, StuckForGood
-----------------------------------------------------------------------------
(* The temporary WDA's supervisor is one of proc_generic's: whoever uses   *)
(* it takes no step for it, and it takes none of another kind.             *)
SupervisorIsProc == Sup!ProcInit /\ [][Sup!ProcNext]_(Sup!procVars)

(* What is proved of every supervised process (a Kill that was taken is    *)
(* final, no child is unsupervised, devd.wda is fresh) holds of the        *)
(* temporary WDA, since its safety is that of ProcGeneric (wda.go:44-81).  *)
THEOREM TempWdaIsProc == Spec => SupervisorIsProc
<1>1. Init => Sup!ProcInit
  BY DEF Init
<1>2. [Next]_vars => [Sup!ProcNext]_(Sup!procVars)
  <2>. SUFFICES ASSUME [Next]_vars PROVE [Sup!ProcNext]_(Sup!procVars)
    OBVIOUS
  <2>. USE DEF Sup!ProcNext, Sup!Goroutine
  <2>1. CASE Launch \/ RunEnds \/ PlainLineDone \/ Child
    BY <2>1 DEF Launch, RunEnds, PlainLineDone, Child
  <2>2. CASE \E l \in {"started", "failed", "other"} : Reads(l)
    <3>1. PICK l \in {"started", "failed", "other"} : Reads(l)
      BY <2>2
    <3>2. (l = "started") \in BOOLEAN
      OBVIOUS
    <3>3. \E s \in BOOLEAN : Sup!OutputLine(s)
      BY <3>1, <3>2 DEF Reads
    <3>. QED
      BY <3>3
  <2>3. CASE \E c \in {User, Signal} : TakeMessage(c)
    BY <2>3 DEF TakeMessage
  <2>4. CASE ShutdownKills
    BY <2>4 DEF ShutdownKills
  <2>5. CASE end \/ closeRunningDev
    <3>1. Sup!Kill(User) \/ UNCHANGED supVars
      BY <2>5 DEF end, closeRunningDev, KillFrom
    <3>. QED
      BY <3>1 DEF supVars, Sup!procVars
  <2>6. CASE Receive
    BY <2>6 DEF Receive
  <2>7. CASE Work \/ WorkPanics \/ EndReturns \/ Pause \/ CloseReturns
    BY <2>7 DEF Work, WorkPanics, EndReturns, Pause, CloseReturns, Killed, supVars,
                Sup!procVars
  <2>8. CASE UNCHANGED vars
    BY <2>8 DEF vars, Sup!procVars
  <2>. QED
    BY <2>1, <2>2, <2>3, <2>4, <2>5, <2>6, <2>7, <2>8 DEF Next, UserSteps
<1>. QED
  BY <1>1, <1>2, PTL DEF Spec, SupervisorIsProc
=============================================================================
