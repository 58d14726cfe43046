---------------------------- MODULE ShutdownProofs ----------------------------
(***************************************************************************)
(* Proofs about the end of the coordinator, for any devices and processes. *)
(***************************************************************************)
EXTENDS Shutdown, TLAPS

(* What the event loop's argument is, and that it makes a process once.    *)
LoopFits ==
    /\ loop \in {"insert", "serve", "stop", "kill"} => arg \in Dev
    /\ loop = "serve" => arg \in runningDevs
    /\ loop = "start" => /\ arg \in Proc
                         /\ phase[arg] = "none"
                         /\ arg = Provider \/ Of[arg] \in runningDevs
    /\ loop = "stage1" => phase[Provider] = "none"
    /\ asks["loop"] # Nil => loop = "kill"

(* Where the signal's goroutine is in its work.                            *)
SigFits ==
    /\ gStop <=> sig # "wait"
    /\ sig \in {"vpn", "vpnsend", "cleanup", "cleaning", "exited"} => devs = {}
    /\ sig = "procs" /\ owner = Base => devs = {}
    /\ sig = "exited" => hit = {}

(* Only a supervisor that watches it has a child, and one that has taken a *)
(* Kill does not launch another.                                           *)
ChildFits ==
    /\ \A p \in alive : phase[p] \in {"up", "busy"}
    /\ \A p \in stopped : phase[p] \in {"up", "busy", "gone"}
    /\ \A p \in Proc : phase[p] = "gone" => p \in stopped

(* A process that is not there, or never again, or was told to end, or     *)
(* whose Kill found no command, or whose place in its map is taken.        *)
Dealt(p) == p \in missed \cup stopped \/ phase[p] \in {"none", "deaf"} \/ Orphan(p)

(* The event loop forgets a device only when it has dealt with its         *)
(* processes.                                                              *)
LoopDeals ==
    /\ \A p \in Proc : Of[p] = Base \/ Of[p] \in runningDevs \/ Dealt(p)
    /\ loop = "kill" =>
          \A p \in Proc : Of[p] = arg => Dealt(p) \/ p \in left \/ asks["loop"] = p

(* From the signal on a process is dealt with, or its turn is still to     *)
(* come.                                                                   *)
BaseToCome == sig \in {"devs", "vpn", "vpnsend"} \/ (sig = "procs" /\ owner # Base)
SigDeals ==
    gStop /\ sig # "crashed" =>
        \A p \in Proc : \/ Dealt(p)
                        \/ Of[p] = Base /\ BaseToCome
                        \/ Of[p] \in devs
                        \/ sig = "procs" /\ (p \in procs \/ asks["sig"] = p)

(* cleanup_procs waits for the programs it knows, but for those that are   *)
(* launched after it has looked.                                           *)
CleanupDeals ==
    sig \in {"cleaning", "exited"} =>
        \A p \in alive \cap Known : p \in missed \cup hit \/ Orphan(p)

IInv == /\ TypeOK /\ LoopFits /\ SigFits /\ ChildFits
        /\ LoopDeals /\ SigDeals /\ CleanupDeals
-----------------------------------------------------------------------------
(* A process that is dealt with stays so, in a step that starts none.      *)
LEMMA DealtStays ==
    ASSUME missed \subseteq missed', stopped \subseteq stopped',
           \A x \in Proc : phase[x] \in {"none", "deaf"} => phase'[x] = phase[x],
           \A x \in Proc : phase[x] # "none" => phase'[x] # "none"
    PROVE  \A p \in Proc : /\ Dealt(p) => Dealt(p)'
                           /\ Orphan(p) => Orphan(p)'
  BY DEF Dealt, Orphan

(* Supervisors and their children.                                         *)
LEMMA SupervisorIInv ==
    ASSUME IInv,
           \/ (\E p \in Proc : Supervisor(p))
           \/ (\E p \in Proc : ChildExits(p))
           \/ (\E c \in {"loop", "sig"} : Taken(c))
    PROVE  IInv'
<1>. USE ConstantAssumption DEF IInv, TypeOK, Ended
<1>1. ASSUME NEW p \in Proc, Supervisor(p) PROVE IInv'
  <2>1. TypeOK'
    BY <1>1 DEF Supervisor, Launch, GiveUp, Post, do_restart, RestartDone, RunEnds,
                Move, loopVars, sigVars, vpnVars
  <2>2. LoopFits' /\ SigFits' /\ ChildFits'
    BY <1>1 DEF LoopFits, SigFits, ChildFits, Supervisor, Launch, GiveUp, Post,
                do_restart, RestartDone, RunEnds, Move, loopVars, sigVars, vpnVars
  <2>0. \A q \in Proc : Dealt(q) => Dealt(q)'
    <3>1. /\ \A x \in Proc : phase[x] \in {"none", "deaf"} => phase'[x] = phase[x]
          /\ \A x \in Proc : phase[x] # "none" => phase'[x] # "none"
          /\ UNCHANGED <<missed, stopped>>
      BY <1>1 DEF Supervisor, Launch, GiveUp, Post, do_restart, RestartDone, RunEnds, Move
    <3>. QED
      BY <3>1, DealtStays
  <2>3. LoopDeals'
    BY <1>1, <2>0 DEF LoopDeals, Supervisor, Launch, GiveUp, Post, do_restart,
                      RestartDone, RunEnds, Move, loopVars
  <2>4. SigDeals'
    BY <1>1, <2>0 DEF SigDeals, BaseToCome, Supervisor, Launch, GiveUp, Post, do_restart,
                      RestartDone, RunEnds, Move, sigVars
  <2>5. CleanupDeals'
    BY <1>1 DEF CleanupDeals, SigDeals, Dealt, Orphan, BaseToCome, SigFits, ChildFits,
                Supervisor, Launch, GiveUp, Post, do_restart, RestartDone, RunEnds,
                Move, loopVars, sigVars, vpnVars
  <2>. QED
    BY <2>1, <2>2, <2>3, <2>4, <2>5
<1>2. ASSUME NEW p \in Proc, ChildExits(p) PROVE IInv'
  <2>1. TypeOK'
    BY <1>2 DEF ChildExits, loopVars, sigVars, vpnVars
  <2>2. LoopFits' /\ SigFits' /\ ChildFits'
    BY <1>2 DEF LoopFits, SigFits, ChildFits, ChildExits, loopVars, sigVars, vpnVars
  <2>3. LoopDeals'
    BY <1>2 DEF LoopDeals, Dealt, Orphan, LoopFits, ChildExits, loopVars, sigVars, vpnVars
  <2>4. SigDeals'
    BY <1>2 DEF SigDeals, LoopDeals, Dealt, Orphan, BaseToCome, SigFits, LoopFits,
                ChildExits, loopVars, sigVars, vpnVars
  <2>5. CleanupDeals'
    BY <1>2 DEF CleanupDeals, SigDeals, Dealt, Orphan, BaseToCome, SigFits, ChildFits,
                ChildExits, loopVars, sigVars, vpnVars
  <2>. QED
    BY <2>1, <2>2, <2>3, <2>4, <2>5
<1>3. ASSUME NEW c \in {"loop", "sig"}, Taken(c) PROVE IInv'
  <2>1. TypeOK'
    BY <1>3 DEF Taken, loopVars, sigVars, vpnVars
  <2>2. LoopFits' /\ SigFits' /\ ChildFits'
    BY <1>3 DEF LoopFits, SigFits, ChildFits, Taken, loopVars, sigVars, vpnVars
  <2>3. LoopDeals'
    BY <1>3 DEF LoopDeals, Dealt, Orphan, LoopFits, Taken, loopVars, sigVars, vpnVars
  <2>4. SigDeals'
    BY <1>3 DEF SigDeals, LoopDeals, Dealt, Orphan, BaseToCome, SigFits, LoopFits, Taken,
                loopVars, sigVars, vpnVars
  <2>5. CleanupDeals'
    BY <1>3 DEF CleanupDeals, SigDeals, Dealt, Orphan, BaseToCome, SigFits, ChildFits,
                Taken, loopVars, sigVars, vpnVars
  <2>. QED
    BY <2>1, <2>2, <2>3, <2>4, <2>5
<1>. QED
  BY <1>1, <1>2, <1>3

(* The event loop.                                                         *)
LEMMA LoopIInv ==
    ASSUME IInv,
           \/ Stage1
           \/ (\E d \in Dev : Connect(d))
           \/ (\E p \in Proc : StartNext(p))
           \/ (\E d \in Dev : Event(d) \/ Disconnect(d))
           \/ Served \/ periodic_stop
           \/ NewRunningDev
           \/ proc_generic
           \/ closeRunningDev
           \/ Forget
           \/ (\E p \in Proc : Receive(p))
    PROVE  IInv'
<1>. USE ConstantAssumption DEF IInv, TypeOK, Ended
<1>1. CASE Stage1
  <2>1. TypeOK'
    BY <1>1 DEF Stage1, Loop, Quiet, sigVars, vpnVars
  <2>2. LoopFits' /\ SigFits' /\ ChildFits'
    BY <1>1 DEF LoopFits, SigFits, ChildFits, Stage1, Loop, Quiet, sigVars, vpnVars
  <2>3. LoopDeals'
    BY <1>1 DEF LoopDeals, Dealt, Orphan, LoopFits, Stage1, Loop, Quiet, sigVars, vpnVars
  <2>4. SigDeals'
    BY <1>1 DEF SigDeals, LoopDeals, Dealt, Orphan, BaseToCome, SigFits, LoopFits,
                Stage1, Loop, Quiet, sigVars, vpnVars
  <2>5. CleanupDeals'
    BY <1>1 DEF CleanupDeals, SigDeals, Dealt, Orphan, BaseToCome, SigFits, ChildFits,
                Stage1, Loop, Quiet, sigVars, vpnVars
  <2>. QED
    BY <2>1, <2>2, <2>3, <2>4, <2>5
<1>2. ASSUME NEW d \in Dev, Connect(d) PROVE IInv'
  <2>1. TypeOK'
    BY <1>2 DEF Connect, Loop, Quiet, sigVars, vpnVars
  <2>2. LoopFits' /\ SigFits' /\ ChildFits'
    BY <1>2 DEF LoopFits, SigFits, ChildFits, Connect, Loop, Quiet, sigVars, vpnVars
  <2>3. LoopDeals'
    BY <1>2 DEF LoopDeals, Dealt, Orphan, LoopFits, Connect, Loop, Quiet, sigVars, vpnVars
  <2>4. SigDeals'
    BY <1>2 DEF SigDeals, LoopDeals, Dealt, Orphan, BaseToCome, SigFits, LoopFits,
                Connect, Loop, Quiet, sigVars, vpnVars
  <2>5. CleanupDeals'
    BY <1>2 DEF CleanupDeals, SigDeals, Dealt, Orphan, BaseToCome, SigFits, ChildFits,
                Connect, Loop, Quiet, sigVars, vpnVars
  <2>. QED
    BY <2>1, <2>2, <2>3, <2>4, <2>5
<1>3. ASSUME NEW p \in Proc, StartNext(p) PROVE IInv'
  <2>1. TypeOK'
    BY <1>3 DEF StartNext, Loop, Quiet, sigVars, vpnVars
  <2>2. LoopFits' /\ SigFits' /\ ChildFits'
    BY <1>3 DEF LoopFits, SigFits, ChildFits, StartNext, Loop, Quiet, sigVars, vpnVars
  <2>3. LoopDeals'
    BY <1>3 DEF LoopDeals, Dealt, Orphan, LoopFits, StartNext, Loop, Quiet, sigVars,
                vpnVars
  <2>4. SigDeals'
    BY <1>3 DEF SigDeals, LoopDeals, Dealt, Orphan, BaseToCome, SigFits, LoopFits,
                StartNext, Loop, Quiet, sigVars, vpnVars
  <2>5. CleanupDeals'
    BY <1>3 DEF CleanupDeals, SigDeals, Dealt, Orphan, BaseToCome, SigFits, ChildFits,
                StartNext, Loop, Quiet, sigVars, vpnVars
  <2>. QED
    BY <2>1, <2>2, <2>3, <2>4, <2>5
<1>4. ASSUME NEW d \in Dev, Event(d) \/ Disconnect(d) PROVE IInv'
  <2>1. TypeOK'
    BY <1>4 DEF Event, Disconnect, Loop, Quiet, vpnVars
  <2>2. LoopFits' /\ SigFits' /\ ChildFits'
    BY <1>4 DEF LoopFits, SigFits, ChildFits, Event, Disconnect, Loop, Quiet, vpnVars
  <2>3. LoopDeals'
    BY <1>4 DEF LoopDeals, Dealt, Orphan, LoopFits, Event, Disconnect, Loop, Quiet,
                vpnVars
  <2>4. SigDeals' /\ CleanupDeals'
    BY <1>4 DEF SigDeals, CleanupDeals, Dealt, Orphan, BaseToCome, Event, Disconnect,
                Loop, Quiet, vpnVars
  <2>. QED
    BY <2>1, <2>2, <2>3, <2>4
<1>10. CASE Served
  <2>1. TypeOK'
    BY <1>10 DEF Served, Loop, Quiet, vpnVars
  <2>2. LoopFits' /\ SigFits' /\ ChildFits'
    BY <1>10 DEF LoopFits, SigFits, ChildFits, Served, Loop, Quiet, vpnVars
  <2>3. LoopDeals'
    BY <1>10 DEF LoopDeals, Dealt, Orphan, LoopFits, Served, Loop, Quiet, vpnVars
  <2>4. SigDeals' /\ CleanupDeals'
    BY <1>10 DEF SigDeals, CleanupDeals, Dealt, Orphan, BaseToCome, Served, Loop, Quiet,
                 vpnVars
  <2>. QED
    BY <2>1, <2>2, <2>3, <2>4
<1>11. CASE periodic_stop
  <2>1. TypeOK'
    BY <1>11 DEF LoopFits, periodic_stop, Loop, ProcsOf, vpnVars
  <2>2. LoopFits' /\ SigFits' /\ ChildFits'
    BY <1>11 DEF LoopFits, SigFits, ChildFits, periodic_stop, Loop, vpnVars
  <2>3. LoopDeals'
    BY <1>11 DEF LoopDeals, Dealt, Orphan, ProcsOf, LoopFits, periodic_stop, Loop
  <2>4. SigDeals' /\ CleanupDeals'
    BY <1>11 DEF SigDeals, CleanupDeals, Dealt, Orphan, BaseToCome, periodic_stop, Loop
  <2>. QED
    BY <2>1, <2>2, <2>3, <2>4
<1>5. CASE NewRunningDev
  <2>1. TypeOK'
    BY <1>5 DEF LoopFits, NewRunningDev, Loop, sigVars, vpnVars
  <2>2. LoopFits' /\ SigFits' /\ ChildFits'
    BY <1>5 DEF LoopFits, SigFits, ChildFits, NewRunningDev, Loop, sigVars, vpnVars
  <2>3. LoopDeals'
    BY <1>5 DEF LoopDeals, Dealt, Orphan, LoopFits, NewRunningDev, Loop, sigVars, vpnVars
  <2>4. SigDeals'
    BY <1>5 DEF SigDeals, LoopDeals, Dealt, Orphan, BaseToCome, SigFits, LoopFits,
                NewRunningDev, Loop, sigVars, vpnVars
  <2>5. CleanupDeals'
    BY <1>5 DEF CleanupDeals, SigDeals, Dealt, Orphan, BaseToCome, SigFits, ChildFits,
                NewRunningDev, Loop, sigVars, vpnVars
  <2>. QED
    BY <2>1, <2>2, <2>3, <2>4, <2>5
<1>6. CASE proc_generic
  <2>1. TypeOK'
    BY <1>6 DEF LoopFits, proc_generic, Loop, sigVars, vpnVars
  <2>2. LoopFits' /\ SigFits' /\ ChildFits'
    BY <1>6 DEF LoopFits, SigFits, ChildFits, proc_generic, Loop, sigVars, vpnVars
  <2>3. LoopDeals'
    <3>1. \A q \in Proc \ {arg} : Dealt(q) => Dealt(q)'
      BY <1>6 DEF Dealt, Orphan, LoopFits, proc_generic, Loop
    <3>2. /\ loop' \in {"select", "serve"} /\ UNCHANGED runningDevs
          /\ Of[arg] \in runningDevs \cup {Base}
      BY <1>6 DEF LoopFits, proc_generic, Loop
    <3>. QED
      BY <3>1, <3>2 DEF LoopDeals
  <2>4. SigDeals'
    <3>1. CASE ~gStop
      BY <1>6, <3>1 DEF SigDeals, proc_generic, Loop
    <3>2. CASE gStop
      <4>1. /\ arg \in Proc /\ phase[arg] = "none"
            /\ phase' = [phase EXCEPT ![arg] = "down"]
            /\ missed' = missed \cup {arg}
            /\ UNCHANGED <<gStop, sig, devs, owner, asks, stopped>>
            /\ \A q \in procs : q \in procs' \/ q = Former[arg]
        BY <1>6, <3>2 DEF LoopFits, proc_generic, Loop
      <4>4. \A x \in Proc : phase'[x] = IF x = arg THEN "down" ELSE phase[x]
        BY <4>1
      <4>2. ASSUME NEW q \in Proc, Dealt(q) PROVE Dealt(q)'
        <5>1. CASE Orphan(q)
          BY <4>4, <5>1 DEF Dealt, Orphan
        <5>2. CASE q \in missed \cup stopped
          BY <4>1, <5>2 DEF Dealt
        <5>3. CASE phase[q] \in {"none", "deaf"}
          BY <4>1, <4>4, <5>3 DEF Dealt
        <5>. QED
          BY <4>2, <5>1, <5>2, <5>3 DEF Dealt
      <4>3. ASSUME NEW q \in Proc, q = Former[arg] PROVE Dealt(q)'
        <5>1. Orphan(q)'
          BY <4>1, <4>3, <4>4 DEF Orphan
        <5>. QED
          BY <5>1 DEF Dealt
      <4>. QED
        BY <4>1, <4>2, <4>3 DEF SigDeals, BaseToCome
    <3>. QED
      BY <3>1, <3>2
  <2>5. CleanupDeals'
    BY <1>6 DEF CleanupDeals, SigDeals, Dealt, Orphan, BaseToCome, SigFits, ChildFits,
                proc_generic, Loop, sigVars, vpnVars
  <2>. QED
    BY <2>1, <2>2, <2>3, <2>4, <2>5
<1>7. CASE closeRunningDev
  <2>1. TypeOK'
    BY <1>7 DEF closeRunningDev, Loop, Kill, sigVars, vpnVars
  <2>2. LoopFits' /\ SigFits' /\ ChildFits'
    BY <1>7 DEF LoopFits, SigFits, ChildFits, closeRunningDev, Loop, Kill, sigVars,
                vpnVars
  <2>3. LoopDeals'
    <3>1. PICK p \in left : left' = left \ {p} /\ Kill("loop", p)
      BY <1>7 DEF closeRunningDev
    <3>2. /\ \A q \in Proc : Dealt(q) => Dealt(q)'
          /\ Dealt(p)' \/ asks'["loop"] = p
      <4>1. UNCHANGED <<phase, stopped>> /\ missed \subseteq missed'
        BY <1>7, <3>1 DEF closeRunningDev, Loop, Kill
      <4>2. \A q \in Proc : Dealt(q) => Dealt(q)'
        BY <4>1, DealtStays
      <4>3. \/ phase[p] \in {"none", "gone"} \/ asks'["loop"] = p
            \/ phase[p] = "down" /\ p \in missed'
        BY <3>1 DEF Kill
      <4>. QED
        BY <4>1, <4>2, <4>3 DEF Dealt, ChildFits
    <3>3. asks["loop"] = Nil /\ loop = "kill" /\ UNCHANGED <<arg, runningDevs>>
      BY <1>7 DEF closeRunningDev, Loop
    <3>. QED
      BY <3>1, <3>2, <3>3 DEF LoopDeals
  <2>4. SigDeals'
    BY <1>7 DEF SigDeals, LoopDeals, Dealt, Orphan, BaseToCome, SigFits, LoopFits,
                closeRunningDev, Loop, Kill, sigVars, vpnVars
  <2>5. CleanupDeals'
    BY <1>7 DEF CleanupDeals, SigDeals, Dealt, Orphan, BaseToCome, SigFits, ChildFits,
                closeRunningDev, Loop, Kill, sigVars, vpnVars
  <2>. QED
    BY <2>1, <2>2, <2>3, <2>4, <2>5
<1>8. CASE Forget
  <2>1. TypeOK'
    BY <1>8 DEF Forget, Loop, sigVars, vpnVars
  <2>2. LoopFits' /\ SigFits' /\ ChildFits'
    BY <1>8 DEF LoopFits, SigFits, ChildFits, Forget, Loop, sigVars, vpnVars
  <2>3. LoopDeals'
    BY <1>8 DEF LoopDeals, Dealt, Orphan, LoopFits, Forget, Loop, sigVars, vpnVars
  <2>4. SigDeals'
    BY <1>8 DEF SigDeals, LoopDeals, Dealt, Orphan, BaseToCome, SigFits, LoopFits,
                Forget, Loop, sigVars, vpnVars
  <2>5. CleanupDeals'
    BY <1>8 DEF CleanupDeals, SigDeals, Dealt, Orphan, BaseToCome, SigFits, ChildFits,
                Forget, Loop, sigVars, vpnVars
  <2>. QED
    BY <2>1, <2>2, <2>3, <2>4, <2>5
<1>9. ASSUME NEW p \in Proc, Receive(p) PROVE IInv'
  <2>1. TypeOK'
    BY <1>9 DEF Receive, Loop, sigVars, vpnVars
  <2>2. LoopFits' /\ SigFits' /\ ChildFits'
    BY <1>9 DEF LoopFits, SigFits, ChildFits, Receive, Loop, sigVars, vpnVars
  <2>0. \A q \in Proc : Dealt(q) => Dealt(q)'
    <3>1. /\ \A x \in Proc : phase[x] \in {"none", "deaf"} => phase'[x] = phase[x]
          /\ \A x \in Proc : phase[x] # "none" => phase'[x] # "none"
          /\ UNCHANGED <<missed, stopped>>
      BY <1>9 DEF Receive, Loop
    <3>. QED
      BY <3>1, DealtStays
  <2>3. LoopDeals'
    BY <1>9, <2>0 DEF LoopDeals, LoopFits, Receive, Loop
  <2>4. SigDeals'
    BY <1>9, <2>0 DEF SigDeals, BaseToCome, Receive, Loop
  <2>5. CleanupDeals'
    BY <1>9 DEF CleanupDeals, SigDeals, Dealt, Orphan, BaseToCome, SigFits, ChildFits,
                Receive, Loop, sigVars, vpnVars
  <2>. QED
    BY <2>1, <2>2, <2>3, <2>4, <2>5
<1>. QED
  BY <1>1, <1>2, <1>3, <1>4, <1>5, <1>6, <1>7, <1>8, <1>9, <1>10, <1>11

(* The signal's goroutine, and the one that watches OpenVPN's log.         *)
LEMMA SignalIInv ==
    ASSUME IInv,
           \/ Signal
           \/ (\E d \in Dev : NextDev(d))
           \/ NoDevs
           \/ (\E p \in Proc : KillNext(p))
           \/ NoProcs
           \/ MapCrash
           \/ (\E d \in Dev : SeesNewDev(d))
           \/ (\E p \in Proc : SeesNewProc(p))
           \/ vpn_shutdown \/ WatchStops
           \/ cleanup_procs
           \/ Exit
           \/ scanForInterface \/ WatcherClosed
    PROVE  IInv'
<1>. USE ConstantAssumption DEF IInv, TypeOK, Ended
<1>1. CASE Signal
  <2>1. TypeOK'
    BY <1>1 DEF Signal, Sig, loopVars, procVars, vpnVars
  <2>2. LoopFits' /\ SigFits' /\ ChildFits'
    BY <1>1 DEF LoopFits, SigFits, ChildFits, Signal, Sig, loopVars, procVars, vpnVars
  <2>3. LoopDeals'
    BY <1>1 DEF LoopDeals, Dealt, Orphan, LoopFits, Signal, Sig, loopVars, procVars,
                vpnVars
  <2>4. SigDeals'
    BY <1>1 DEF SigDeals, LoopDeals, Dealt, Orphan, BaseToCome, SigFits, LoopFits,
                Signal, Sig, loopVars, procVars, vpnVars
  <2>5. CleanupDeals'
    BY <1>1 DEF CleanupDeals, SigDeals, Dealt, Orphan, BaseToCome, SigFits, ChildFits,
                Signal, Sig, loopVars, procVars, vpnVars
  <2>. QED
    BY <2>1, <2>2, <2>3, <2>4, <2>5
<1>2. ASSUME NEW d \in Dev, NextDev(d) PROVE IInv'
  <2>1. TypeOK'
    BY <1>2 DEF NextDev, Sig, ProcsOf, loopVars, procVars, vpnVars
  <2>2. LoopFits' /\ SigFits' /\ ChildFits'
    BY <1>2 DEF LoopFits, SigFits, ChildFits, NextDev, Sig, ProcsOf, loopVars, procVars,
                vpnVars
  <2>3. LoopDeals'
    BY <1>2 DEF LoopDeals, Dealt, Orphan, LoopFits, NextDev, Sig, ProcsOf, loopVars,
                procVars, vpnVars
  <2>4. SigDeals'
    BY <1>2 DEF SigDeals, LoopDeals, Dealt, Orphan, BaseToCome, SigFits, LoopFits,
                NextDev, Sig, ProcsOf, loopVars, procVars, vpnVars
  <2>5. CleanupDeals'
    BY <1>2 DEF CleanupDeals, SigDeals, Dealt, Orphan, BaseToCome, SigFits, ChildFits,
                NextDev, Sig, ProcsOf, loopVars, procVars, vpnVars
  <2>. QED
    BY <2>1, <2>2, <2>3, <2>4, <2>5
<1>3. CASE NoDevs
  <2>1. TypeOK'
    BY <1>3 DEF NoDevs, Sig, loopVars, procVars, vpnVars
  <2>2. LoopFits' /\ SigFits' /\ ChildFits'
    BY <1>3 DEF LoopFits, SigFits, ChildFits, NoDevs, Sig, loopVars, procVars, vpnVars
  <2>3. LoopDeals'
    BY <1>3 DEF LoopDeals, Dealt, Orphan, LoopFits, NoDevs, Sig, loopVars, procVars,
                vpnVars
  <2>4. SigDeals'
    BY <1>3 DEF SigDeals, LoopDeals, Dealt, Orphan, BaseToCome, SigFits, LoopFits,
                NoDevs, Sig, loopVars, procVars, vpnVars
  <2>5. CleanupDeals'
    BY <1>3 DEF CleanupDeals, SigDeals, Dealt, Orphan, BaseToCome, SigFits, ChildFits,
                NoDevs, Sig, loopVars, procVars, vpnVars
  <2>. QED
    BY <2>1, <2>2, <2>3, <2>4, <2>5
<1>4. ASSUME NEW p \in Proc, KillNext(p) PROVE IInv'
  <2>1. TypeOK'
    BY <1>4 DEF KillNext, Sig, Kill, loopVars, procVars, vpnVars
  <2>2. LoopFits' /\ SigFits' /\ ChildFits'
    BY <1>4 DEF LoopFits, SigFits, ChildFits, KillNext, Sig, Kill, loopVars, procVars,
                vpnVars
  <2>3. LoopDeals'
    BY <1>4 DEF LoopDeals, Dealt, Orphan, LoopFits, KillNext, Sig, Kill, loopVars,
                procVars, vpnVars
  <2>4. SigDeals'
    BY <1>4 DEF SigDeals, LoopDeals, Dealt, Orphan, BaseToCome, SigFits, ChildFits,
                KillNext, Sig, Kill, loopVars, procVars, vpnVars
  <2>5. CleanupDeals'
    BY <1>4 DEF CleanupDeals, SigDeals, Dealt, Orphan, BaseToCome, SigFits, ChildFits,
                KillNext, Sig, Kill, loopVars, procVars, vpnVars
  <2>. QED
    BY <2>1, <2>2, <2>3, <2>4, <2>5
<1>5. CASE NoProcs
  <2>1. TypeOK'
    BY <1>5 DEF NoProcs, Sig, loopVars, procVars, vpnVars
  <2>2. LoopFits' /\ SigFits' /\ ChildFits'
    BY <1>5 DEF LoopFits, SigFits, ChildFits, NoProcs, Sig, loopVars, procVars, vpnVars
  <2>3. LoopDeals'
    BY <1>5 DEF LoopDeals, Dealt, Orphan, LoopFits, NoProcs, Sig, loopVars, procVars,
                vpnVars
  <2>4. SigDeals'
    BY <1>5 DEF SigDeals, LoopDeals, Dealt, Orphan, BaseToCome, SigFits, LoopFits,
                NoProcs, Sig, loopVars, procVars, vpnVars
  <2>5. CleanupDeals'
    BY <1>5 DEF CleanupDeals, SigDeals, Dealt, Orphan, BaseToCome, SigFits, ChildFits,
                NoProcs, Sig, loopVars, procVars, vpnVars
  <2>. QED
    BY <2>1, <2>2, <2>3, <2>4, <2>5
<1>6. CASE MapCrash
  <2>1. TypeOK'
    BY <1>6 DEF MapCrash, Sig, loopVars, procVars, vpnVars
  <2>2. LoopFits' /\ SigFits' /\ ChildFits'
    BY <1>6 DEF LoopFits, SigFits, ChildFits, MapCrash, Sig, loopVars, procVars, vpnVars
  <2>3. LoopDeals'
    BY <1>6 DEF LoopDeals, Dealt, Orphan, LoopFits, MapCrash, Sig, loopVars, procVars,
                vpnVars
  <2>4. SigDeals'
    BY <1>6 DEF SigDeals, LoopDeals, Dealt, Orphan, BaseToCome, SigFits, LoopFits,
                MapCrash, Sig, loopVars, procVars, vpnVars
  <2>5. CleanupDeals'
    BY <1>6 DEF CleanupDeals, SigDeals, Dealt, Orphan, BaseToCome, SigFits, ChildFits,
                MapCrash, Sig, loopVars, procVars, vpnVars
  <2>. QED
    BY <2>1, <2>2, <2>3, <2>4, <2>5
<1>7. ASSUME NEW d \in Dev, SeesNewDev(d) PROVE IInv'
  <2>1. TypeOK'
    BY <1>7 DEF SeesNewDev, Sig, loopVars, procVars, vpnVars
  <2>2. LoopFits' /\ SigFits' /\ ChildFits'
    BY <1>7 DEF LoopFits, SigFits, ChildFits, SeesNewDev, Sig, loopVars, procVars,
                vpnVars
  <2>3. LoopDeals'
    BY <1>7 DEF LoopDeals, Dealt, Orphan, LoopFits, SeesNewDev, Sig, loopVars, procVars,
                vpnVars
  <2>4. SigDeals'
    BY <1>7 DEF SigDeals, LoopDeals, Dealt, Orphan, BaseToCome, SigFits, LoopFits,
                SeesNewDev, Sig, loopVars, procVars, vpnVars
  <2>5. CleanupDeals'
    BY <1>7 DEF CleanupDeals, SigDeals, Dealt, Orphan, BaseToCome, SigFits, ChildFits,
                SeesNewDev, Sig, loopVars, procVars, vpnVars
  <2>. QED
    BY <2>1, <2>2, <2>3, <2>4, <2>5
<1>8. ASSUME NEW p \in Proc, SeesNewProc(p) PROVE IInv'
  <2>1. TypeOK'
    BY <1>8 DEF SeesNewProc, Sig, loopVars, procVars, vpnVars
  <2>2. LoopFits' /\ SigFits' /\ ChildFits'
    BY <1>8 DEF LoopFits, SigFits, ChildFits, SeesNewProc, Sig, loopVars, procVars,
                vpnVars
  <2>3. LoopDeals'
    BY <1>8 DEF LoopDeals, Dealt, Orphan, LoopFits, SeesNewProc, Sig, loopVars, procVars,
                vpnVars
  <2>4. SigDeals'
    BY <1>8 DEF SigDeals, LoopDeals, Dealt, Orphan, BaseToCome, SigFits, LoopFits,
                SeesNewProc, Sig, loopVars, procVars, vpnVars
  <2>5. CleanupDeals'
    BY <1>8 DEF CleanupDeals, SigDeals, Dealt, Orphan, BaseToCome, SigFits, ChildFits,
                SeesNewProc, Sig, loopVars, procVars, vpnVars
  <2>. QED
    BY <2>1, <2>2, <2>3, <2>4, <2>5
<1>9. CASE vpn_shutdown \/ WatchStops
  <2>1. TypeOK'
    BY <1>9 DEF vpn_shutdown, WatchStops, Sig, ProcsOf, loopVars, procVars, vpnVars
  <2>2. LoopFits' /\ SigFits' /\ ChildFits'
    BY <1>9 DEF LoopFits, SigFits, ChildFits, vpn_shutdown, WatchStops, Sig, ProcsOf,
                loopVars, procVars, vpnVars
  <2>3. LoopDeals'
    BY <1>9 DEF LoopDeals, Dealt, Orphan, vpn_shutdown, WatchStops, Sig, loopVars,
                procVars
  <2>4. SigDeals'
    <3>1. UNCHANGED <<gStop, devs, phase, stopped, missed>> /\ sig \in {"vpn", "vpnsend"}
          /\ \/ sig' = "vpnsend"
             \/ sig' = "procs" /\ owner' = Base /\ procs' = ProcsOf(Base)
      BY <1>9 DEF vpn_shutdown, WatchStops, Sig, procVars
    <3>2. \A q \in Proc : Dealt(q) <=> Dealt(q)'
      BY <3>1 DEF Dealt, Orphan
    <3>3. \A q \in Proc : Of[q] = Base => Dealt(q) \/ q \in ProcsOf(Base)
      BY DEF Dealt, ProcsOf
    <3>. QED
      BY <3>1, <3>2, <3>3 DEF SigDeals, BaseToCome
  <2>5. CleanupDeals'
    BY <1>9 DEF CleanupDeals, SigDeals, Dealt, Orphan, BaseToCome, SigFits, ChildFits,
                vpn_shutdown, WatchStops, Sig, ProcsOf, loopVars, procVars, vpnVars
  <2>. QED
    BY <2>1, <2>2, <2>3, <2>4, <2>5
<1>10. CASE cleanup_procs
  <2>1. TypeOK'
    BY <1>10 DEF cleanup_procs, Sig, loopVars, procVars, vpnVars
  <2>2. LoopFits' /\ SigFits' /\ ChildFits'
    BY <1>10 DEF LoopFits, SigFits, ChildFits, cleanup_procs, Sig, loopVars, procVars,
                 vpnVars
  <2>3. LoopDeals'
    BY <1>10 DEF LoopDeals, Dealt, Orphan, LoopFits, cleanup_procs, Sig, loopVars,
                 procVars, vpnVars
  <2>4. SigDeals'
    BY <1>10 DEF SigDeals, LoopDeals, Dealt, Orphan, BaseToCome, SigFits, LoopFits,
                 cleanup_procs, Sig, loopVars, procVars, vpnVars
  <2>5. CleanupDeals'
    BY <1>10 DEF CleanupDeals, SigDeals, Dealt, Orphan, BaseToCome, SigFits, ChildFits,
                 cleanup_procs, Sig, loopVars, procVars, vpnVars
  <2>. QED
    BY <2>1, <2>2, <2>3, <2>4, <2>5
<1>11. CASE Exit
  <2>1. TypeOK'
    BY <1>11 DEF Exit, Sig, loopVars, procVars, vpnVars
  <2>2. LoopFits' /\ SigFits' /\ ChildFits'
    BY <1>11 DEF LoopFits, SigFits, ChildFits, Exit, Sig, loopVars, procVars, vpnVars
  <2>3. LoopDeals'
    BY <1>11 DEF LoopDeals, Dealt, Orphan, LoopFits, Exit, Sig, loopVars, procVars,
                 vpnVars
  <2>4. SigDeals'
    BY <1>11 DEF SigDeals, LoopDeals, Dealt, Orphan, BaseToCome, SigFits, LoopFits,
                 Exit, Sig, loopVars, procVars, vpnVars
  <2>5. CleanupDeals'
    BY <1>11 DEF CleanupDeals, SigDeals, Dealt, Orphan, BaseToCome, SigFits, ChildFits,
                 Exit, Sig, loopVars, procVars, vpnVars
  <2>. QED
    BY <2>1, <2>2, <2>3, <2>4, <2>5
<1>12. CASE scanForInterface \/ WatcherClosed
  <2>1. TypeOK'
    BY <1>12 DEF scanForInterface, WatcherClosed, Watch, loopVars, sigVars, procVars
  <2>2. LoopFits' /\ SigFits' /\ ChildFits'
    BY <1>12 DEF LoopFits, SigFits, ChildFits, scanForInterface, WatcherClosed, Watch,
                 loopVars, sigVars, procVars
  <2>3. LoopDeals'
    BY <1>12 DEF LoopDeals, Dealt, Orphan, LoopFits, scanForInterface, WatcherClosed,
                 Watch, loopVars, sigVars, procVars
  <2>4. SigDeals'
    BY <1>12 DEF SigDeals, LoopDeals, Dealt, Orphan, BaseToCome, SigFits, LoopFits,
                 scanForInterface, WatcherClosed, Watch, loopVars, sigVars, procVars
  <2>5. CleanupDeals'
    BY <1>12 DEF CleanupDeals, SigDeals, Dealt, Orphan, BaseToCome, SigFits, ChildFits,
                 scanForInterface, WatcherClosed, Watch, loopVars, sigVars, procVars
  <2>. QED
    BY <2>1, <2>2, <2>3, <2>4, <2>5
<1>. QED
  BY <1>1, <1>2, <1>3, <1>4, <1>5, <1>6, <1>7, <1>8, <1>9, <1>10, <1>11, <1>12

-----------------------------------------------------------------------------
(* The coordinator has been started; no signal has come.                   *)
LEMMA InitIInv == Init => IInv
<1>. SUFFICES ASSUME Init PROVE IInv
  OBVIOUS
<1>1. TypeOK
  <2>1. /\ phase \in [Proc -> {"none", "down", "up", "busy", "deaf", "gone"}]
        /\ asks \in [{"loop", "sig"} -> Proc \cup {Nil}]
    BY DEF Init
  <2>2. noticed \in BOOLEAN /\ stopChan = (watch = "watching")
    BY DEF Init
  <2>. QED
    BY <2>1, <2>2 DEF Init, TypeOK
<1>2. LoopFits
  BY ConstantAssumption DEF Init, LoopFits
<1>3. SigFits /\ ChildFits
  BY DEF Init, SigFits, ChildFits
<1>4. LoopDeals /\ SigDeals /\ CleanupDeals
  BY DEF Init, LoopDeals, SigDeals, CleanupDeals, Dealt
<1>. QED
  BY <1>1, <1>2, <1>3, <1>4 DEF IInv

(* Every step of the loop, the supervisors and the two goroutines of the   *)
(* shutdown preserves the invariant.                                       *)
LEMMA NextIInv == IInv /\ [Next]_vars => IInv'
<1>. SUFFICES ASSUME IInv, [Next]_vars PROVE IInv'
  OBVIOUS
<1>1. CASE UNCHANGED vars
  BY <1>1 DEF vars, IInv, TypeOK, LoopFits, SigFits, ChildFits, LoopDeals, SigDeals,
              CleanupDeals, Dealt, Orphan, BaseToCome
<1>. QED
  BY <1>1, SupervisorIInv, LoopIInv, SignalIInv DEF Next, LoopSteps, SigSteps

(* The account of the processes is right at all times.                     *)
THEOREM Invariance == Spec => []IInv
  BY InitIInv, NextIInv, PTL DEF Spec

(* The loop and the shutdown keep their types.                             *)
THEOREM TypeCorrect == Spec => []TypeOK
<1>1. IInv => TypeOK
  BY DEF IInv
<1>. QED
  BY Invariance, <1>1, PTL

(* Whatever the event loop does meanwhile, the coordinator exits with no   *)
(* child but those that it told to end and cleanup_procs does not know,    *)
(* those that a Kill missed or that were made during the shutdown, and     *)
(* those whose place in their map another has taken.                       *)
THEOREM ExitLeavesOnlyMissed == Spec => []ExitLeavesOnly
<1>1. ASSUME IInv, sig = "exited", NEW p \in alive
      PROVE  p \in missed \/ p \in stopped \ Known \/ Orphan(p)
  <2>1. p \in Proc /\ gStop /\ hit = {} /\ devs = {}
    BY <1>1 DEF IInv, TypeOK, SigFits
  <2>2. p \in missed \cup stopped \/ Orphan(p)
    BY <1>1, <2>1 DEF IInv, SigDeals, Dealt, ChildFits, BaseToCome
  <2>3. p \in Known => p \in missed \/ Orphan(p)
    BY <1>1, <2>1 DEF IInv, CleanupDeals
  <2>. QED
    BY <2>2, <2>3
<1>2. IInv => ExitLeavesOnly
  BY <1>1 DEF ExitLeavesOnly
<1>. QED
  BY Invariance, <1>2, PTL
-----------------------------------------------------------------------------
(* What a step cannot do to those who wait.                                *)
LEMMA WaitsStay ==
    ASSUME IInv, [Next]_vars
    PROVE  /\ \A p \in Proc : \/ phase[p] \in {"deaf", "gone"}
                              \/ phase[p] = "busy" /\ p \in Posts /\ loop # "select"
                              => phase'[p] = phase[p]
           /\ \A c \in {"loop", "sig"} :
                 asks[c] \in Proc /\ phase[asks[c]] # "up" => asks'[c] = asks[c]
           /\ loop = "stage1" /\ ~noticed /\ watch = "gone" =>
                 loop' = "stage1" /\ ~noticed' /\ watch' = "gone"
           /\ sig = "vpnsend" /\ watch = "gone" => sig' = "vpnsend" /\ watch' = "gone"
<1>. USE DEF Next, Supervisor, Launch, GiveUp, Post, do_restart, RestartDone, RunEnds,
             Move, ChildExits, StartNext, Receive, Connect, Event, Disconnect,
             LoopSteps, Served, periodic_stop, Stage1, NewRunningDev, proc_generic,
             closeRunningDev, Forget, Loop, Quiet, Kill, scanForInterface,
             WatcherClosed, Watch, Signal, SigSteps, NextDev, NoDevs, KillNext, NoProcs,
             vpn_shutdown, cleanup_procs, Exit, WatchStops, MapCrash, SeesNewDev,
             SeesNewProc, Sig, Taken, loopVars, sigVars, procVars, vpnVars, vars
<1>1. TypeOK /\ LoopFits /\ Nil \notin Proc /\ Restarts \cap Posts = {}
  BY ConstantAssumption DEF IInv
<1>2. ASSUME NEW p \in Proc,
             \/ phase[p] \in {"deaf", "gone"}
             \/ phase[p] = "busy" /\ p \in Posts /\ loop # "select"
      PROVE  phase'[p] = phase[p]
  <2>1. CASE phase[p] \in {"deaf", "gone"}
    BY <1>1, <2>1 DEF TypeOK, LoopFits
  <2>2. CASE phase[p] = "busy" /\ p \in Posts /\ loop # "select"
    BY <1>1, <2>2 DEF TypeOK, LoopFits
  <2>. QED
    BY <1>2, <2>1, <2>2
<1>3. ASSUME NEW c \in {"loop", "sig"}, asks[c] \in Proc, phase[asks[c]] # "up"
      PROVE  asks'[c] = asks[c]
  BY <1>1, <1>3 DEF TypeOK
<1>4. ASSUME loop = "stage1", ~noticed, watch = "gone"
      PROVE  loop' = "stage1" /\ ~noticed' /\ watch' = "gone"
  BY <1>4
<1>5. ASSUME sig = "vpnsend", watch = "gone"
      PROVE  sig' = "vpnsend" /\ watch' = "gone"
  BY <1>5
<1>. QED
  BY <1>2, <1>3, <1>4, <1>5

(* A Kill that waits in vain, and the wait for a VPN that is not watched   *)
(* for any more, do not end, and they keep the shutdown if it meets them.  *)
THEOREM StuckStays == Spec => StuckForGood
<1>1. ASSUME IInv, [Next]_vars
      PROVE  /\ LoopStuck => LoopStuck' \/ Ended'
             /\ SigStuck => SigStuck'
  <2>1. /\ \A p \in Proc : \/ phase[p] \in {"deaf", "gone"}
                           \/ phase[p] = "busy" /\ p \in Posts /\ loop # "select"
                           => phase'[p] = phase[p]
        /\ \A c \in {"loop", "sig"} :
              asks[c] \in Proc /\ phase[asks[c]] # "up" => asks'[c] = asks[c]
        /\ loop = "stage1" /\ ~noticed /\ watch = "gone" =>
              loop' = "stage1" /\ ~noticed' /\ watch' = "gone"
        /\ sig = "vpnsend" /\ watch = "gone" => sig' = "vpnsend" /\ watch' = "gone"
    BY <1>1, WaitsStay
  <2>2. \A c \in {"loop", "sig"} : InVain(c) => InVain(c)'
    BY <2>1 DEF InVain
  <2>3. LoopStuck => LoopStuck' /\ loop # "select"
    <3>1. asks["loop"] \in Proc => loop = "kill"
      BY <1>1, ConstantAssumption DEF IInv, LoopFits
    <3>. QED
      BY <2>1, <2>2, <3>1, ConstantAssumption DEF LoopStuck, InVain, Posting
  <2>4. SigStuck => SigStuck'
    BY <2>1, <2>2, <2>3, ConstantAssumption DEF SigStuck, Posting
  <2>. QED
    BY <2>3, <2>4
<1>. QED
  BY <1>1, Invariance, PTL DEF Spec, StuckForGood
-----------------------------------------------------------------------------
(* A supervisor as module Requests sees it.                                *)
AnswerOf(p) == CASE phase[p] \in {"none", "down", "gone"} -> "drops"
                 [] phase[p] = "up"   -> "takes"
                 [] phase[p] = "busy" -> "waits"
                 [] phase[p] = "deaf" -> "never"
AskingOf(p) == {c \in {"loop", "sig"} : asks[c] = p}

(* A supervisor goes on by itself, or is left alone.                       *)
LEMMA ChangeIsAllowed ==
    ASSUME TypeOK, TypeOK', NEW p \in Proc, UNCHANGED <<p \in stopped, AskingOf(p)>>,
           \/ phase'[p] = phase[p]
           \/ phase[p] = "none" /\ phase'[p] = "down"
           \/ phase[p] # "deaf" /\ ~(p \in stopped /\ phase[p] \in {"none", "down", "gone"})
    PROVE  [Asked(p)!Next]_(Asked(p)!vars)
<1>1. phase'[p] \in {"none", "down", "up", "busy", "deaf", "gone"}
      /\ phase[p] \in {"none", "down", "up", "busy", "deaf", "gone"}
  BY DEF TypeOK
<1>2. AnswerOf(p)' \in {"drops", "waits", "takes", "never"}
  BY <1>1 DEF AnswerOf
<1>3. \/ AnswerOf(p)' = AnswerOf(p)
      \/ AnswerOf(p) # "never" /\ ~(p \in stopped /\ AnswerOf(p) = "drops")
  BY <1>1 DEF AnswerOf
<1>. QED
  BY <1>2, <1>3 DEF AnswerOf, AskingOf, Asked!Next, Asked!Change, Asked!Answer, Asked!vars

(* A Kill finds a command and waits.                                       *)
LEMMA AskIsAllowed ==
    ASSUME TypeOK, NEW p \in Proc, NEW c \in {"loop", "sig"}, UNCHANGED <<phase, stopped>>,
           phase[p] \notin {"none", "down", "gone"}, AskingOf(p)' = AskingOf(p) \cup {c}
    PROVE  Asked(p)!Next
<1>1. AnswerOf(p)' = AnswerOf(p) /\ AnswerOf(p) # "drops"
  BY DEF TypeOK, AnswerOf
<1>. QED
  BY <1>1 DEF AnswerOf, AskingOf, Asked!Next, Asked!Ask

(* A Kill that waited is taken.                                            *)
LEMMA TakeIsAllowed ==
    ASSUME TypeOK, NEW p \in Proc, NEW c \in {"loop", "sig"}, UNCHANGED phase,
           phase[p] = "up", p \in stopped', c \in AskingOf(p),
           AskingOf(p)' = AskingOf(p) \ {c}
    PROVE  Asked(p)!Next
<1>1. AnswerOf(p)' = AnswerOf(p) /\ AnswerOf(p) = "takes"
  BY DEF TypeOK, AnswerOf
<1>2. (p \in stopped)' = TRUE
  OBVIOUS
<1>3. (p \in stopped)' \in {(p \in stopped), TRUE}
  BY <1>2, Zenon
<1>. QED
  BY <1>1, <1>3 DEF AnswerOf, AskingOf, Asked!Next, Asked!Take, Asked!Taken

(* What two goroutines that Kill, start and forget processes in the same   *)
(* maps see of each supervisor is what module Requests says.               *)
THEOREM KillsAnswered == Spec => KillsAreAnswered
<1>1. Init => \A p \in Proc : Asked(p)!Init
  <2>. SUFFICES ASSUME Init, NEW p \in Proc PROVE Asked(p)!Init
    OBVIOUS
  <2>1. phase[p] \in {"none", "down"} /\ p \notin stopped
    BY DEF Init
  <2>2. \A c \in {"loop", "sig"} : asks[c] # p
    BY ConstantAssumption DEF Init
  <2>. QED
    BY <2>1, <2>2 DEF Asked!Init
<1>2. ASSUME IInv, [Next]_vars, NEW p \in Proc
      PROVE  [Asked(p)!Next]_(Asked(p)!vars)
  <2>0. TypeOK /\ TypeOK' /\ LoopFits /\ ChildFits /\ Nil \notin Proc
    BY <1>2, NextIInv, ConstantAssumption DEF IInv
  <2>1. ASSUME UNCHANGED <<phase, stopped, asks>>
        PROVE  [Asked(p)!Next]_(Asked(p)!vars)
    BY <2>0, <2>1, ChangeIsAllowed DEF AskingOf
  <2>2. CASE \E q \in Proc : Supervisor(q) \/ Receive(q)
    <3>1. PICK q \in Proc : Supervisor(q) \/ Receive(q)
      BY <2>2
    <3>2. UNCHANGED <<stopped, asks>>
      BY <3>1 DEF Supervisor, Launch, GiveUp, Post, do_restart, RestartDone, RunEnds,
                  Move, Receive, Loop
    <3>3. \/ phase'[p] = phase[p]
          \/ phase[p] # "deaf" /\ ~(p \in stopped /\ phase[p] \in {"none", "down", "gone"})
      BY <2>0, <3>1 DEF TypeOK, ChildFits, Supervisor, Launch, GiveUp, Post, do_restart,
                        RestartDone, RunEnds, Move, Receive, Loop
    <3>. QED
      BY <2>0, <3>2, <3>3, ChangeIsAllowed DEF AskingOf
  <2>3. CASE proc_generic
    <3>1. UNCHANGED <<stopped, asks>>
      BY <2>3 DEF proc_generic, Loop
    <3>2. phase'[p] = phase[p] \/ (phase[p] = "none" /\ phase'[p] = "down")
      BY <2>0, <2>3 DEF TypeOK, LoopFits, proc_generic, Loop
    <3>. QED
      BY <2>0, <3>1, <3>2, ChangeIsAllowed DEF AskingOf
  <2>4. ASSUME NEW c \in {"loop", "sig"}, NEW q \in Proc, Kill(c, q), asks[c] = Nil,
               UNCHANGED <<phase, stopped>>
        PROVE  [Asked(p)!Next]_(Asked(p)!vars)
    <3>1. CASE phase[q] \in {"none", "down", "gone"} \/ q # p
      <4>1. AskingOf(p)' = AskingOf(p)
        BY <2>0, <2>4, <3>1 DEF TypeOK, Kill, AskingOf
      <4>. QED
        BY <2>0, <2>4, <4>1, ChangeIsAllowed
    <3>2. CASE phase[q] \notin {"none", "down", "gone"} /\ q = p
      <4>1. AskingOf(p)' = AskingOf(p) \cup {c}
        BY <2>0, <2>4, <3>2 DEF TypeOK, Kill, AskingOf
      <4>. QED
        BY <2>0, <2>4, <3>2, <4>1, AskIsAllowed
    <3>. QED
      BY <3>1, <3>2
  <2>5. CASE closeRunningDev \/ \E q \in Proc : KillNext(q)
    <3>1. PICK c \in {"loop", "sig"}, q \in Proc :
              Kill(c, q) /\ asks[c] = Nil /\ UNCHANGED <<phase, stopped>>
      BY <2>0, <2>5 DEF TypeOK, closeRunningDev, KillNext, Loop, Sig, procVars
    <3>. QED
      BY <2>4, <3>1
  <2>6. CASE \E c \in {"loop", "sig"} : Taken(c)
    <3>1. PICK c \in {"loop", "sig"} : Taken(c)
      BY <2>6
    <3>2. CASE asks[c] = p
      <4>1. phase[p] = "up" /\ p \in stopped' /\ UNCHANGED phase /\ c \in AskingOf(p)
        BY <3>1, <3>2 DEF Taken, AskingOf
      <4>2. AskingOf(p)' = AskingOf(p) \ {c}
        BY <2>0, <3>1, <3>2 DEF TypeOK, Taken, AskingOf
      <4>. QED
        BY <2>0, <4>1, <4>2, TakeIsAllowed
    <3>3. CASE asks[c] # p
      <4>1. UNCHANGED <<phase, p \in stopped, AskingOf(p)>>
        BY <2>0, <3>1, <3>3 DEF TypeOK, Taken, AskingOf
      <4>. QED
        BY <2>0, <4>1, ChangeIsAllowed
    <3>. QED
      BY <3>2, <3>3
  <2>7. CASE \/ \E q \in Proc : ChildExits(q) \/ StartNext(q) \/ SeesNewProc(q)
             \/ \E d \in Dev : \/ Connect(d) \/ Event(d) \/ Disconnect(d)
                             \/ SeesNewDev(d) \/ NextDev(d)
             \/ Served \/ periodic_stop \/ Stage1 \/ NewRunningDev \/ Forget
             \/ scanForInterface \/ WatcherClosed \/ Signal \/ WatchStops \/ MapCrash
             \/ NoDevs \/ NoProcs \/ vpn_shutdown \/ cleanup_procs \/ Exit
    <3>1. UNCHANGED <<phase, stopped, asks>>
      BY <2>7 DEF ChildExits, StartNext, SeesNewProc, Connect, Event, Disconnect,
                  Served, periodic_stop, SeesNewDev,
                  NextDev, Stage1, NewRunningDev, Forget, scanForInterface, WatcherClosed,
                  Watch, Signal, WatchStops, MapCrash, NoDevs, NoProcs, vpn_shutdown,
                  cleanup_procs, Exit, Loop, Sig, Quiet, procVars
    <3>. QED
      BY <2>1, <3>1
  <2>8. CASE UNCHANGED vars
    BY <2>1, <2>8 DEF vars
  <2>. QED
    BY <1>2, <2>2, <2>3, <2>5, <2>6, <2>7, <2>8 DEF Next, LoopSteps, SigSteps
<1>3. IInv /\ [Next]_vars => \A p \in Proc : [Asked(p)!Next]_(Asked(p)!vars)
  BY <1>2
<1>. QED
  BY <1>1, <1>3, Invariance, PTL DEF Spec, KillsAreAnswered
=============================================================================
