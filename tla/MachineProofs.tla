---------------------------- MODULE MachineProofs -----------------------------
(***************************************************************************)
(* What the program leaves on the machine: the jobs of launchd and their   *)
(* files (module Launcher), for any number of commands, labels and versions *)
(* of a job; and what cleanup_procs guarantees when it returns (module     *)
(* CleanupProcs), for any processes and whatever they do meanwhile.        *)
(***************************************************************************)
EXTENDS Launcher, CleanupProcs, TLAPS

(* A command that is busy does something, and only a load loads.           *)
BusyCommands ==
    \A c \in Command : /\ cpc[c] # "idle" <=> cmd[c] \in Ops
                       /\ cpc[c] \in {"pid", "write", "load"} => cmd[c].op = "load"

(* A label that is not disturbed has at most one command at a time.        *)
OneCommand ==
    \A c, d \in Command :
        cpc[c] # "idle" /\ cpc[d] # "idle" /\ cmd[c].label = cmd[d].label
          => c = d \/ cmd[c].label \in disturbed

(* What the property says of a label while no command changes it ...       *)
Fits(l) == job[l] # NoJob /\ l \notin failed => /\ plist[l] # NoJob
                                                /\ l \notin unseen => plist[l] = job[l]

(* ... and what holds in between: after unload there is no job, unless it  *)
(* failed, and a load that goes on with a job has not seen it.             *)
Half(c) == LET l == cmd[c].label IN
    /\ cpc[c] \in {"pid", "unload"} => Fits(l)
    /\ cpc[c] = "remove" => job[l] = NoJob \/ l \in failed
    /\ cpc[c] \in {"write", "load"} /\ job[l] # NoJob =>
         l \in failed \/ (l \in unseen /\ plist[l] # NoJob)

Undisturbed ==
    /\ \A c \in Command : cpc[c] # "idle" /\ cmd[c].label \notin disturbed => Half(c)
    /\ \A l \in Label \ disturbed : ~Busy(l) => Fits(l)

IInv == TypeOK /\ BusyCommands /\ OneCommand /\ Undisturbed

(* What a load is given is an operation.                                   *)
LEMMA LoadOps == ASSUME NEW l \in Label, NEW a \in Content
                 PROVE  [op |-> "load", label |-> l, content |-> a] \in Ops
  BY DEF Ops

(* The same for an unload.                                                 *)
LEMMA UnloadOps == ASSUME NEW l \in Label
                   PROVE  [op |-> "unload", label |-> l] \in Ops
  BY DEF Ops

(* An idle command has no operation.                                       *)
LEMMA NoOpNotOps == NoOp \notin Ops
  BY DEF NoOp, Ops

(* Every operation has a label, and a load has a content.                  *)
LEMMA OpsFields == ASSUME NEW o \in Ops
                   PROVE  /\ o.label \in Label
                          /\ o.op \in {"load", "unload"}
                          /\ o.op = "load" => o.content \in Content
  BY DEF Ops

(* Nothing is loaded, and no command runs, to begin with.                  *)
LEMMA InitIInv == Init => IInv
  BY NoOpNotOps DEF Init, IInv, TypeOK, BusyCommands, OneCommand, Undisturbed, Busy, Fits

(* A command begins: a second one on a label disturbs it.                  *)
LEMMA BeginIInv ==
  ASSUME IInv, NEW c \in Command, NEW o \in Ops, NEW place \in {"pid", "unload"},
         place = "pid" => o.op = "load", Begin(c, o, place)
  PROVE  IInv'
<1> o.label \in Label
  BY OpsFields
<1>1. TypeOK'
  BY DEF Begin, IInv, TypeOK
<1>2. BusyCommands'
  BY DEF Begin, IInv, TypeOK, BusyCommands
<1>3. OneCommand'
  BY DEF Begin, IInv, TypeOK, OneCommand, Busy
<1>4. ASSUME NEW d \in Command, cpc'[d] # "idle", cmd'[d].label \notin disturbed'
      PROVE  Half(d)'
  <2>1. CASE d = c
    BY <1>4, <2>1 DEF Begin, IInv, TypeOK, Undisturbed, Busy, Half, Fits
  <2>2. CASE d # c
    BY <1>4, <2>2 DEF Begin, IInv, TypeOK, Undisturbed, Half, Fits
  <2> QED BY <2>1, <2>2
<1>5. ASSUME NEW l \in Label \ disturbed', ~Busy(l)' PROVE Fits(l)'
  BY <1>5 DEF Begin, IInv, TypeOK, Undisturbed, Busy, Fits
<1> QED BY <1>1, <1>2, <1>3, <1>4, <1>5 DEF IInv, Undisturbed

(* Every step of a command, of launchd and of the machine keeps it.        *)
LEMMA NextIInv == IInv /\ [Next]_vars => IInv'
<1> SUFFICES ASSUME IInv, [Next]_vars PROVE IInv'
  OBVIOUS
<1>1. ASSUME NEW c \in Command, NEW l \in Label, NEW a \in Content,
             openvpn_load(c, l, a) \/ coordinator_load(c, l, a)
      PROVE  IInv'
  BY <1>1, LoadOps, BeginIInv DEF openvpn_load, coordinator_load
<1>2. ASSUME NEW c \in Command, NEW l \in Label, coordinator_unload(c, l) PROVE IInv'
  BY <1>2, UnloadOps, BeginIInv DEF coordinator_unload
<1>0. ASSUME NEW c \in Command, openvpn_unload(c) PROVE IInv'
  BY <1>0, UnloadOps, BeginIInv, LauncherAssumption DEF openvpn_unload, Label
<1>3. ASSUME NEW c \in Command, LookForPid(c) PROVE IInv'
  <2>0. cmd[c].label \in Label
    BY <1>3, OpsFields DEF IInv, BusyCommands, LookForPid
  <2>1. TypeOK'
    BY <1>3, <2>0 DEF LookForPid, IInv, TypeOK
  <2>2. BusyCommands' /\ OneCommand'
    BY <1>3 DEF LookForPid, IInv, TypeOK, BusyCommands, OneCommand
  <2>3. Undisturbed'
    BY <1>3, <2>0 DEF LookForPid, IInv, TypeOK, OneCommand, Undisturbed, Busy, Half, Fits
  <2> QED BY <2>1, <2>2, <2>3 DEF IInv
<1>4. ASSUME NEW c \in Command, UnloadJob(c) PROVE IInv'
  <2>0. cmd[c].label \in Label
    BY <1>4, OpsFields DEF IInv, BusyCommands, UnloadJob
  <2>1. TypeOK'
    BY <1>4, <2>0 DEF UnloadJob, IInv, TypeOK
  <2>2. BusyCommands' /\ OneCommand'
    BY <1>4 DEF UnloadJob, IInv, TypeOK, BusyCommands, OneCommand
  <2>3. ASSUME NEW d \in Command, cpc'[d] # "idle", cmd'[d].label \notin disturbed'
        PROVE  Half(d)'
    <3>1. CASE d = c
      BY <1>4, <2>0, <2>3, <3>1 DEF UnloadJob, IInv, TypeOK, Undisturbed, Half, Fits
    <3>2. CASE d # c
      <4>1. cmd[d].label # cmd[c].label
        BY <1>4, <2>3, <3>2 DEF UnloadJob, IInv, TypeOK, OneCommand
      <4>0. cmd[d].label \in Label
        BY <1>4, <2>3, <3>2, OpsFields DEF UnloadJob, IInv, TypeOK, BusyCommands
      <4>2. Half(d)
        BY <1>4, <2>3, <3>2 DEF UnloadJob, IInv, TypeOK, Undisturbed
      <4> QED BY <1>4, <2>0, <3>2, <4>0, <4>1, <4>2 DEF UnloadJob, IInv, TypeOK, Half, Fits
    <3> QED BY <3>1, <3>2
  <2>4. ASSUME NEW l \in Label \ disturbed', ~Busy(l)' PROVE Fits(l)'
    BY <1>4, <2>0, <2>4 DEF UnloadJob, IInv, TypeOK, Undisturbed, Busy, Fits
  <2> QED BY <2>1, <2>2, <2>3, <2>4 DEF IInv, Undisturbed
<1>5. ASSUME NEW c \in Command, RemoveFile(c) PROVE IInv'
  <2>0. cmd[c].label \in Label
    BY <1>5, OpsFields DEF IInv, BusyCommands, RemoveFile
  <2>1. TypeOK'
    BY <1>5, <2>0 DEF RemoveFile, End, IInv, TypeOK
  <2>2. BusyCommands' /\ OneCommand'
    BY <1>5, NoOpNotOps DEF RemoveFile, End, IInv, TypeOK, BusyCommands, OneCommand
  <2>3. ASSUME NEW d \in Command, cpc'[d] # "idle", cmd'[d].label \notin disturbed'
        PROVE  Half(d)'
    <3>1. CASE d = c
      BY <1>5, <2>0, <2>3, <3>1 DEF RemoveFile, End, IInv, TypeOK, Undisturbed, Half, Fits
    <3>2. CASE d # c
      <4>1. cmd[d].label # cmd[c].label
        BY <1>5, <2>3, <3>2 DEF RemoveFile, End, IInv, TypeOK, OneCommand
      <4>0. cmd[d].label \in Label
        BY <1>5, <2>3, <3>2, OpsFields DEF RemoveFile, End, IInv, TypeOK, BusyCommands
      <4>2. Half(d)
        BY <1>5, <2>3, <3>2 DEF RemoveFile, End, IInv, TypeOK, Undisturbed
      <4> QED BY <1>5, <2>0, <3>2, <4>0, <4>1, <4>2 DEF RemoveFile, End, IInv, TypeOK, Half, Fits
    <3> QED BY <3>1, <3>2
  <2>4. ASSUME NEW l \in Label \ disturbed', ~Busy(l)' PROVE Fits(l)'
    <3>1. CASE l = cmd[c].label
      BY <1>5, <2>0, <2>4, <3>1 DEF RemoveFile, End, IInv, TypeOK, Undisturbed, Half, Fits, Busy
    <3>2. CASE l # cmd[c].label
      <4>1. ~Busy(l)
        BY <1>5, <2>4, <3>2 DEF RemoveFile, End, IInv, TypeOK, Busy
      <4>2. Fits(l) /\ l \in Label
        BY <1>5, <2>4, <4>1 DEF RemoveFile, End, IInv, Undisturbed
      <4> QED BY <1>5, <2>0, <3>2, <4>2 DEF RemoveFile, End, IInv, TypeOK, Fits
    <3> QED BY <3>1, <3>2
  <2> QED BY <2>1, <2>2, <2>3, <2>4 DEF IInv, Undisturbed
<1>6. ASSUME NEW c \in Command, WriteFile(c) PROVE IInv'
  <2>0. cmd[c].label \in Label /\ cmd[c] \in Ops
    BY <1>6, OpsFields DEF IInv, BusyCommands, WriteFile
  <2>c. cmd[c].content \in Content
    BY <1>6, <2>0, OpsFields DEF IInv, BusyCommands, WriteFile
  <2>1. TypeOK'
    BY <1>6, <2>0, <2>c DEF WriteFile, IInv, TypeOK
  <2>2. BusyCommands' /\ OneCommand'
    <3>1. cpc' = [cpc EXCEPT ![c] = "load"] /\ UNCHANGED <<cmd, disturbed>> /\ cpc[c] = "write"
      BY <1>6 DEF WriteFile
    <3> QED BY <3>1 DEF IInv, TypeOK, BusyCommands, OneCommand
  <2>3. ASSUME NEW d \in Command, cpc'[d] # "idle", cmd'[d].label \notin disturbed'
        PROVE  Half(d)'
    <3>1. CASE d = c
      BY <1>6, <2>0, <2>c, <2>3, <3>1, LauncherAssumption DEF WriteFile, IInv, TypeOK, Undisturbed, Half, Fits
    <3>2. CASE d # c
      <4>1. cmd[d].label # cmd[c].label
        BY <1>6, <2>3, <3>2 DEF WriteFile, IInv, TypeOK, OneCommand
      <4>0. cmd[d].label \in Label
        BY <1>6, <2>3, <3>2, OpsFields DEF WriteFile, IInv, TypeOK, BusyCommands
      <4>2. Half(d)
        BY <1>6, <2>3, <3>2 DEF WriteFile, IInv, TypeOK, Undisturbed
      <4> QED BY <1>6, <2>0, <3>2, <4>0, <4>1, <4>2 DEF WriteFile, IInv, TypeOK, Half, Fits
    <3> QED BY <3>1, <3>2
  <2>4. ASSUME NEW l \in Label \ disturbed', ~Busy(l)' PROVE Fits(l)'
    BY <1>6, <2>0, <2>4 DEF WriteFile, IInv, TypeOK, Undisturbed, Busy, Fits
  <2> QED BY <2>1, <2>2, <2>3, <2>4 DEF IInv, Undisturbed
<1>7. ASSUME NEW c \in Command, LoadJob(c) PROVE IInv'
  <2>0. cmd[c].label \in Label
    BY <1>7, OpsFields DEF IInv, BusyCommands, LoadJob
  <2>1. TypeOK'
    BY <1>7, <2>0 DEF LoadJob, End, IInv, TypeOK
  <2>2. BusyCommands' /\ OneCommand'
    BY <1>7, NoOpNotOps DEF LoadJob, End, IInv, TypeOK, BusyCommands, OneCommand
  <2>3. ASSUME NEW d \in Command, cpc'[d] # "idle", cmd'[d].label \notin disturbed'
        PROVE  Half(d)'
    <3>1. CASE d = c
      BY <1>7, <2>0, <2>3, <3>1 DEF LoadJob, End, IInv, TypeOK, Undisturbed, Half, Fits
    <3>2. CASE d # c
      <4>1. cmd[d].label # cmd[c].label
        BY <1>7, <2>3, <3>2 DEF LoadJob, End, IInv, TypeOK, OneCommand
      <4>0. cmd[d].label \in Label
        BY <1>7, <2>3, <3>2, OpsFields DEF LoadJob, End, IInv, TypeOK, BusyCommands
      <4>2. Half(d)
        BY <1>7, <2>3, <3>2 DEF LoadJob, End, IInv, TypeOK, Undisturbed
      <4> QED BY <1>7, <2>0, <3>2, <4>0, <4>1, <4>2 DEF LoadJob, End, IInv, TypeOK, Half, Fits
    <3> QED BY <3>1, <3>2
  <2>4. ASSUME NEW l \in Label \ disturbed', ~Busy(l)' PROVE Fits(l)'
    <3>1. CASE l = cmd[c].label
      BY <1>7, <2>0, <2>4, <3>1 DEF LoadJob, End, IInv, TypeOK, Undisturbed, Half, Fits, Busy
    <3>2. CASE l # cmd[c].label
      <4>1. ~Busy(l)
        BY <1>7, <2>4, <3>2 DEF LoadJob, End, IInv, TypeOK, Busy
      <4>2. Fits(l) /\ l \in Label
        BY <1>7, <2>4, <4>1 DEF LoadJob, End, IInv, Undisturbed
      <4> QED BY <1>7, <2>0, <3>2, <4>2 DEF LoadJob, End, IInv, TypeOK, Fits
    <3> QED BY <3>1, <3>2
  <2> QED BY <2>1, <2>2, <2>3, <2>4 DEF IInv, Undisturbed
<1>8. ASSUME NEW c \in Command, Interrupt(c) PROVE IInv'
  <2>0. cmd[c].label \in Label
    BY <1>8, OpsFields DEF IInv, BusyCommands, Interrupt
  <2>1. TypeOK'
    BY <1>8, <2>0 DEF Interrupt, End, IInv, TypeOK
  <2>2. BusyCommands' /\ OneCommand'
    BY <1>8, NoOpNotOps DEF Interrupt, End, IInv, TypeOK, BusyCommands, OneCommand
  <2>3. Undisturbed'
    BY <1>8, <2>0 DEF Interrupt, End, IInv, TypeOK, Undisturbed, Busy, Half, Fits
  <2> QED BY <2>1, <2>2, <2>3 DEF IInv
<1>9. ASSUME NEW l \in Daemon, JobStarts(l) \/ JobEnds(l) PROVE IInv'
  BY <1>9 DEF JobStarts, JobEnds, IInv, TypeOK, BusyCommands, OneCommand, Undisturbed,
              Busy, Half, Fits
<1>10. ASSUME NEW a \in Content, ByHand(a) PROVE IInv'
  BY <1>10 DEF ByHand, IInv, TypeOK, BusyCommands, OneCommand, Undisturbed, Busy, Half, Fits
<1>11. CASE Reboot
  BY <1>11, NoOpNotOps
     DEF Reboot, IInv, TypeOK, BusyCommands, OneCommand, Undisturbed, Busy, Half, Fits
<1>12. CASE UNCHANGED vars
  BY <1>12 DEF vars, IInv, TypeOK, BusyCommands, OneCommand, Undisturbed, Busy, Half, Fits
<1> QED
  BY <1>0, <1>1, <1>2, <1>3, <1>4, <1>5, <1>6, <1>7, <1>8, <1>9, <1>10, <1>11, <1>12 DEF Next

(* The state of every label is accounted for at all times.                 *)
THEOREM Invariance == Spec => []IInv
  BY InitIInv, NextIInv, PTL DEF Spec

(* Commands, files and jobs keep their types.                              *)
THEOREM TypeCorrect == Spec => []TypeOK
<1>1. IInv => TypeOK
  BY DEF IInv
<1> QED BY Invariance, <1>1, PTL

(* A loaded job has a file, unless its commands were disturbed or one of   *)
(* them failed, and the file says what the job is unless a load took the   *)
(* job for none.                                                           *)
THEOREM JobsAlwaysMatchFiles == Spec => []JobsMatchFiles
<1>1. IInv => JobsMatchFiles
  BY DEF IInv, Undisturbed, JobsMatchFiles, Fits
<1> QED BY Invariance, <1>1, PTL

(* A load that was not disturbed, saw the job there was and did not fail   *)
(* to write leaves its own job or none.                                    *)
THEOREM LoadsReplace == Spec => LoadReplaces
<1>1. IInv /\ [Next]_vars =>
        [\A c \in Command : cmd[c] # NoOp /\ cmd[c].label \notin unseen => Replaces(c)]_vars
  <2> SUFFICES ASSUME IInv, NEW c \in Command, LoadJob(c),
                      cmd[c].label \notin disturbed \cup failed \cup unseen,
                      plist[cmd[c].label] = cmd[c].content
               PROVE  job'[cmd[c].label] \in {cmd[c].content, NoJob}
    BY DEF Replaces
  <2>1. cmd[c].label \in Label
    BY OpsFields DEF IInv, BusyCommands, LoadJob
  <2>2. job[cmd[c].label] = NoJob
    BY DEF IInv, Undisturbed, Half, LoadJob
  <2> QED BY <2>1, <2>2 DEF LoadJob, IInv, TypeOK
<1> QED BY Invariance, <1>1, PTL DEF Spec, LoadReplaces

-----------------------------------------------------------------------------
(***************************************************************************)
(* The processes an earlier coordinator left behind.                       *)
(***************************************************************************)

(* A program of the coordinator that was there when the list was read.     *)
OldOurs(p) == p \in alive \ late /\ KindOf(p) = "ours"

(* Where such a program can still hide: among those the loop that reads    *)
(* the list has not come to, then only among hangingPids, then only among  *)
(* those the current round has not looked at.                              *)
Accounted ==
    /\ pc = "scan" => \A p \in Pid : OldOurs(p) => p \in todo \cup hanging
    /\ pc \in {"kill", "wait"} => \A p \in Pid : OldOurs(p) => p \in hanging
    /\ pc = "wait" /\ allGone => \A p \in Pid : OldOurs(p) => p \in todo
    /\ pc \in {"report", "done"} => \A p \in Pid : ~OldOurs(p)

CleanupIInv == CleanupTypeOK /\ Accounted

(* Nothing has been looked at when cleanup_procs begins.                   *)
LEMMA CleanupInitIInv == CleanupInit => CleanupIInv
<1> SUFFICES ASSUME CleanupInit PROVE CleanupIInv
  OBVIOUS
<1>1. /\ todo \in SUBSET Pid /\ hanging \in SUBSET Pid /\ reported \in SUBSET Pid
      /\ alive \in SUBSET Pid /\ termed \in SUBSET Pid /\ killed \in SUBSET Pid
      /\ late \in SUBSET Pid /\ reused \in SUBSET Pid
  BY DEF CleanupInit
<1>2. CleanupTypeOK
  <2>1. {todo, hanging, reported, alive, termed, killed, late, reused} \subseteq SUBSET Pid
    BY <1>1
  <2>2. i \in 0..Rounds
    BY DEF CleanupInit, Rounds
  <2> QED BY <2>1, <2>2 DEF CleanupInit, CleanupTypeOK
<1>3. Accounted
  BY DEF CleanupInit, Accounted
<1> QED BY <1>2, <1>3 DEF CleanupIInv

(* Every step of cleanup_procs, and every step of the machine's processes, *)
(* keeps the account.                                                      *)
LEMMA CleanupNextIInv == CleanupIInv /\ [CleanupNext]_cleanupVars => CleanupIInv'
<1> SUFFICES ASSUME CleanupIInv, [CleanupNext]_cleanupVars PROVE CleanupIInv'
  OBVIOUS
<1> USE DEF CleanupIInv
<1>1. CASE ListProcesses
  BY <1>1 DEF ListProcesses, CleanupTypeOK, Accounted, OldOurs, KindOf
<1>2. ASSUME NEW p \in Pid, LookAt(p) PROVE CleanupIInv'
  <2>1. CleanupTypeOK'
    BY <1>2 DEF LookAt, CleanupTypeOK
  <2>2. Accounted'
    BY <1>2 DEF LookAt, Accounted, OldOurs, KindOf, Seen
  <2> QED BY <2>1, <2>2
<1>3. CASE Grace
  BY <1>3 DEF Grace, machine, CleanupTypeOK, Accounted, OldOurs, KindOf
<1>4. ASSUME NEW p \in Pid, KillLeftover(p) PROVE CleanupIInv'
  BY <1>4 DEF KillLeftover, CleanupTypeOK, Accounted, OldOurs, KindOf
<1>5. CASE StartRound
  <2>1. CleanupTypeOK'
    BY <1>5 DEF StartRound, machine, CleanupTypeOK, Rounds
  <2>2. Accounted'
    BY <1>5 DEF StartRound, machine, Accounted, OldOurs, KindOf
  <2> QED BY <2>1, <2>2
<1>6. ASSUME NEW p \in Pid, CheckGone(p) PROVE CleanupIInv'
  BY <1>6 DEF CheckGone, machine, CleanupTypeOK, Accounted, OldOurs, KindOf, Seen
<1>7. CASE EndWait
  BY <1>7 DEF EndWait, machine, CleanupTypeOK, Accounted, OldOurs, KindOf
<1>8. ASSUME NEW p \in Pid, Report(p) PROVE CleanupIInv'
  BY <1>8 DEF Report, machine, CleanupTypeOK, Accounted, OldOurs, KindOf
<1>9. CASE Finish
  BY <1>9 DEF Finish, scan, machine, CleanupTypeOK, Accounted, OldOurs, KindOf
<1>10. ASSUME NEW p \in Pid, Ends(p) PROVE CleanupIInv'
  BY <1>10 DEF Ends, scan, CleanupTypeOK, Accounted, OldOurs, KindOf
<1>11. ASSUME NEW p \in Pid, Appears(p) PROVE CleanupIInv'
  BY <1>11 DEF Appears, scan, CleanupTypeOK, Accounted, OldOurs, KindOf
<1>12. ASSUME NEW p \in Pid, Reuse(p) PROVE CleanupIInv'
  BY <1>12 DEF Reuse, scan, CleanupTypeOK, Accounted, OldOurs, KindOf
<1>13. CASE UNCHANGED cleanupVars
  BY <1>13 DEF cleanupVars, CleanupTypeOK, Accounted, OldOurs, KindOf
<1> QED
  BY <1>1, <1>2, <1>3, <1>4, <1>5, <1>6, <1>7, <1>8, <1>9, <1>10, <1>11, <1>12, <1>13
     DEF CleanupNext, Cleanup, Machine

(* The account of the programs of an earlier run is right at all times.    *)
THEOREM CleanupInvariance == CleanupSpec => []CleanupIInv
  BY CleanupInitIInv, CleanupNextIInv, PTL DEF CleanupSpec

(* The scan, the kills and the machine keep their types.                   *)
THEOREM CleanupTypeCorrect == CleanupSpec => []CleanupTypeOK
<1>1. CleanupIInv => CleanupTypeOK
  BY DEF CleanupIInv
<1> QED BY CleanupInvariance, <1>1, PTL

(* cleanup_procs returns only when every program it found when it started  *)
(* is gone, for any number of processes, in whatever order they are        *)
(* listed, end, appear and take over pids.                                 *)
THEOREM NoneLeftBehind == CleanupSpec => []NoneLeft
<1>1. CleanupIInv => NoneLeft
  BY DEF CleanupIInv, CleanupTypeOK, Accounted, OldOurs, NoneLeft
<1> QED BY CleanupInvariance, <1>1, PTL
-----------------------------------------------------------------------------
(* hangingPids are pids of the list that belonged to programs of the       *)
(* coordinator when the list was read, and only they are signalled.        *)
Signals ==
    /\ pc = "scan" => todo \cap late = {}
    /\ pc = "list" => hanging = {} /\ killed = {} /\ termed = {} /\ reported = {}
    /\ hanging \cap late = {}
    /\ \A p \in hanging : Kind[p] = "ours"
    /\ \A p \in termed : KindOf(p) = "ours"
    /\ killed \subseteq hanging
    /\ pc \in {"kill", "report"} => todo \subseteq hanging
    /\ reported \subseteq reused

(* Every step keeps hangingPids and the signals to what the list showed.   *)
LEMMA SignalsNext == CleanupIInv /\ Signals /\ [CleanupNext]_cleanupVars => Signals'
<1> SUFFICES ASSUME CleanupIInv, Signals, [CleanupNext]_cleanupVars PROVE Signals'
  OBVIOUS
<1>1. CASE ListProcesses
  BY <1>1 DEF ListProcesses, Signals, KindOf
<1>2. ASSUME NEW p \in Pid, LookAt(p) PROVE Signals'
  BY <1>2 DEF LookAt, Signals, KindOf, Seen
<1>3. CASE Grace
  BY <1>3 DEF Grace, machine, Signals, KindOf
<1>4. ASSUME NEW p \in Pid, KillLeftover(p) PROVE Signals'
  BY <1>4 DEF KillLeftover, Signals, KindOf
<1>5. CASE StartRound
  BY <1>5 DEF StartRound, machine, Signals, KindOf
<1>6. ASSUME NEW p \in Pid, CheckGone(p) PROVE Signals'
  BY <1>6 DEF CheckGone, machine, Signals, KindOf
<1>7. CASE EndWait
  BY <1>7 DEF EndWait, machine, Signals, KindOf
<1>8. ASSUME NEW p \in Pid, Report(p) PROVE Signals'
  <2>1. Seen(p) => p \in reused
    BY <1>8 DEF Report, Signals, CleanupIInv, Accounted, OldOurs, KindOf, Seen
  <2> QED BY <1>8, <2>1 DEF Report, machine, Signals, KindOf
<1>9. CASE Finish
  BY <1>9 DEF Finish, scan, machine, Signals, KindOf
<1>10. ASSUME NEW p \in Pid, Ends(p) PROVE Signals'
  BY <1>10 DEF Ends, scan, Signals, KindOf
<1>11. ASSUME NEW p \in Pid, Appears(p) PROVE Signals'
  BY <1>11 DEF Appears, scan, Signals, KindOf
<1>12. ASSUME NEW p \in Pid, Reuse(p) PROVE Signals'
  BY <1>12 DEF Reuse, scan, Signals, KindOf
<1>13. CASE UNCHANGED cleanupVars
  BY <1>13 DEF cleanupVars, Signals, KindOf
<1> QED
  BY <1>1, <1>2, <1>3, <1>4, <1>5, <1>6, <1>7, <1>8, <1>9, <1>10, <1>11, <1>12, <1>13
     DEF CleanupNext, Cleanup, Machine

(* The account of the signals holds at all times.                          *)
LEMMA SignalsInvariance == CleanupSpec => []Signals
<1>1. CleanupInit => Signals
  BY DEF CleanupInit, Signals
<1> QED BY <1>1, CleanupInvariance, SignalsNext, PTL DEF CleanupSpec

(* No other program is ever signalled, except one that has just taken over *)
(* the pid of a program of the coordinator.                                *)
THEOREM OthersSpared == CleanupSpec => []OthersSurvive
<1>1. Signals => OthersSurvive
  BY DEF Signals, OthersSurvive, KindOf
<1> QED BY SignalsInvariance, <1>1, PTL

(* The messages about processes that could not be killed are never written *)
(* for such a process, whatever the processes do.                          *)
THEOREM ReportNeverSpeaks == CleanupSpec => []ReportIsSilent
<1>1. Signals => ReportIsSilent
  BY DEF Signals, ReportIsSilent
<1> QED BY SignalsInvariance, <1>1, PTL
=============================================================================
