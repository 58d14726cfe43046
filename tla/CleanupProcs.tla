----------------------------- MODULE CleanupProcs -----------------------------
(***************************************************************************)
(* cleanup_procs (src/coordinator/shutdown.go), which the coordinator runs *)
(* when it starts, when it is asked to with -killProcs and when it shuts   *)
(* down: find the programs of an earlier run, ask them to end, kill those  *)
(* that do not, and wait until all are gone.  The processes of the machine *)
(* live on meanwhile: they obey or ignore a signal, end, appear, and a pid *)
(* may be used again.                                                      *)
(***************************************************************************)
EXTENDS Naturals, FiniteSets

CONSTANTS Pid,       \* the pids of the processes there may be
          Kind,      \* what each one is when it first appears
          Immortal   \* those SIGKILL does not remove within any time

(* "ours": the command line is one of the coordinator's programs; "node":  *)
(* node with fewer arguments than the code looks at; "hidden": no access   *)
(* to its command line.                                                    *)
Kinds == {"ours", "node", "hidden", "other"}

ASSUME KindAssumption == Kind \in [Pid -> Kinds] /\ Immortal \subseteq Pid

VARIABLES pc,        \* where cleanup_procs is
          todo,      \* the pids its current loop has still to look at
          hanging,   \* hangingPids
          i,         \* the rounds of the waiting loop, no further than Rounds
          allGone,   \* the variable of that loop
          reported,  \* the pids it wrote an error message for
          alive,     \* the pids in use
          termed,    \* the processes that got SIGTERM
          killed,    \* the processes that got SIGKILL
          late,      \* the pids taken after the processes were listed
          reused     \* the pids whose first process has been replaced

scan    == <<todo, hanging, i, allGone, reported>>
machine == <<alive, termed, killed, late, reused>>
cleanupVars == <<pc, todo, hanging, i, allGone, reported, alive, termed, killed, late, reused>>

Rounds == 6

(* What a pid is now: the process that takes over a pid is not ours. *)
KindOf(p) == IF p \in reused THEN "other" ELSE Kind[p]

(* proc, _ := si.Process( pid ); proc != nil and no infoErr *)
Seen(p) == p \in alive /\ KindOf(p) # "hidden"

CleanupInit == /\ pc = "list"
               /\ todo = {}
               /\ hanging = {}
               /\ i = 0
               /\ allGone = FALSE
               /\ reported = {}
               /\ alive \in SUBSET Pid
               /\ termed = {}
               /\ killed = {}
               /\ late = Pid \ alive
               /\ reused = {}
-----------------------------------------------------------------------------
(* procs, listErr := si.Processes() *)
ListProcesses ==
    /\ pc = "list"
    /\ \/ pc' = "scan" /\ todo' = alive /\ late' = Pid \ alive
       \/ pc' = "exited" /\ UNCHANGED <<todo, late>>
    /\ UNCHANGED <<hanging, i, allGone, reported, alive, termed, killed, reused>>

(* The bug of a node process that is taken for one of the coordinator's. *)
LookAt_AnyNode(p) ==
    /\ pc = "scan"
    /\ p \in todo
    /\ todo' = todo \ {p}
    /\ IF Seen(p) /\ KindOf(p) # "other"
       THEN hanging' = hanging \cup {p} /\ termed' = termed \cup {p}
       ELSE UNCHANGED <<hanging, termed>>
    /\ UNCHANGED <<pc, i, allGone, reported, alive, killed, late, reused>>

(* One process of the list: SIGTERM to one of ours.  For a node process    *)
(* the code reads cmd[ 3 ], which need not be there.                       *)
LookAt(p) ==
    /\ pc = "scan"
    /\ p \in todo
    /\ todo' = todo \ {p}
    /\ pc' = IF Seen(p) /\ KindOf(p) = "node" THEN "panic" ELSE pc
    /\ IF Seen(p) /\ KindOf(p) = "ours"
       THEN hanging' = hanging \cup {p} /\ termed' = termed \cup {p}
       ELSE UNCHANGED <<hanging, termed>>
    /\ UNCHANGED <<i, allGone, reported, alive, killed, late, reused>>

(* Half a second for them to shut down, if there are any. *)
Grace ==
    /\ pc = "scan"
    /\ todo = {}
    /\ IF hanging = {} THEN pc' = "done" /\ UNCHANGED todo
                       ELSE pc' = "kill" /\ todo' = hanging
    /\ UNCHANGED <<hanging, i, allGone, reported>>
    /\ UNCHANGED machine

(* SIGKILL to a pid of the list that is still in use. *)
KillLeftover(p) ==
    /\ pc = "kill"
    /\ p \in todo
    /\ todo' = todo \ {p}
    /\ killed' = IF Seen(p) THEN killed \cup {p} ELSE killed
    /\ UNCHANGED <<pc, hanging, i, allGone, reported, alive, termed, late, reused>>

(* A round of the waiting loop begins, with the first or with the next one.*)
StartRound ==
    /\ todo = {}
    /\ \/ pc = "kill"
       \/ pc = "wait" /\ ~(allGone /\ i = Rounds)
    /\ pc' = "wait"
    /\ i' = IF i < Rounds THEN i + 1 ELSE i
    /\ todo' = hanging
    /\ allGone' = TRUE
    /\ UNCHANGED <<hanging, reported>>
    /\ UNCHANGED machine

(* The bug of a round that stops at the first process that is gone. *)
CheckGone_First(p) ==
    /\ pc = "wait"
    /\ p \in todo
    /\ todo' = IF Seen(p) THEN todo \ {p} ELSE {}
    /\ allGone' = (allGone /\ ~Seen(p))
    /\ UNCHANGED <<pc, hanging, i, reported>>
    /\ UNCHANGED machine

CheckGone(p) ==
    /\ pc = "wait"
    /\ p \in todo
    /\ todo' = todo \ {p}
    /\ allGone' = (allGone /\ ~Seen(p))
    /\ UNCHANGED <<pc, hanging, i, reported>>
    /\ UNCHANGED machine

(* The bug of a loop that waits for the others to be there. *)
EndWait_Inverted ==
    /\ pc = "wait"
    /\ todo = {}
    /\ ~allGone
    /\ i = Rounds
    /\ pc' = "report"
    /\ todo' = hanging
    /\ UNCHANGED <<hanging, i, allGone, reported>>
    /\ UNCHANGED machine

(* if allGone == 1 && i > 5 { break } *)
EndWait ==
    /\ pc = "wait"
    /\ todo = {}
    /\ allGone
    /\ i = Rounds
    /\ pc' = "report"
    /\ todo' = hanging
    /\ UNCHANGED <<hanging, i, allGone, reported>>
    /\ UNCHANGED machine

(* The last loop and the return. *)
Report(p) ==
    /\ pc = "report"
    /\ p \in todo
    /\ todo' = todo \ {p}
    /\ reported' = IF Seen(p) THEN reported \cup {p} ELSE reported
    /\ UNCHANGED <<pc, hanging, i, allGone>>
    /\ UNCHANGED machine

Finish ==
    /\ pc = "report"
    /\ todo = {}
    /\ pc' = "done"
    /\ UNCHANGED scan
    /\ UNCHANGED machine

Cleanup == \/ ListProcesses \/ Grace \/ StartRound \/ EndWait \/ Finish
           \/ \E p \in Pid : LookAt(p) \/ KillLeftover(p) \/ CheckGone(p) \/ Report(p)
-----------------------------------------------------------------------------
(* The machine. *)
Ends(p) ==
    /\ p \in alive \ Immortal
    /\ alive' = alive \ {p}
    /\ UNCHANGED <<pc, termed, killed, late, reused>>
    /\ UNCHANGED scan

(* A process appears on a pid that was free when the others were listed. *)
Appears(p) ==
    /\ p \in late \ alive
    /\ alive' = alive \cup {p}
    /\ UNCHANGED <<pc, termed, killed, late, reused>>
    /\ UNCHANGED scan

(* The pid of a process that has ended is used again, by another program.  *)
Reuse(p) ==
    /\ p \notin late \cup alive \cup reused
    /\ alive' = alive \cup {p}
    /\ reused' = reused \cup {p}
    /\ termed' = termed \ {p}
    /\ killed' = killed \ {p}
    /\ UNCHANGED <<pc, late>>
    /\ UNCHANGED scan

Machine == \E p \in Pid : Ends(p) \/ Appears(p) \/ Reuse(p)

CleanupNext == Cleanup \/ Machine

(* The code goes on; a process that got SIGKILL ends, unless it is one     *)
(* that the kernel cannot remove.  Nothing else must happen.               *)
Fairness ==
    /\ WF_cleanupVars(Cleanup)
    /\ \A p \in Pid : WF_cleanupVars(p \in killed /\ Ends(p))

CleanupSpec == CleanupInit /\ [][CleanupNext]_cleanupVars /\ Fairness
-----------------------------------------------------------------------------
Stopped == pc \in {"done", "panic", "exited"}

(* Every variable has its type, and hangingPids are those that got SIGTERM *)
(* before (shutdown.go:48-52).                                             *)
CleanupTypeOK ==
    /\ pc \in {"list", "scan", "kill", "wait", "report", "done", "panic", "exited"}
    /\ i \in 0..Rounds
    /\ allGone \in BOOLEAN
    /\ {todo, hanging, reported, alive, termed, killed, late, reused} \subseteq SUBSET Pid
    /\ hanging \subseteq termed \cup reused

(* When cleanup_procs returns, none of the programs it found is left, even *)
(* though they are looked at one after the other and at different times:   *)
(* a program of ours that runs now was started after the list was read,    *)
(* and this includes those that a supervisor starts again                  *)
(* (shutdown.go:31-137).                                                   *)
NoneLeft ==
    pc = "done" => \A p \in alive : KindOf(p) = "ours" => p \in late

(* A program that is not the coordinator's gets SIGKILL only when it took  *)
(* over the pid of one that was, in the half second after the SIGTERM:     *)
(* the pid is all that is kept (shutdown.go:91, 95-116).                   *)
OthersSurvive ==
    \A p \in killed \cup termed : KindOf(p) = "ours" \/ p \in reused \cap hanging

(* No error message is ever written for a process that could not be        *)
(* killed: the loop before it does not end while there is one.  What is    *)
(* reported has taken over a pid (shutdown.go:119-157).                    *)
ReportIsSilent == reported \subseteq reused

(* cleanup_procs ends, except while a pid of its list stays in use.        *)
EndsWhenGone == <>(Stopped \/ \E p \in hanging : p \in Immortal \cup reused)
=============================================================================
