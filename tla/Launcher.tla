------------------------------- MODULE Launcher -------------------------------
(***************************************************************************)
(* The launchd jobs that the command line of the coordinator sets up and   *)
(* removes: -loadVpn, -unloadVpn, -load and -unload                        *)
(* (src/coordinator/launchctl.go, vpn.go and coordinator.go).  Each is a   *)
(* run of the program of its own, so that two may overlap (the lock of a   *)
(* Launcher is no help) and any may be interrupted.                        *)
(*                                                                         *)
(* launchd is external: it loads a job from its file unless a job of that  *)
(* label is loaded, unloads the job that a file names, keeps a loaded job  *)
(* running, and when the machine starts loads what there is a file for.    *)
(* It may refuse to load or unload, and a file may not be removed or       *)
(* written; the program goes on all the same.                              *)
(***************************************************************************)
EXTENDS Naturals

CONSTANTS Command,      \* runs of the program
          Daemon,       \* labels of jobs of root (asRoot)
          Agent,        \* labels of jobs of the user
          DefaultVpn,   \* com.tmobile.coordinator.openvpn
          Content       \* what a job may be: its arguments and options

Label == Daemon \cup Agent
NoJob == "none"

ASSUME LauncherAssumption == /\ DefaultVpn \in Daemon
                             /\ Daemon \cap Agent = {}
                             /\ NoJob \notin Content

VARIABLES cpc,        \* where each command is
          cmd,        \* what it does
          plist,      \* the file of each label
          job,        \* the job of each label that is loaded
          up,         \* the daemons whose process is running
          byHand,     \* contents of which there is a process that is no job
          unseen,     \* a load took the job that is loaded for none
          failed,     \* an unload or a write failed while a job was loaded
          disturbed   \* commands on the label overlapped or were interrupted

vars == <<cpc, cmd, plist, job, up, byHand, unseen, failed, disturbed>>

Ops == [op : {"load"}, label : Label, content : Content]
       \cup [op : {"unload"}, label : Label]

NoOp == [op |-> "none"]

Init == /\ cpc = [c \in Command |-> "idle"]
        /\ cmd = [c \in Command |-> NoOp]
        /\ plist = [l \in Label |-> NoJob]
        /\ job = [l \in Label |-> NoJob]
        /\ up = {}
        /\ byHand = {}
        /\ unseen = {}
        /\ failed = {}
        /\ disturbed = {}

Busy(l) == \E c \in Command : cpc[c] # "idle" /\ cmd[c].label = l

Begin(c, op, place) ==
    /\ cpc[c] = "idle"
    /\ cpc' = [cpc EXCEPT ![c] = place]
    /\ cmd' = [cmd EXCEPT ![c] = op]
    /\ disturbed' = IF Busy(op.label) THEN disturbed \cup {op.label} ELSE disturbed
    /\ UNCHANGED <<plist, job, up, byHand, unseen, failed>>

End(c) == /\ cpc' = [cpc EXCEPT ![c] = "idle"]
          /\ cmd' = [cmd EXCEPT ![c] = NoOp]
-----------------------------------------------------------------------------
(* -loadVpn with its -vpnLabel and -vpnFile *)
openvpn_load(c, l, a) ==
    l \in Daemon /\ Begin(c, [op |-> "load", label |-> l, content |-> a], "pid")

(* -unloadVpn: whatever the label on the command line, the launcher is     *)
(* made with none.                                                         *)
openvpn_unload(c) == Begin(c, [op |-> "unload", label |-> DefaultVpn], "unload")

coordinator_load(c, l, a) ==
    l \in Agent /\ Begin(c, [op |-> "load", label |-> l, content |-> a], "pid")

coordinator_unload(c, l) ==
    l \in Agent /\ Begin(c, [op |-> "unload", label |-> l], "unload")

(* pid() # 0.  For a daemon: any process that ps lists with the command    *)
(* line of the new job.  For an agent: never, since what is executed is a  *)
(* file named "/bin/launchctl list" and the label.                         *)
pid(l, a) == l \in Daemon /\ (a \in byHand \/ \E k \in up : job[k] = a)

(* The bug of a condition that is the wrong way round. *)
LookForPid_Inverted(c) ==
    /\ cpc[c] = "pid"
    /\ LET l == cmd[c].label
           found == pid(l, cmd[c].content)
       IN /\ cpc' = [cpc EXCEPT ![c] = IF found THEN "write" ELSE "unload"]
          /\ unseen' = IF ~found /\ job[l] # NoJob THEN unseen \cup {l} ELSE unseen
    /\ UNCHANGED <<cmd, plist, job, up, byHand, failed, disturbed>>

(* load(): unload first if there is a pid *)
LookForPid(c) ==
    /\ cpc[c] = "pid"
    /\ LET l == cmd[c].label
           found == pid(l, cmd[c].content)
       IN /\ cpc' = [cpc EXCEPT ![c] = IF found THEN "unload" ELSE "write"]
          /\ unseen' = IF ~found /\ job[l] # NoJob THEN unseen \cup {l} ELSE unseen
    /\ UNCHANGED <<cmd, plist, job, up, byHand, failed, disturbed>>

(* The bug of a file that is removed first, so that launchctl finds none. *)
UnloadJob_FileFirst(c) ==
    /\ cpc[c] = "unload"
    /\ cpc' = [cpc EXCEPT ![c] = "remove"]
    /\ plist' = [plist EXCEPT ![cmd[c].label] = NoJob]
    /\ UNCHANGED <<cmd, job, up, byHand, unseen, failed, disturbed>>

(* launchctl unload: nothing if there is no file.  If it fails, its exit   *)
(* status is not looked at.                                                *)
UnloadJob(c) ==
    /\ cpc[c] = "unload"
    /\ cpc' = [cpc EXCEPT ![c] = "remove"]
    /\ LET l == cmd[c].label IN
         \/ /\ plist[l] # NoJob
            /\ job' = [job EXCEPT ![l] = NoJob]
            /\ up' = up \ {l}
            /\ unseen' = unseen \ {l}
            /\ failed' = failed \ {l}
         \/ /\ plist[l] = NoJob
            /\ UNCHANGED <<job, up, unseen, failed>>
         \/ /\ failed' = IF job[l] # NoJob THEN failed \cup {l} ELSE failed
            /\ UNCHANGED <<job, up, unseen>>
    /\ UNCHANGED <<cmd, plist, byHand, disturbed>>

(* os.Remove( self.file ), which may fail; the end of unload() *)
RemoveFile(c) ==
    /\ cpc[c] = "remove"
    /\ plist' \in {plist, [plist EXCEPT ![cmd[c].label] = NoJob]}
    /\ IF cmd[c].op = "load" THEN cpc' = [cpc EXCEPT ![c] = "write"] /\ UNCHANGED cmd
                             ELSE End(c)
    /\ UNCHANGED <<job, up, byHand, unseen, failed, disturbed>>

(* The plist file is written.  If that fails, which is only logged, the    *)
(* file stays as it was, or what is left of it is none for launchd.        *)
WriteFile(c) ==
    /\ cpc[c] = "write"
    /\ LET l == cmd[c].label IN
         \/ plist' = [plist EXCEPT ![l] = cmd[c].content] /\ UNCHANGED failed
         \/ /\ plist' \in {plist, [plist EXCEPT ![l] = NoJob]}
            /\ failed' = IF job[l] # NoJob THEN failed \cup {l} ELSE failed
    /\ cpc' = [cpc EXCEPT ![c] = "load"]
    /\ UNCHANGED <<cmd, job, up, byHand, unseen, disturbed>>

(* launchctl load: nothing if there is no file or the label is loaded; it  *)
(* may fail.                                                               *)
LoadJob(c) ==
    /\ cpc[c] = "load"
    /\ LET l == cmd[c].label IN
         job' \in {job, IF job[l] = NoJob THEN [job EXCEPT ![l] = plist[l]] ELSE job}
    /\ End(c)
    /\ UNCHANGED <<plist, up, byHand, unseen, failed, disturbed>>

(* The operator interrupts the command. *)
Interrupt(c) ==
    /\ cpc[c] # "idle"
    /\ End(c)
    /\ disturbed' = disturbed \cup {cmd[c].label}
    /\ UNCHANGED <<plist, job, up, byHand, unseen, failed>>
-----------------------------------------------------------------------------
(* launchd starts the process of a loaded daemon; it may end. *)
JobStarts(l) ==
    /\ l \in Daemon \ up
    /\ job[l] # NoJob
    /\ up' = up \cup {l}
    /\ UNCHANGED <<cpc, cmd, plist, job, byHand, unseen, failed, disturbed>>

JobEnds(l) ==
    /\ l \in up
    /\ up' = up \ {l}
    /\ UNCHANGED <<cpc, cmd, plist, job, byHand, unseen, failed, disturbed>>

(* Somebody starts or ends openvpn by hand. *)
ByHand(a) ==
    /\ byHand' = IF a \in byHand THEN byHand \ {a} ELSE byHand \cup {a}
    /\ UNCHANGED <<cpc, cmd, plist, job, up, unseen, failed, disturbed>>

Reboot ==
    /\ cpc' = [c \in Command |-> "idle"]
    /\ cmd' = [c \in Command |-> NoOp]
    /\ job' = plist
    /\ up' = {}
    /\ byHand' = {}
    /\ unseen' = {}
    /\ failed' = {}
    /\ disturbed' = {}
    /\ UNCHANGED plist
-----------------------------------------------------------------------------
Next == \/ \E c \in Command, l \in Label, a \in Content :
             openvpn_load(c, l, a) \/ coordinator_load(c, l, a)
        \/ \E c \in Command, l \in Label : coordinator_unload(c, l)
        \/ \E c \in Command : \/ openvpn_unload(c) \/ LookForPid(c) \/ UnloadJob(c) \/ RemoveFile(c)
                              \/ WriteFile(c) \/ LoadJob(c) \/ Interrupt(c)
        \/ \E l \in Daemon : JobStarts(l) \/ JobEnds(l)
        \/ \E a \in Content : ByHand(a)
        \/ Reboot

Spec == Init /\ [][Next]_vars
-----------------------------------------------------------------------------
TypeOK == /\ cpc \in [Command -> {"idle", "pid", "unload", "remove", "write", "load"}]
          /\ cmd \in [Command -> Ops \cup {NoOp}]
          /\ plist \in [Label -> Content \cup {NoJob}]
          /\ job \in [Label -> Content \cup {NoJob}]
          /\ up \subseteq Daemon
          /\ byHand \subseteq Content
          /\ unseen \subseteq Label
          /\ failed \subseteq Label
          /\ disturbed \subseteq Label

(* Between commands, a loaded job has a file, so that it can be unloaded   *)
(* and comes back with the machine, unless two commands overlapped, one    *)
(* was interrupted, or an unload or a write failed, of which the program   *)
(* takes no notice (launchctl.go:127-195); and the file says what the job  *)
(* is, unless a load did not see the job (launchctl.go:129).               *)
JobsMatchFiles ==
    \A l \in Label : ~Busy(l) /\ job[l] # NoJob /\ l \notin disturbed \cup failed =>
        /\ plist[l] # NoJob
        /\ l \notin unseen => plist[l] = job[l]

(* A load on which nothing was disturbed and nothing failed but, perhaps,  *)
(* the last step, leaves the new job loaded or none.                       *)
Replaces(c) ==
    LET l == cmd[c].label IN
    LoadJob(c) /\ l \notin disturbed \cup failed /\ plist[l] = cmd[c].content
      => job'[l] \in {cmd[c].content, NoJob}

(* An undisturbed load that saw the job there was, if any, and could write *)
(* the file never leaves another version loaded (launchctl.go:127-185).    *)
LoadReplaces ==
    [][\A c \in Command : cmd[c] # NoOp /\ cmd[c].label \notin unseen => Replaces(c)]_vars
=============================================================================
