------------------------------ MODULE Shutdown -------------------------------
(***************************************************************************)
(* The end of the coordinator (coro_sigterm, closeAllRunningDevs,          *)
(* closeBaseProgs in src/coordinator/shutdown.go, vpn_shutdown in vpn.go). *)
(* On SIGTERM a goroutine of its own Kills every process, while the event  *)
(* loop goes on making, closing and forgetting devices in the same maps,   *)
(* and the supervisors go on restarting.  Then it cleans up what is left,  *)
(* and exits.                                                              *)
(*                                                                         *)
(* Processes behave as in module Supervisor, cleanup_procs as in module    *)
(* CleanupProcs: it asks and kills what it finds and knows, and waits for  *)
(* that.  With OpenVPN the loop first waits for the interface, and the     *)
(* goroutine that watches OpenVPN's log has a channel to be stopped by.    *)
(*                                                                         *)
(* Nothing is fair that waits for WDA, for STF, for a tool or for a        *)
(* restart: the loop may stay in the handler of an event (ivp_enable,      *)
(* http.Get, pubEventCh) or in periodic_stop for ever, and the output      *)
(* handler of a device unit in do_restart.  A process whose name is in its *)
(* map already takes the place of the one before it, as vnc_proxy does     *)
(* whenever WDA has started: from then on no one can Kill the former one.  *)
(***************************************************************************)
EXTENDS Naturals, FiniteSets

CONSTANTS Dev,
          Base,      \* stands for baseProgs among the owners of processes
          Proc,
          Of,        \* the device of each process, or Base
          Provider,  \* the process that waits for the VPN
          Known,     \* the processes cleanup_procs recognises
          Posts,     \* those whose output handlers post to the event loop
          Restarts,  \* those whose output handlers run do_restart
          Former,    \* the process whose place in its map each takes, or Nil
          MaxMade,   \* a bound on the processes made for devices
          Nil

ASSUME ConstantAssumption ==
    /\ Base \notin Dev
    /\ Of \in [Proc -> Dev \cup {Base}]
    /\ Provider \in Proc /\ Of[Provider] = Base
    /\ Known \subseteq Proc
    /\ Posts \subseteq Proc /\ Restarts \subseteq Proc \ Posts
    /\ Former \in [Proc -> Proc \cup {Nil}] /\ Former[Provider] = Nil
    /\ \A p \in Proc : Former[p] # Nil => Former[p] # p /\ Of[Former[p]] = Of[p]
    /\ MaxMade \in Nat
    /\ Nil \notin Dev \cup Proc \cup {Base}

VARIABLES gStop,
          runningDevs, \* its keys
          loop,        \* where the event loop is
          arg,         \* the device or the process its handler works on
          left,        \* the processes of a closed device not yet killed
          sig,         \* where the signal's goroutine is
          devs,        \* the devices its iteration has still to visit
          procs,       \* the processes its iteration has still to visit
          owner,       \* whose processes these are
          asks,        \* the Kill that each of the two waits in
          phase,       \* the phase of each process's supervisor
          stopped,     \* the supervisors that have taken a Kill
          alive,       \* the children that are alive
          hit,         \* the children cleanup_procs waits for
          noticed,     \* the event loop has been sent the VPN's interface
          watch,       \* the goroutine that watches OpenVPN's log
          stopChan,    \* vpnLogWatcherStopChan # nil
          missed       \* the processes whose Kill found no command, or
                       \* which were made after the signal

loopVars  == <<loop, arg, left>>
sigVars   == <<gStop, sig, devs, procs, owner>>
procVars  == <<phase, stopped, alive>>
vpnVars   == <<noticed, watch, stopChan>>
vars == <<gStop, runningDevs, loop, arg, left, sig, devs, procs, owner, asks,
          phase, stopped, alive, hit, noticed, watch, stopChan, missed>>

Ended == sig \in {"exited", "crashed"}

(* The base programs have been started, the provider only without VPN; the *)
(* end of check_vpn_status has closed the watcher of the log.              *)
Init == /\ gStop = FALSE
        /\ runningDevs = {}
        /\ watch \in {"gone", "watching"}
        /\ noticed \in {watch = "gone", TRUE}
        /\ stopChan = (watch = "watching")
        /\ loop = IF watch = "watching" THEN "stage1" ELSE "select"
        /\ arg = Nil
        /\ left = {}
        /\ sig = "wait"
        /\ devs = {}
        /\ procs = {}
        /\ owner = Nil
        /\ asks = [c \in {"loop", "sig"} |-> Nil]
        /\ phase = [p \in Proc |->
                       IF Of[p] = Base /\ (p = Provider => watch = "gone")
                       THEN "down" ELSE "none"]
        /\ stopped = {}
        /\ alive = {}
        /\ hit = {}
        /\ missed = {}
-----------------------------------------------------------------------------
(* Supervisors and children.  A supervisor that is starting its child, or  *)
(* closing a run, is taken for one that is not there yet (up, or deaf), or *)
(* that has not looked up yet: to who waits for it they are the same.      *)
Move(p, from, to) ==
    /\ ~Ended
    /\ phase[p] = from
    /\ phase' = [phase EXCEPT ![p] = to]
    /\ UNCHANGED <<runningDevs, loopVars, sigVars, asks, stopped, hit, vpnVars, missed>>

Launch(p) == Move(p, "down", "up") /\ alive' = alive \cup {p}
GiveUp(p) == Move(p, "down", "deaf") /\ UNCHANGED alive
Post(p)   == p \in Posts \cap alive /\ Move(p, "up", "busy") /\ UNCHANGED alive

(* onRelease() in the output handler, and its return. *)
do_restart(p)  == p \in Restarts \cap alive /\ Move(p, "up", "busy") /\ UNCHANGED alive
RestartDone(p) == p \in Restarts /\ Move(p, "busy", "up") /\ UNCHANGED alive

(* The bug of a supervisor that does not look whether it was told to stop. *)
RunEnds_Again(p) ==
    /\ p \notin alive
    /\ Move(p, "up", "down")
    /\ UNCHANGED alive

RunEnds(p) ==
    /\ p \notin alive
    /\ Move(p, "up", IF p \in stopped THEN "gone" ELSE "down")
    /\ UNCHANGED alive

ChildExits(p) ==
    /\ p \in alive
    /\ alive' = alive \ {p}
    /\ hit' = hit \ {p}
    /\ UNCHANGED <<runningDevs, loopVars, sigVars, asks, phase, stopped, vpnVars, missed>>

Supervisor(p) == \/ Launch(p) \/ GiveUp(p) \/ RunEnds(p)
                 \/ Post(p) \/ do_restart(p) \/ RestartDone(p)

(* What the map of a device, or of the base programs, holds. *)
Orphan(p)  == \E x \in Proc : Former[x] = p /\ phase[x] # "none"
ProcsOf(o) == {p \in Proc : Of[p] = o /\ phase[p] # "none" /\ ~Orphan(p)}

(* Kill, by the event loop or the signal's goroutine: it returns if there  *)
(* is no command, otherwise it waits until the supervisor takes it.        *)
Kill(c, p) ==
    /\ asks' = [asks EXCEPT ![c] = IF phase[p] \in {"none", "down", "gone"} THEN Nil ELSE p]
    /\ missed' = missed \cup {x \in {p} : phase[x] = "down"}

Taken(c) ==
    /\ ~Ended
    /\ asks[c] \in Proc
    /\ phase[asks[c]] = "up"
    /\ stopped' = stopped \cup {asks[c]}
    /\ asks' = [asks EXCEPT ![c] = Nil]
    /\ UNCHANGED <<runningDevs, loopVars, sigVars, phase, alive, hit, vpnVars, missed>>
-----------------------------------------------------------------------------
(* The event loop. *)
Loop(from, to, a) ==
    /\ ~Ended
    /\ loop = from
    /\ loop' = to
    /\ arg' = a
    /\ UNCHANGED <<gStop, sig, devs, owner, stopped, alive, hit, vpnVars>>

Quiet == UNCHANGED <<runningDevs, left, procs, asks, phase, missed>>

(* The interface is there: stage 1 starts the provider. *)
Stage1 == noticed /\ Loop("stage1", "start", Provider) /\ Quiet

(* A device event, dropped during the shutdown: of a phone that is new, of *)
(* one that is there, or of one that is pulled out.                        *)
Connect(d) ==
    /\ ~gStop
    /\ d \notin runningDevs
    /\ \A p \in Proc : Of[p] = d => phase[p] = "none"
    /\ Loop("select", "insert", d)
    /\ Quiet

Event(d) ==
    /\ ~gStop
    /\ d \in runningDevs
    /\ Loop("select", "serve", d)
    /\ Quiet

Disconnect(d) ==
    /\ ~gStop
    /\ d \in runningDevs
    /\ Loop("select", "stop", d)
    /\ Quiet

(* runningDevs[uuid] = &devd *)
NewRunningDev ==
    /\ Loop("insert", "serve", arg)
    /\ runningDevs' = runningDevs \cup {arg}
    /\ UNCHANGED <<left, procs, asks, phase, missed>>

(* The handler of an event starts processes of its device.  gStop is not   *)
(* looked at any more.                                                     *)
StartNext(p) ==
    /\ Of[p] = arg
    /\ phase[p] = "none"
    /\ Former[p] # Nil => phase[Former[p]] # "none"
    /\ Cardinality({q \in Proc : Of[q] \in Dev /\ phase[q] # "none"}) < MaxMade
    /\ Loop("serve", "start", p)
    /\ Quiet

Served == Loop("serve", "select", Nil) /\ Quiet

(* devd.process[ opt.procName ] = &proc, of which an iteration that has    *)
(* not come to this name yet will see the new one.                         *)
proc_generic ==
    /\ IF arg = Provider THEN Loop("start", "select", Nil)
                         ELSE Loop("start", "serve", Of[arg])
    /\ phase' = [phase EXCEPT ![arg] = "down"]
    /\ missed' = missed \cup {p \in {arg} : gStop}
    /\ procs' = IF Former[arg] \in procs
                THEN (procs \ {Former[arg]}) \cup {arg} ELSE procs
    /\ UNCHANGED <<runningDevs, left, asks>>

(* The send returns when the periodic goroutine has received. *)
periodic_stop ==
    /\ Loop("stop", "kill", arg)
    /\ left' = ProcsOf(arg)
    /\ UNCHANGED <<runningDevs, procs, asks, phase, missed>>

closeRunningDev ==
    /\ asks["loop"] = Nil
    /\ \E p \in left : left' = left \ {p} /\ Kill("loop", p)
    /\ Loop("kill", "kill", arg)
    /\ UNCHANGED <<runningDevs, procs, phase>>

(* delete( runningDevs, uuid ) *)
Forget ==
    /\ left = {} /\ asks["loop"] = Nil
    /\ Loop("kill", "select", Nil)
    /\ runningDevs' = runningDevs \ {arg}
    /\ UNCHANGED <<left, procs, asks, phase, missed>>


(* The bug of a post that does not wait for the loop. *)
Receive_Always(p) ==
    /\ phase[p] = "busy" /\ p \in Posts
    /\ phase' = [phase EXCEPT ![p] = "up"]
    /\ UNCHANGED <<sigVars, stopped, alive, hit, vpnVars, loopVars, runningDevs, asks, missed>>

(* The event of a supervisor, which is received during the shutdown, too,  *)
(* but dropped.  That of a phone that has been forgotten makes a device    *)
(* without processes, which is left out.                                   *)
Receive(p) ==
    /\ phase[p] = "busy" /\ p \in Posts
    /\ phase' = [phase EXCEPT ![p] = "up"]
    /\ IF gStop \/ Of[p] \notin runningDevs THEN Loop("select", "select", Nil)
                                            ELSE Loop("select", "serve", Of[p])
    /\ UNCHANGED <<runningDevs, left, procs, asks, missed>>

LoopSteps == \/ Stage1 \/ NewRunningDev \/ proc_generic
             \/ closeRunningDev \/ Forget
-----------------------------------------------------------------------------
(* The goroutine that watches OpenVPN's log sees that its watcher has been *)
(* closed; before that it may have read of an interface.                   *)
Watch(n, w, s) ==
    /\ ~Ended
    /\ watch = "watching"
    /\ noticed' = n /\ watch' = w /\ stopChan' = s
    /\ UNCHANGED <<runningDevs, loopVars, sigVars, asks, procVars, hit, missed>>

scanForInterface == ~noticed /\ Watch(TRUE, watch, stopChan)
WatcherClosed    == Watch(noticed, "gone", FALSE)
-----------------------------------------------------------------------------
(* The signal's goroutine. *)
Sig(from, to) ==
    /\ ~Ended
    /\ sig = from
    /\ sig' = to
    /\ UNCHANGED <<runningDevs, loopVars, procVars>>

Signal ==
    /\ Sig("wait", "devs")
    /\ gStop' = TRUE
    /\ devs' = runningDevs
    /\ UNCHANGED <<procs, owner, asks, hit, vpnVars, missed>>

(* closeAllRunningDevs: the next device.  One that is made meanwhile may   *)
(* be visited or not, one that is deleted before its turn is not.          *)
NextDev(d) ==
    /\ d \in devs
    /\ Sig("devs", "procs")
    /\ devs' = devs \ {d}
    /\ owner' = d
    /\ procs' = ProcsOf(d)
    /\ UNCHANGED <<gStop, asks, hit, vpnVars, missed>>

NoDevs ==
    /\ devs \cap runningDevs = {}
    /\ Sig("devs", "vpn")
    /\ devs' = {}
    /\ UNCHANGED <<gStop, procs, owner, asks, hit, vpnVars, missed>>

(* closeRunningDev without ports, or the end of closeBaseProgs: the next   *)
(* process.                                                                *)
KillNext(p) ==
    /\ asks["sig"] = Nil
    /\ p \in procs
    /\ Sig("procs", "procs")
    /\ procs' = procs \ {p}
    /\ Kill("sig", p)
    /\ UNCHANGED <<gStop, devs, owner, hit, vpnVars>>

(* The bug of an iteration that ends with the first process. *)
NoProcs_First ==
    /\ asks["sig"] = Nil
    /\ Sig("procs", IF owner = Base THEN "cleanup" ELSE "devs")
    /\ procs' = {}
    /\ owner' = Nil
    /\ UNCHANGED <<gStop, devs, asks, hit, vpnVars, missed>>

NoProcs ==
    /\ asks["sig"] = Nil
    /\ procs = {}
    /\ Sig("procs", IF owner = Base THEN "cleanup" ELSE "devs")
    /\ owner' = Nil
    /\ UNCHANGED <<gStop, devs, procs, asks, hit, vpnVars, missed>>

(* A map that is written to while this goroutine iterates over it: the     *)
(* runtime may notice and end the program, or the new entry may be visited *)
(* or not.                                                                 *)
MapCrash ==
    /\ \/ sig = "devs" /\ (loop = "insert" \/ (loop = "kill" /\ left = {}))
       \/ sig = "procs" /\ loop = "start" /\ Of[arg] = owner
    /\ Sig(sig, "crashed")
    /\ UNCHANGED <<gStop, devs, procs, owner, asks, hit, vpnVars, missed>>

SeesNewDev(d) ==
    /\ sig = "devs"
    /\ loop = "insert" /\ arg = d
    /\ Sig(sig, sig)
    /\ devs' = devs \cup {d}
    /\ UNCHANGED <<gStop, procs, owner, asks, hit, vpnVars, missed>>

(* If the name was in the map, the entry is visited unless it has been. *)
SeesNewProc(p) ==
    /\ sig = "procs"
    /\ loop = "start" /\ arg = p /\ Of[p] = owner
    /\ Former[p] = Nil
    /\ Sig(sig, sig)
    /\ procs' = procs \cup {p}
    /\ UNCHANGED <<gStop, devs, owner, asks, hit, vpnVars, missed>>

(* closeBaseProgs begins with vpn_shutdown: the send on vpnLogWatcher-     *)
(* StopChan, if that is not nil.                                           *)
vpn_shutdown ==
    /\ Sig("vpn", IF stopChan THEN "vpnsend" ELSE "procs")
    /\ IF stopChan THEN UNCHANGED <<procs, owner>>
                   ELSE owner' = Base /\ procs' = ProcsOf(Base)
    /\ UNCHANGED <<gStop, devs, asks, hit, vpnVars, missed>>

WatchStops ==
    /\ watch = "watching"
    /\ Sig("vpnsend", "procs")
    /\ owner' = Base /\ procs' = ProcsOf(Base)
    /\ watch' = "gone" /\ stopChan' = FALSE
    /\ UNCHANGED <<gStop, devs, asks, hit, noticed, missed>>

(* cleanup_procs, one second later. *)
cleanup_procs ==
    /\ Sig("cleanup", "cleaning")
    /\ hit' = alive \cap Known
    /\ UNCHANGED <<gStop, devs, procs, owner, asks, vpnVars, missed>>

Exit ==
    /\ hit = {}
    /\ Sig("cleaning", "exited")
    /\ UNCHANGED <<gStop, devs, procs, owner, asks, hit, vpnVars, missed>>

SigSteps == \/ \E d \in Dev : NextDev(d)
            \/ NoDevs
            \/ \E p \in Proc : KillNext(p)
            \/ NoProcs \/ vpn_shutdown \/ cleanup_procs \/ Exit
-----------------------------------------------------------------------------
Next == \/ \E p \in Proc : Supervisor(p) \/ ChildExits(p) \/ StartNext(p) \/ Receive(p)
        \/ \E d \in Dev : Connect(d) \/ Event(d) \/ Disconnect(d)
        \/ LoopSteps \/ Served \/ periodic_stop
        \/ scanForInterface \/ WatcherClosed
        \/ Signal \/ SigSteps \/ WatchStops \/ MapCrash
        \/ \E d \in Dev : SeesNewDev(d)
        \/ \E p \in Proc : SeesNewProc(p)
        \/ \E c \in {"loop", "sig"} : Taken(c)

(* Every goroutine runs when it can, and a supervisor's select serves      *)
(* every waiting thread in turn; a launch succeeds or fails; SIGTERM ends  *)
(* a child that was told to stop, SIGKILL one that cleanup_procs found.    *)
(* Served, periodic_stop and RestartDone are not fair: what the loop or a  *)
(* device unit's handler waits for there may not come.                     *)
Fairness ==
    /\ \A p \in Proc : /\ WF_vars(Launch(p) \/ GiveUp(p) \/ RunEnds(p))
                       /\ WF_vars(p \in stopped \cup hit /\ ChildExits(p))
    /\ \A p \in Posts : WF_vars(Receive(p))
    /\ WF_vars(LoopSteps) /\ WF_vars(WatcherClosed \/ WatchStops) /\ WF_vars(SigSteps)
    /\ \A c \in {"loop", "sig"} : SF_vars(Taken(c))

Spec == Init /\ [][Next]_vars /\ Fairness
-----------------------------------------------------------------------------
(* When the coordinator has exited, a child that is alive was told to end  *)
(* but is none of the programs cleanup_procs knows and waits for; or its   *)
(* supervisor restarted it: the Kill fell between two of its runs, or the  *)
(* event loop started it during the shutdown; or another has taken its     *)
(* place in the map (shutdown.go:200-226, proc_generic.go:76).             *)
ExitLeavesOnly ==
    sig = "exited" =>
        \A p \in alive : p \in missed \/ p \in stopped \ Known \/ Orphan(p)

(* Waits that cannot end.  A Kill of a supervisor that has returned, or    *)
(* that waits for an event loop which waits in vain itself; the interface  *)
(* of a VPN that comes up after the log's watcher was closed; the end of a *)
(* watcher that has ended.                                                 *)
InVain(c) == asks[c] \in Proc /\ phase[asks[c]] \in {"deaf", "gone"}
Posting(c) == asks[c] \in Posts /\ phase[asks[c]] = "busy"
LoopStuck ==
    \/ InVain("loop") \/ Posting("loop")
    \/ loop = "stage1" /\ ~noticed /\ watch = "gone"
SigStuck ==
    \/ InVain("sig")
    \/ Posting("sig") /\ LoopStuck
    \/ sig = "vpnsend" /\ watch = "gone"

(* They do not end, whatever the other does: no event loop takes the place *)
(* of the one that hangs, and its hanging may be the shutdown's            *)
(* (shutdown.go:184, 196, vpn.go:227-264, 329-336).                        *)
StuckForGood ==
    [][/\ LoopStuck => LoopStuck' \/ Ended'
       /\ SigStuck => SigStuck']_vars

(* And waits that need not end: for the handler of an event, for the       *)
(* periodic goroutine, or for a restart in a device unit's handler.        *)
InRestart(c) == asks[c] \in Restarts /\ phase[asks[c]] = "busy"
LoopHeld == loop \in {"serve", "stop"} \/ InRestart("loop")
SigHeld  == InRestart("sig") \/ (Posting("sig") /\ LoopHeld)


(* Every variable has its type; nobody waits in a Kill without a reason.   *)
TypeOK ==
    /\ gStop \in BOOLEAN
    /\ runningDevs \subseteq Dev
    /\ loop \in {"stage1", "select", "insert", "serve", "start", "stop", "kill"}
    /\ arg \in Dev \cup Proc \cup {Nil}
    /\ left \subseteq Proc
    /\ sig \in {"wait", "devs", "procs", "vpn", "vpnsend", "cleanup", "cleaning",
                "exited", "crashed"}
    /\ devs \subseteq Dev
    /\ procs \subseteq Proc
    /\ owner \in Dev \cup {Base, Nil}
    /\ asks \in [{"loop", "sig"} -> Proc \cup {Nil}]
    /\ phase \in [Proc -> {"none", "down", "up", "busy", "deaf", "gone"}]
    /\ stopped \subseteq Proc
    /\ alive \subseteq Proc
    /\ hit \subseteq alive
    /\ noticed \in BOOLEAN
    /\ watch \in {"watching", "gone"}
    /\ stopChan = (watch = "watching")
    /\ missed \subseteq Proc

(* To the loop and to the signal's goroutine each supervisor is what       *)
(* module Requests says, although both may Kill it, it may not have been   *)
(* started, and its starts and ends are not steps of their own here: one   *)
(* that took a Kill does not come back, nor one that left its command      *)
(* behind, and a Kill waits only where there is a command                  *)
(* (proc_generic.go:41-44, 91-210).                                        *)
Asked(p) == INSTANCE Requests
    WITH Caller  <- {"loop", "sig"},
         answer  <- CASE phase[p] \in {"none", "down", "gone"} -> "drops"
                      [] phase[p] = "up"   -> "takes"
                      [] phase[p] = "busy" -> "waits"
                      [] phase[p] = "deaf" -> "never",
         stopped <- p \in stopped,
         asking  <- {c \in {"loop", "sig"} : asks[c] = p}
KillsAreAnswered ==
    /\ \A p \in Proc : Asked(p)!Init
    /\ [][\A p \in Proc : [Asked(p)!Next]_(Asked(p)!vars)]_vars
=============================================================================
