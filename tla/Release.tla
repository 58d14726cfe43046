------------------------------- MODULE Release -------------------------------
(***************************************************************************)
(* Restarts of wdaproxy while phones are in use                            *)
(* (src/coordinator/periodic.go, proc_device_unit.go, stf_control.go and   *)
(* handleProcRestart in http_server.go).  A restart is due every few       *)
(* hours; that of a phone with an owner is put off until it is released,   *)
(* and a web page can ask for that, too.  What is put off is kept in one   *)
(* global, onRelease, for all phones, and is run by the output handler of  *)
(* whichever device unit next says that its phone has no owner any more.   *)
(*                                                                         *)
(* The phones have been brought up: each has its device unit and its       *)
(* wdaproxy, some are in use, and a restart of one of those may have been  *)
(* put off.  A phone that is pulled out does not come back.  The phases of *)
(* a supervisor in which a request waits for no one else are left out.     *)
(***************************************************************************)
EXTENDS Naturals

CONSTANTS Dev,
          Timed,       \* the devices whose restart comes due
          AdminToken,  \* STF can be told to reserve a phone
          MaxInputs,   \* bound on what people, pages, timers, cables and units do
          Nil,         \* onRelease is nil
          NoDev        \* onRelease restarts a device that was not found

ASSUME ConstantAssumption ==
    /\ Timed \subseteq Dev
    /\ AdminToken \in BOOLEAN
    /\ MaxInputs \in Nat
    /\ Nil \notin Dev /\ NoDev \notin Dev /\ Nil # NoDev

(* The threads that restart: a device unit's output handler, and the       *)
(* periodic goroutine of a device.                                         *)
Unit(d)     == <<"unit", d>>
Periodic(d) == <<"periodic", d>>
Thread == {Unit(d) : d \in Dev} \cup {Periodic(d) : d \in Timed}

VARIABLES stf,       \* who has each phone, as STF sees it
          lines,     \* the lines about that which a unit has not read yet
          owner,     \* devd.owner # ""
          onRelease, \* the device whose restart is put off
          pc,        \* where each thread is
          aim,       \* the device that it restarts
          mine,      \* it has reserved that device, and is alone with it
          wda,       \* devd.wda
          proxy,     \* the phase of each wdaproxy's supervisor
          told,      \* what that supervisor was told last in this run
          unit,      \* the phase of each device unit's supervisor
          loop,      \* where the event loop is, and with which device
          on,        \* the devices in runningDevs
          inputs,    \* how often people, pages, timers, cables and units have acted
          dead       \* the coordinator has panicked

stfVars    == <<stf, lines>>
threadVars == <<pc, aim, mine>>
procVars   == <<wda, proxy, told, unit>>
loopVars   == <<loop, on>>
vars == <<stf, lines, owner, onRelease, pc, aim, mine, wda, proxy, told, unit,
          loop, on, inputs, dead>>

Idle == [at |-> "select", dev |-> Nil]

Init == /\ stf \in [Dev -> {"free", "user"}]
        /\ lines = [d \in Dev |-> 0]
        /\ owner = [d \in Dev |-> stf[d] = "user"]
        /\ onRelease \in {Nil} \cup {d \in Dev : stf[d] = "user"}
        /\ pc = [t \in Thread |-> "idle"]
        /\ aim = [t \in Thread |-> Nil]
        /\ mine = [t \in Thread |-> FALSE]
        /\ wda \in [Dev -> BOOLEAN]
        /\ proxy = [d \in Dev |-> "up"]
        /\ told = [d \in Dev |-> "nothing"]
        /\ unit = [d \in Dev |-> "up"]
        /\ loop = Idle
        /\ on = Dev
        /\ inputs = 0
        /\ dead = FALSE
-----------------------------------------------------------------------------
(* STF.  Each change of owner makes the device unit write a line: "Now     *)
(* owned by" and "No longer owned by" in turn.                             *)
Give(d, who) ==
    /\ stf' = [stf EXCEPT ![d] = who]
    /\ lines' = [lines EXCEPT ![d] = @ + 1]

User(d, from, to) ==
    /\ unit[d] = "up"
    /\ stf[d] = from
    /\ Give(d, to)
    /\ UNCHANGED <<owner, onRelease, loopVars, threadVars, procVars, dead>>

TakesPhone(d)  == User(d, "free", "user")
LeavesPhone(d) == User(d, "user", "free")

(* Somebody runs the coordinator with -reserve, or with -release, which    *)
(* takes a phone from whoever has it with the admin's token.               *)
CommandReserve(d) == User(d, "free", "admin")

NoMore(d) == mine' = [t \in Thread |-> mine[t] /\ aim[t] # d]

CommandRelease(d) ==
    /\ unit[d] = "up"
    /\ stf[d] = "admin"
    /\ Give(d, "free")
    /\ NoMore(d)
    /\ UNCHANGED <<owner, onRelease, pc, aim, loopVars, procVars, dead>>

(* The kind of a unit's next unread line follows from what its last one    *)
(* must say.                                                               *)
SaysOwned(d) == (stf[d] # "free") = (lines[d] % 2 = 1)
-----------------------------------------------------------------------------
(* The output handler of a device unit. *)
Go(t, from, to) == pc[t] = from /\ pc' = [pc EXCEPT ![t] = to]

InSelect(d) == unit[d] \in {"up", "told"} /\ pc[Unit(d)] = "idle"

Reads(d) ==
    /\ InSelect(d)
    /\ lines[d] > 0
    /\ lines' = [lines EXCEPT ![d] = @ - 1]
    /\ owner' = [owner EXCEPT ![d] = SaysOwned(d)]
    /\ UNCHANGED <<stf, onRelease, aim, mine, procVars, loopVars, dead>>

NowOwned(d) == SaysOwned(d) /\ Reads(d) /\ UNCHANGED pc

(* if onRelease != nil *)
NoLongerOwned(d) ==
    /\ ~SaysOwned(d)
    /\ Reads(d)
    /\ pc' = [pc EXCEPT ![Unit(d)] = IF onRelease = Nil THEN "idle" ELSE "call"]

Begin == IF AdminToken THEN "reserve" ELSE "restart"
Restarting(t) == pc[t] \in {"reserve", "restart", "asking", "waitup", "release"}

(* Thread t begins do_restart of d: who restarts d, too, is not alone with *)
(* it any more.                                                            *)
Starts(t, from, d) ==
    /\ Go(t, from, Begin)
    /\ aim' = [aim EXCEPT ![t] = d]
    /\ NoMore(d)
    /\ UNCHANGED <<stfVars, owner, onRelease, procVars, loopVars, dead>>

(* onRelease(), read once more: another unit may have set it to nil, or    *)
(* someone have put off another restart.                                   *)
Call(d) == onRelease \in Dev /\ Starts(Unit(d), "call", onRelease)

(* A nil function, or the restart of a device that is nil. *)
CallPanics(d) ==
    /\ pc[Unit(d)] = "call"
    /\ onRelease \in {Nil, NoDev}
    /\ dead' = TRUE
    /\ UNCHANGED <<stfVars, owner, onRelease, threadVars, procVars, loopVars>>

(* onRelease = nil *)
Clear(d) ==
    /\ Go(Unit(d), "clear", "idle")
    /\ onRelease' = Nil
    /\ aim' = [aim EXCEPT ![Unit(d)] = Nil]
    /\ UNCHANGED <<stfVars, owner, mine, procVars, loopVars, dead>>
-----------------------------------------------------------------------------
(* The periodic goroutine, and the web page. *)
Due(d) ==
    /\ d \in Timed
    /\ ~owner[d]
    /\ Starts(Periodic(d), "idle", d)

PutOff(r) ==
    /\ onRelease' = r
    /\ UNCHANGED <<stfVars, owner, threadVars, procVars, loopVars, dead>>

DuePutOff(d) ==
    /\ d \in Timed
    /\ pc[Periodic(d)] = "idle"
    /\ owner[d]
    /\ PutOff(d)

(* handleProcRestart looks for the device without the lock.  A request for *)
(* one that is not there panics in a goroutine that net/http recovers, and *)
(* one that cannot be taken yet holds nobody but the page, until it is.    *)
(* Of the processes a page can restart ivf and ios_video_stream keep no    *)
(* state of this module's; the third is the device unit, below.            *)
PageRestart(d) ==
    /\ d \in on
    /\ proxy[d] = "up"
    /\ told' = [told EXCEPT ![d] = IF @ = "kill" THEN @ ELSE "restart"]
    /\ UNCHANGED <<stfVars, owner, onRelease, threadVars, wda, proxy, unit,
                   loopVars, dead>>

PageOnRelease(d) == PutOff(IF d \in on THEN d ELSE NoDev)

(* A map that is read while it is written to. *)
PageCrash ==
    /\ loop.at = "delete"
    /\ dead' = TRUE
    /\ UNCHANGED <<stfVars, owner, onRelease, threadVars, procVars, loopVars>>
-----------------------------------------------------------------------------
(* do_restart. *)

(* stf_reserve, which only gets a phone that is free; whether it did is    *)
(* not looked at.                                                          *)
Reserve(t) ==
    LET d == aim[t]
        alone == \A x \in Thread \ {t} : ~(Restarting(x) /\ aim[x] = d)
    IN /\ Go(t, "reserve", "restart")
       /\ IF stf[d] = "free" /\ unit[d] \in {"up", "told"}
          THEN Give(d, "admin") /\ mine' = [mine EXCEPT ![t] = alone]
          ELSE UNCHANGED <<stfVars, mine>>
       /\ UNCHANGED <<owner, onRelease, aim, procVars, loopVars, dead>>

(* restart_wdaproxy: the request is dropped if there is no command. *)
HasCommand(d) == proxy[d] \notin {"down", "gone"}

Restart(t) ==
    /\ Go(t, "restart", IF HasCommand(aim[t]) THEN "asking" ELSE "waitup")
    /\ UNCHANGED <<stfVars, owner, onRelease, aim, mine, procVars, loopVars, dead>>

RestartTaken(t) ==
    /\ Go(t, "asking", "waitup")
    /\ proxy[aim[t]] = "up"
    /\ told' = [told EXCEPT ![aim[t]] = IF @ = "kill" THEN @ ELSE "restart"]
    /\ UNCHANGED <<stfVars, owner, onRelease, aim, mine, wda, proxy, unit,
                   loopVars, dead>>

(* The return of do_restart. *)
Returns(t) == IF t \in {Unit(d) : d \in Dev} THEN "clear" ELSE "idle"

(* wait_wdaup, which the WDA that is about to end satisfies, too. *)
WdaIsUp(t) ==
    /\ Go(t, "waitup", IF AdminToken THEN "release" ELSE Returns(t))
    /\ wda[aim[t]]
    /\ UNCHANGED <<stfVars, owner, onRelease, aim, mine, procVars, loopVars, dead>>

(* The bug of a handler that releases its own phone, not the restarted one.*)
StfRelease_Own(t) ==
    LET d == t[2]
    IN /\ Go(t, "release", Returns(t))
       /\ mine' = [mine EXCEPT ![t] = FALSE]
       /\ IF stf[d] = "admin" THEN Give(d, "free") ELSE UNCHANGED stfVars
       /\ UNCHANGED <<owner, onRelease, aim, procVars, loopVars, dead>>

(* stf_release, of a phone that may be another's by now: STF takes it only *)
(* from the admin.                                                         *)
StfRelease(t) ==
    LET d == aim[t]
    IN /\ Go(t, "release", Returns(t))
       /\ mine' = [mine EXCEPT ![t] = FALSE]
       /\ IF stf[d] = "admin" THEN Give(d, "free") ELSE UNCHANGED stfVars
       /\ UNCHANGED <<owner, onRelease, aim, procVars, loopVars, dead>>

(* STF cannot be reached: stf_do_request uses the nil response.            *)
StfPanics(t) ==
    /\ pc[t] \in {"reserve", "release"}
    /\ dead' = TRUE
    /\ UNCHANGED <<stfVars, owner, onRelease, threadVars, procVars, loopVars>>

do_restart(t) == \/ Reserve(t) \/ Restart(t) \/ RestartTaken(t)
                 \/ WdaIsUp(t) \/ StfRelease(t)
-----------------------------------------------------------------------------
(* The supervisors.  A wdaproxy: down between two runs, up, busy posting   *)
(* an event to the loop, deaf after a failed launch, gone after a Kill.    *)
Proxy(d, from, to) ==
    /\ proxy[d] = from
    /\ proxy' = [proxy EXCEPT ![d] = to]
    /\ UNCHANGED <<stfVars, owner, onRelease, threadVars, unit, loopVars, dead>>

ProxyUp(d)    == Proxy(d, "down", "up") /\ UNCHANGED <<wda, told>>
ProxyFails(d) == Proxy(d, "down", "deaf") /\ UNCHANGED <<wda, told>>

(* The line "[WDA] successfully started". *)
WdaStarts(d) ==
    /\ ~wda[d]
    /\ Proxy(d, "up", "busy")
    /\ wda' = [wda EXCEPT ![d] = TRUE]
    /\ UNCHANGED told

(* The bug of a Restart that takes back a Kill. *)
ProxyEnds_Again(d) ==
    /\ Proxy(d, "up", "down")
    /\ wda' = [wda EXCEPT ![d] = FALSE]
    /\ told' = [told EXCEPT ![d] = "nothing"]

ProxyEnds(d) ==
    /\ Proxy(d, "up", IF told[d] = "kill" THEN "gone" ELSE "down")
    /\ wda' = [wda EXCEPT ![d] = FALSE]
    /\ told' = [told EXCEPT ![d] = "nothing"]

(* A device unit ends: it was killed, a page has restarted it, or it ended *)
(* by itself.  What it has said and its handler has not read is lost, and  *)
(* the phone is free.                                                      *)
UnitPhase(d, from, to) ==
    /\ unit[d] = from
    /\ unit' = [unit EXCEPT ![d] = to]
    /\ UNCHANGED <<owner, onRelease, pc, aim, wda, proxy, told, loopVars, dead>>

UnitStops(d, from, to) ==
    /\ InSelect(d)
    /\ UnitPhase(d, from, to)
    /\ stf' = [stf EXCEPT ![d] = "free"]
    /\ lines' = [lines EXCEPT ![d] = 0]
    /\ NoMore(d)

UnitEnds(d)     == UnitStops(d, "told", "gone")
UnitRestarts(d) == UnitStops(d, "up", "down")

(* It is run again, or its launch fails. *)
UnitUp(d)    == UnitPhase(d, "down", "up") /\ UNCHANGED <<stfVars, mine>>
UnitFails(d) == UnitPhase(d, "down", "deaf") /\ UNCHANGED <<stfVars, mine>>
-----------------------------------------------------------------------------
(* The event loop: the events of wdaproxy, and a phone that is pulled out. *)
LoopStep(at, d, to, e) ==
    /\ loop = [at |-> at, dev |-> d]
    /\ loop' = [at |-> to, dev |-> e]
    /\ UNCHANGED <<stfVars, owner, onRelease, aim, mine, wda, dead>>

(* The bug of a loop that receives while it closes a device. *)
Receive_Always(d) ==
    /\ proxy[d] = "busy"
    /\ proxy' = [proxy EXCEPT ![d] = "up"]
    /\ UNCHANGED <<stfVars, owner, onRelease, threadVars, wda, told, unit, loopVars, dead>>

Receive(d) ==
    /\ proxy[d] = "busy"
    /\ proxy' = [proxy EXCEPT ![d] = "up"]
    /\ LoopStep("select", Nil, "select", Nil)
    /\ UNCHANGED <<pc, told, unit, on>>

Disconnect(d) ==
    /\ d \in on
    /\ LoopStep("select", Nil, "stop", d)
    /\ UNCHANGED <<pc, proxy, told, unit, on>>

(* periodic_stop: the goroutine looks at its channel once a minute. *)
periodic_stop(d) ==
    /\ IF d \in Timed THEN Go(Periodic(d), "idle", "ended") ELSE UNCHANGED pc
    /\ \E next \in {"proxyFirst", "unitFirst"} : LoopStep("stop", d, next, d)
    /\ UNCHANGED <<proxy, told, unit, on>>

(* closeRunningDev: Kill of the two supervisors, in one order or the other.*)
(* That of one without a command returns at once and is lost.              *)
KillProxy(d, at, to) ==
    /\ proxy[d] \notin {"busy", "deaf"}
    /\ told' = [told EXCEPT ![d] = IF proxy[d] = "up" THEN "kill" ELSE @]
    /\ LoopStep(at, d, to, d)
    /\ UNCHANGED <<pc, proxy, unit, on>>

KillUnit(d, at, to) ==
    /\ unit[d] # "deaf" /\ pc[Unit(d)] = "idle"
    /\ unit' = [unit EXCEPT ![d] = IF @ = "up" THEN "told" ELSE @]
    /\ LoopStep(at, d, to, d)
    /\ UNCHANGED <<pc, proxy, told, on>>

closeRunningDev(d) == \/ KillProxy(d, "proxyFirst", "unitLast") \/ KillUnit(d, "unitLast", "delete")
                      \/ KillUnit(d, "unitFirst", "proxyLast") \/ KillProxy(d, "proxyLast", "delete")

Forget(d) ==
    /\ on' = on \ {d}
    /\ LoopStep("delete", d, "select", Nil)
    /\ UNCHANGED <<pc, proxy, told, unit>>

Loop(d) == Receive(d) \/ periodic_stop(d) \/ closeRunningDev(d) \/ Forget(d)
-----------------------------------------------------------------------------
Handler(d) == \/ NowOwned(d) \/ NoLongerOwned(d) \/ Call(d) \/ Clear(d)

Panics == \/ \E d \in Dev : CallPanics(d)
          \/ \E t \in Thread : StfPanics(t)
          \/ PageCrash

People(d)   == \/ TakesPhone(d) \/ LeavesPhone(d)
               \/ CommandReserve(d) \/ CommandRelease(d)
UnitRuns(d) == UnitEnds(d) \/ UnitUp(d) \/ UnitFails(d)

Input(d) == \/ People(d) \/ Disconnect(d) \/ UnitRestarts(d)
            \/ Due(d) \/ DuePutOff(d) \/ PageRestart(d) \/ PageOnRelease(d)

Step(d) == \/ Handler(d) \/ Loop(d) \/ UnitRuns(d)
           \/ ProxyUp(d) \/ ProxyFails(d) \/ WdaStarts(d) \/ ProxyEnds(d)

Next ==
    /\ ~dead
    /\ \/ /\ inputs < MaxInputs
          /\ \E d \in Dev : Input(d)
          /\ inputs' = inputs + 1
       \/ /\ \/ \E d \in Dev : Step(d)
             \/ \E t \in Thread : do_restart(t)
             \/ Panics
          /\ UNCHANGED inputs

Spec == Init /\ [][Next]_vars
-----------------------------------------------------------------------------
(* Every variable has its type. *)
TypeOK ==
    /\ stf \in [Dev -> {"free", "user", "admin"}]
    /\ lines \in [Dev -> Nat]
    /\ owner \in [Dev -> BOOLEAN]
    /\ onRelease \in Dev \cup {Nil, NoDev}
    /\ pc \in [Thread -> {"idle", "call", "reserve", "restart", "asking", "waitup",
                          "release", "clear", "ended"}]
    /\ aim \in [Thread -> Dev \cup {Nil}]
    /\ mine \in [Thread -> BOOLEAN]
    /\ wda \in [Dev -> BOOLEAN]
    /\ proxy \in [Dev -> {"down", "up", "busy", "deaf", "gone"}]
    /\ told \in [Dev -> {"nothing", "restart", "kill"}]
    /\ unit \in [Dev -> {"down", "up", "told", "deaf", "gone"}]
    /\ loop \in [at : {"select", "stop", "proxyFirst", "unitLast",
                       "unitFirst", "proxyLast", "delete"},
                 dev : Dev \cup {Nil}]
    /\ on \subseteq Dev
    /\ inputs \in 0..MaxInputs
    /\ dead \in BOOLEAN

(* From a reservation that was granted to its release the phone is the     *)
(* admin's, whoever else puts off, calls or finishes restarts of other     *)
(* phones meanwhile.  What can take it away is a second restart of the     *)
(* same phone, which finds it reserved, goes on all the same and releases  *)
(* it; the end of its device unit; and -release on the command line        *)
(* (periodic.go:7-16, coordinator.go:179-187).                             *)
ReservedIsOurs == \A t \in Thread : mine[t] => stf[aim[t]] = "admin"

(* A thread restarts a wdaproxy whose supervisor has returned, or is held  *)
(* by the loop, which itself waits for the thread or the supervisor.       *)
Lost(d)  == proxy[d] \in {"deaf", "gone"}
Waits(t) == pc[t] \in {"reserve", "restart", "asking", "waitup"}
Trapped(t) == Waits(t) /\ Lost(aim[t])

(* The loop waits for a supervisor that does not listen, or for a thread   *)
(* that is trapped, or whose wdaproxy waits for the loop.                  *)
LoopWaitsFor(t) ==
    \/ loop.at = "stop" /\ t = Periodic(loop.dev)
    \/ loop.at \in {"unitFirst", "unitLast"} /\ t = Unit(loop.dev)
LoopStuck ==
    \/ /\ loop.at \in {"proxyFirst", "proxyLast"}
       /\ proxy[loop.dev] \in {"busy", "deaf"}
    \/ /\ loop.at \in {"unitFirst", "unitLast"}
       /\ unit[loop.dev] = "deaf"
    \/ \E t \in Thread :
          /\ LoopWaitsFor(t)
          /\ Trapped(t) \/ (pc[t] = "asking" /\ proxy[aim[t]] = "busy")

(* A restart put off for a phone that has since been pulled out catches    *)
(* the device unit of another phone for ever, once that phone is released; *)
(* and when this one is pulled out, too, the event loop.  A loop that      *)
(* kills a unit whose handler restarts a wdaproxy which is posting to the  *)
(* loop is caught for ever, too (proc_device_unit.go:100-103,              *)
(* proc_wdaproxy.go:18-23, 81).                                            *)
StuckForGood ==
    [][/\ LoopStuck => LoopStuck' \/ dead'
       /\ \A t \in Thread : Trapped(t) => Trapped(t)']_vars

(* To the threads that restart it, to the loop and to the pages each       *)
(* wdaproxy is what module Requests says: a restart never brings one back  *)
(* that was told to end, nor one that left its command behind, whichever   *)
(* thread restarts whose phone (proc_wdaproxy.go:18-23, proc_generic.go:   *)
(* 41-49, 185-210).                                                        *)
Asked(d) == INSTANCE Requests
    WITH Caller  <- Thread,
         answer  <- CASE proxy[d] \in {"down", "gone"} -> "drops"
                      [] proxy[d] = "up"   -> "takes"
                      [] proxy[d] = "busy" -> "waits"
                      [] proxy[d] = "deaf" -> "never",
         stopped <- told[d] = "kill" \/ proxy[d] = "gone",
         asking  <- {t \in Thread : pc[t] = "asking" /\ aim[t] = d}
RestartsAreAnswered ==
    /\ \A d \in Dev : Asked(d)!Init
    /\ [][\A d \in Dev : [Asked(d)!Next]_(Asked(d)!vars)]_vars
=============================================================================
