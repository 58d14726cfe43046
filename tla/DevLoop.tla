------------------------------- MODULE DevLoop -------------------------------
(***************************************************************************)
(* The device event loop of the coordinator (event_loop in                 *)
(* src/coordinator/coordinator.go) and the threads it meets: the HTTP      *)
(* handlers that post device events, the supervisor goroutine of each      *)
(* device's wdaproxy, whose output handler posts events too, and the       *)
(* goroutine of each device that restarts its wdaproxy every few hours.    *)
(*                                                                         *)
(* The event channel has no buffer: a thread that posts an event waits     *)
(* until the loop receives it.  The waiting threads form the queue sendq.  *)
(* A device that is unplugged and plugged in again has a new device        *)
(* object; the threads of the old one may still be there, so all state is  *)
(* kept per object.  Supervisors behave as in module Supervisor; ports are *)
(* the subject of module Ports.                                            *)
(***************************************************************************)
EXTENDS Naturals, Sequences, FiniteSets

CONSTANTS Device,
          NeedsVideo,  \* video is enabled and its method is not "app"
          Ivp,         \* the video method is "ivp"
          MaxObj,      \* bound on device objects
          MaxQ         \* bound on the events that wait when one is posted

ASSUME ConstantAssumption ==
    /\ Device # {}
    /\ {NeedsVideo, Ivp} \subseteq BOOLEAN
    /\ MaxObj \in Nat \ {0}
    /\ MaxQ \in Nat

Object == 1..MaxObj

VARIABLES lpc,         \* where the event loop is
          cur,         \* the device object whose event it handles
          sendq,       \* the threads waiting to post, oldest first
          runningDevs, \* the device object of each device, 0 if none
          used,        \* the number of device objects made so far
          devd,        \* the fields of the device objects
          proxy,       \* the phase of each object's wdaproxy supervisor
          stopped,     \* that supervisor has taken a Kill
          periodic,    \* where each object's periodic goroutine is
          dead,        \* the coordinator has panicked
          plugged,     \* the phones that are plugged in
          told,        \* what was last published about a device
          missed,      \* closed objects whose Kill of wdaproxy was dropped
          origin       \* the event that made each object: only a connect
                       \* starts the video processes

loopVars == <<lpc, cur>>
objVars  == <<runningDevs, used, devd>>
ghosts   == <<told, missed, origin>>
vars == <<lpc, cur, sendq, runningDevs, used, devd, proxy, stopped, periodic,
          dead, plugged, told, missed, origin>>

Action == {"connect", "disconnect", "iface", "frame", "wdaStarted", "wdaFailed"}

NewDev(d) == [uuid |-> d, okVidInterface |-> FALSE, okFirstFrame |-> FALSE,
              wdaStarted |-> FALSE, devUnitStarted |-> FALSE, wda |-> FALSE,
              heartbeats |-> 0]

Init == /\ lpc = "select"
        /\ cur = 0
        /\ sendq = <<>>
        /\ runningDevs = [d \in Device |-> 0]
        /\ used = 0
        /\ devd \in [Object -> {NewDev(CHOOSE d \in Device : TRUE)}]
        /\ proxy = [o \in Object |-> "none"]
        /\ stopped = [o \in Object |-> FALSE]
        /\ periodic = [o \in Object |-> "none"]
        /\ dead = FALSE
        /\ plugged = {}
        /\ told = [d \in Device |-> "nothing"]
        /\ missed = {}
        /\ origin = [o \in Object |-> "none"]
-----------------------------------------------------------------------------
(* Posting.  src is the object whose wdaproxy supervisor waits, 0 for an   *)
(* HTTP handler.                                                           *)
Post(act, d, src) == sendq' = Append(sendq, [action |-> act, uuid |-> d, src |-> src])

(* An HTTP request that becomes a device event. *)
Request(act, d) ==
    /\ Len(sendq) < MaxQ
    /\ Post(act, d, 0)
    /\ UNCHANGED <<lpc, cur, runningDevs, used, devd, proxy, stopped, periodic,
                   dead, told, missed, origin>>

(* The device trigger reports a phone that is plugged in or pulled out. *)
deviceConnect(d) ==
    /\ d \notin plugged
    /\ plugged' = plugged \cup {d}
    /\ Request("connect", d)

deviceDisconnect(d) ==
    /\ d \in plugged
    /\ plugged' = plugged \ {d}
    /\ Request("disconnect", d)

(* A new interface of class ff/2a on a phone. *)
newInterface(d) ==
    /\ d \in plugged
    /\ Request("iface", d)
    /\ UNCHANGED plugged

(* The video process of a device object reports its first frame.  The      *)
(* process is started when the connect has been handled.                   *)
handleFrame(d) ==
    /\ runningDevs[d] # 0
    /\ origin[runningDevs[d]] = "connect"
    /\ ~(lpc = "enable" /\ cur = runningDevs[d])
    /\ Request("frame", d)
    /\ UNCHANGED plugged
-----------------------------------------------------------------------------
(* The event loop. *)
Known(d) == runningDevs[d] # 0
ObjectOf(d) == IF Known(d) THEN runningDevs[d] ELSE used + 1
Fields(d) == IF Known(d) THEN devd[runningDevs[d]] ELSE NewDev(d)

(* The bug of a device that is not entered into runningDevs. *)
Lookup_Forgets(d, act) ==
    IF Known(d)
    THEN UNCHANGED <<runningDevs, used, periodic, origin>>
    ELSE /\ used < MaxObj
         /\ used' = used + 1
         /\ periodic' = [periodic EXCEPT ![used + 1] = "sleep"]
         /\ origin' = [origin EXCEPT ![used + 1] = act]
         /\ UNCHANGED runningDevs

(* NewRunningDev and periodic_start, for any event of an unknown device. *)
Lookup(d, act) ==
    IF Known(d)
    THEN UNCHANGED <<runningDevs, used, periodic, origin>>
    ELSE /\ used < MaxObj
         /\ used' = used + 1
         /\ runningDevs' = [runningDevs EXCEPT ![d] = used + 1]
         /\ periodic' = [periodic EXCEPT ![used + 1] = "sleep"]
         /\ origin' = [origin EXCEPT ![used + 1] = act]

(* The bug of a wdaproxy started without looking at wdaStarted. *)
MayStartWda_Again(r) == NeedsVideo => r.okVidInterface /\ r.okFirstFrame

MayStartWda(r) ==
    /\ ~r.wdaStarted
    /\ NeedsVideo => r.okVidInterface /\ r.okFirstFrame

(* The end of the loop's body: the device object o with the fields r that  *)
(* the handler has given it, and its wdaproxy started if it may.  p are    *)
(* the supervisors so far.                                                 *)
Finish(o, r, p) ==
    /\ devd' = [devd EXCEPT ![o] = [r EXCEPT !.wdaStarted = @ \/ MayStartWda(r)]]
    /\ proxy' = [x \in Object |-> IF x = o /\ MayStartWda(r) THEN "down" ELSE p[x]]

(* The thread that posted e goes on: a supervisor is back at its select.   *)
GoesOn(e) == [x \in Object |-> IF x = e.src THEN "up" ELSE proxy[x]]

Receive(act) ==
    /\ ~dead
    /\ lpc = "select"
    /\ sendq # <<>>
    /\ Head(sendq).action = act
    /\ sendq' = Tail(sendq)
    /\ Lookup(Head(sendq).uuid, act)

(* A handler that only gives the object its fields r.                      *)
Handle(act, r) ==
    /\ Receive(act)
    /\ Finish(ObjectOf(Head(sendq).uuid), r, GoesOn(Head(sendq)))
    /\ UNCHANGED <<lpc, cur, stopped, dead, plugged, told, missed>>

(* A handler that asks the phone for something and waits for the answer,   *)
(* at a place of the loop of its own.                                      *)
HandleAndAsk(act, place) ==
    LET e == Head(sendq)
        o == ObjectOf(e.uuid)
    IN /\ Receive(act)
       /\ lpc' = place
       /\ cur' = o
       /\ devd' = [devd EXCEPT ![o] = Fields(e.uuid)]
       /\ proxy' = GoesOn(e)
       /\ UNCHANGED <<stopped, dead, plugged, missed>>

(* A connect.  Of a new device, ivp_enable asks the phone whether its      *)
(* video is on, and when it is, resets it with a temporary WDA (module     *)
(* TempWda); the processes of the video are started then, and are among    *)
(* the other processes of KillOtherWaits.                                  *)
HandleConnect ==
    \/ /\ HandleAndAsk("connect", "enable")
       /\ Ivp /\ ~Known(Head(sendq).uuid)
       /\ UNCHANGED told
    \/ /\ Handle("connect", Fields(Head(sendq).uuid))
       /\ Ivp => Known(Head(sendq).uuid)

HandleInterface ==
    Handle("iface", [Fields(Head(sendq).uuid) EXCEPT !.okVidInterface = TRUE])

HandleFrame ==
    Handle("frame", [Fields(Head(sendq).uuid) EXCEPT !.okFirstFrame = TRUE])

(* WDA has started: publish connected and present, and ask WDA for a       *)
(* session and the size of its window.  The requests have no timeout.      *)
HandleWdaStarted ==
    /\ HandleAndAsk("wdaStarted", "askwda")
    /\ told' = [told EXCEPT ![Head(sendq).uuid] = "connected"]

HandleWdaFailed == Handle("wdaFailed", Fields(Head(sendq).uuid))

(* The phone has answered, and the handler ends with the fields r.         *)
Answered(place, r) ==
    /\ ~dead
    /\ lpc = place
    /\ lpc' = "select"
    /\ cur' = 0
    /\ Finish(cur, r, proxy)
    /\ UNCHANGED <<sendq, runningDevs, used, stopped, periodic, dead, plugged,
                   told, missed, origin>>

EnableReturns == Answered("enable", devd[cur])

(* The bug of a heartbeat started whenever WDA starts. *)
WdaAnswers_Beats ==
    Answered("askwda", [devd[cur] EXCEPT !.heartbeats = @ + 1, !.devUnitStarted = TRUE])

(* The heartbeat and the device unit are started if they are not there     *)
(* (the VNC proxy is started again each time, see module Shutdown).        *)
WdaAnswers ==
    Answered("askwda", [devd[cur] EXCEPT !.heartbeats = IF @ = 0 THEN 1 ELSE @,
                                         !.devUnitStarted = TRUE])

(* The loop waits for the answer of a phone. *)
AskingPhone == lpc \in {"enable", "askwda"}

(* An answer that is not there, or not what it should be, is dereferenced: *)
(* the nil response of the window size, a reply that has no "activated".   *)
AnswerPanics ==
    /\ ~dead
    /\ AskingPhone
    /\ dead' = TRUE
    /\ UNCHANGED <<lpc, cur, sendq, runningDevs, used, devd, proxy, stopped, periodic,
                   plugged, told, missed, origin>>

(* The bug of a disconnect that forgets periodic_stop. *)
HandleDisconnect_NoStop ==
    LET e == Head(sendq)
        o == ObjectOf(e.uuid)
    IN /\ Receive("disconnect")
       /\ lpc' = "kill"
       /\ cur' = o
       /\ devd' = [devd EXCEPT ![o] = Fields(e.uuid)]
       /\ UNCHANGED <<proxy, stopped, dead, plugged, told, missed>>

(* A disconnect: periodic_stop(devd) waits for the periodic goroutine. *)
HandleDisconnect ==
    LET e == Head(sendq)
        o == ObjectOf(e.uuid)
    IN /\ Receive("disconnect")
       /\ lpc' = "stopping"
       /\ cur' = o
       /\ devd' = [devd EXCEPT ![o] = Fields(e.uuid)]
       /\ UNCHANGED <<proxy, stopped, dead, plugged, told, missed>>

(* A Kill that finds no command returns at once. *)
Silent == {"none", "down", "ending", "gone"}

(* closeRunningDev: Kill every process, in the order of a Go map.  The     *)
(* wdaproxy is followed step by step.                                      *)
KillProxy ==
    /\ ~dead
    /\ lpc = "kill"
    /\ IF proxy[cur] \in Silent
       THEN /\ lpc' = "delete"
            /\ missed' = missed \cup {o \in {cur} : proxy[o] \in {"down", "ending"}}
       ELSE lpc' = "killwait" /\ UNCHANGED missed
    /\ UNCHANGED <<cur, sendq, runningDevs, used, devd, proxy, stopped, periodic,
                   dead, plugged, told, origin>>

(* Another process of the object whose Kill waits for ever: one that could *)
(* not be launched, or a device unit whose handler waits for a restart.    *)
KillOtherWaits ==
    /\ ~dead
    /\ lpc \in {"kill", "delete"}
    /\ origin[cur] = "connect" \/ devd[cur].devUnitStarted
    /\ lpc' = "lost"
    /\ UNCHANGED <<cur, sendq, runningDevs, used, devd, proxy, stopped, periodic,
                   dead, plugged, told, missed, origin>>

(* The bug of a Kill that restarts the process instead. *)
KillTaken_NotNoted ==
    /\ ~dead
    /\ lpc = "killwait"
    /\ proxy[cur] = "up"
    /\ lpc' = "delete"
    /\ UNCHANGED <<cur, sendq, runningDevs, used, devd, proxy, stopped, periodic, dead,
                   plugged, told, missed, origin>>

(* A channel with room for the message. *)
KillTaken_Buffered ==
    /\ ~dead
    /\ lpc = "killwait"
    /\ stopped' = [stopped EXCEPT ![cur] = TRUE]
    /\ lpc' = "delete"
    /\ UNCHANGED <<cur, sendq, runningDevs, used, devd, proxy, periodic, dead,
                   plugged, told, missed, origin>>

(* The supervisor's select takes the kill. *)
KillTaken ==
    /\ ~dead
    /\ lpc = "killwait"
    /\ proxy[cur] = "up"
    /\ stopped' = [stopped EXCEPT ![cur] = TRUE]
    /\ lpc' = "delete"
    /\ UNCHANGED <<cur, sendq, runningDevs, used, devd, proxy, periodic, dead,
                   plugged, told, missed, origin>>

(* delete( runningDevs, uuid ), then the disconnect is published. *)
ForgetDevice ==
    /\ ~dead
    /\ lpc = "delete"
    /\ lpc' = "select"
    /\ cur' = 0
    /\ runningDevs' = [runningDevs EXCEPT ![devd[cur].uuid] = 0]
    /\ told' = [told EXCEPT ![devd[cur].uuid] = "gone"]
    /\ UNCHANGED <<sendq, used, devd, proxy, stopped, periodic, dead, plugged, missed, origin>>
-----------------------------------------------------------------------------
(* The supervisor of an object's wdaproxy, as in module Supervisor: it has *)
(* no backoff and no limit on restarts.                                    *)
Move(o, from, to) ==
    /\ ~dead
    /\ proxy[o] = from
    /\ proxy' = [proxy EXCEPT ![o] = to]
    /\ UNCHANGED <<lpc, cur, runningDevs, used, stopped, periodic, dead, plugged,
                   told, missed, origin>>

ProxyLaunch(o)  == Move(o, "down", "starting") /\ UNCHANGED <<sendq, devd>>
ProxyListens(o) == Move(o, "starting", "up") /\ UNCHANGED <<sendq, devd>>
ProxyFails(o)   == Move(o, "starting", "deaf") /\ UNCHANGED <<sendq, devd>>
ProxyExits(o)   == Move(o, "up", "closing") /\ UNCHANGED <<sendq, devd>>
ProxyCloses(o)  == Move(o, "closing", "ending") /\ UNCHANGED <<sendq, devd>>

(* onStop, then the next run unless the process was killed. *)
ProxyEnds(o) ==
    /\ Move(o, "ending", IF stopped[o] THEN "gone" ELSE "down")
    /\ devd' = [devd EXCEPT ![o].wda = FALSE]
    /\ UNCHANGED sendq

(* The line "[WDA] successfully started". *)
WdaStarted(o) ==
    /\ Move(o, "up", "busy")
    /\ devd' = [devd EXCEPT ![o].wda = TRUE]
    /\ Post("wdaStarted", devd[o].uuid, o)

(* The line "TEST EXECUTE FAILED". *)
WdaFailed(o) ==
    /\ Move(o, "up", "busy")
    /\ Post("wdaFailed", devd[o].uuid, o)
    /\ UNCHANGED devd

Proxy(o) == \/ ProxyLaunch(o) \/ ProxyListens(o) \/ ProxyFails(o) \/ ProxyExits(o)
            \/ ProxyCloses(o) \/ ProxyEnds(o) \/ WdaStarted(o) \/ WdaFailed(o)
-----------------------------------------------------------------------------
(* The periodic goroutine of a device object. *)
Periodic(o, from, to) ==
    /\ ~dead
    /\ periodic[o] = from
    /\ periodic' = [periodic EXCEPT ![o] = to]
    /\ UNCHANGED <<cur, sendq, runningDevs, used, devd, proxy, stopped, plugged,
                   told, missed, origin>>

(* A minute has passed and nothing is due, or the device has an owner. *)
Minute(o) == Periodic(o, "sleep", "poll") /\ UNCHANGED <<lpc, dead>>

(* The restart is due: Restart of the wdaproxy, a nil dereference if the   *)
(* device never had one.                                                   *)
RestartDue(o) ==
    /\ Periodic(o, "sleep", IF proxy[o] \in Silent THEN "waitup" ELSE "asking")
    /\ dead' = (proxy[o] = "none")
    /\ UNCHANGED lpc

RestartTaken(o) ==
    /\ proxy[o] = "up"
    /\ Periodic(o, "asking", "waitup")
    /\ UNCHANGED <<lpc, dead>>


(* wait_wdaup, which looks at devd.wda every ten seconds. *)
WdaIsUp(o) ==
    /\ devd[o].wda
    /\ Periodic(o, "waitup", "poll")
    /\ UNCHANGED <<lpc, dead>>

(* The goroutine looks at its end channel: it ends if the loop is waiting. *)
PollEnd(o) ==
    /\ IF lpc = "stopping" /\ cur = o
       THEN Periodic(o, "poll", "ended") /\ lpc' = "kill"
       ELSE Periodic(o, "poll", "sleep") /\ UNCHANGED lpc
    /\ UNCHANGED dead

PeriodicStep(o) == \/ Minute(o) \/ RestartDue(o) \/ RestartTaken(o)
                   \/ WdaIsUp(o) \/ PollEnd(o)
-----------------------------------------------------------------------------
Environment ==
    /\ ~dead
    /\ \E d \in Device : \/ deviceConnect(d) \/ deviceDisconnect(d)
                         \/ newInterface(d) \/ handleFrame(d)

Handler == \/ HandleConnect \/ HandleInterface \/ HandleFrame
           \/ HandleWdaStarted \/ HandleWdaFailed \/ HandleDisconnect

Loop == Handler \/ KillProxy \/ KillTaken \/ ForgetDevice

Next == \/ Environment
        \/ Loop \/ KillOtherWaits
        \/ EnableReturns \/ WdaAnswers \/ AnswerPanics
        \/ \E o \in Object : Proxy(o) \/ PeriodicStep(o)

(* Every goroutine runs when it can; the supervisor's select and the       *)
(* channels serve every waiting thread; the runtime starts or fails to     *)
(* start a child; a child that was told to stop does.  WDA need not start, *)
(* nor a phone answer what the loop asks it: ivp_enable waits for a        *)
(* command and a temporary WDA, and no HTTP request has a timeout.         *)
Fairness ==
    /\ WF_vars(Loop)
    /\ SF_vars(KillTaken)
    /\ \A o \in Object :
          /\ WF_vars(ProxyLaunch(o)) /\ WF_vars(ProxyListens(o) \/ ProxyFails(o))
          /\ WF_vars(ProxyCloses(o)) /\ WF_vars(ProxyEnds(o))
          /\ WF_vars(stopped[o] /\ ProxyExits(o))
          /\ WF_vars(Minute(o) \/ RestartDue(o))
          /\ SF_vars(RestartTaken(o)) /\ WF_vars(WdaIsUp(o)) /\ WF_vars(PollEnd(o))

Spec == Init /\ [][Next]_vars /\ Fairness
-----------------------------------------------------------------------------
Made == 1..used
Registered(o) == runningDevs[devd[o].uuid] = o
Closed(o) == o \in Made /\ ~Registered(o)
Alive == {"starting", "up", "busy"}

(* Every variable has its type; WDA that starts again and again does not   *)
(* start a second heartbeat (coordinator.go:811-813).                      *)
TypeOK ==
    /\ lpc \in {"select", "enable", "askwda", "stopping", "kill", "killwait",
                "delete", "lost"}
    /\ cur \in {0} \cup Object
    /\ sendq \in Seq([action : Action, uuid : Device, src : {0} \cup Object])
    /\ runningDevs \in [Device -> {0} \cup Object]
    /\ used \in 0..MaxObj
    /\ devd \in [Object -> [uuid : Device, okVidInterface : BOOLEAN,
                            okFirstFrame : BOOLEAN, wdaStarted : BOOLEAN,
                            devUnitStarted : BOOLEAN, wda : BOOLEAN,
                            heartbeats : 0..1]]
    /\ proxy \in [Object -> {"none", "down", "starting", "up", "busy",
                             "closing", "ending", "gone", "deaf"}]
    /\ stopped \in [Object -> BOOLEAN]
    /\ periodic \in [Object -> {"none", "sleep", "asking", "waitup", "poll", "ended"}]
    /\ dead \in BOOLEAN
    /\ plugged \in SUBSET Device
    /\ told \in [Device -> {"nothing", "connected", "gone"}]
    /\ missed \in SUBSET Object
    /\ origin \in [Object -> Action \cup {"none"}]

(* A goroutine that restarts wdaproxy never outlives its device object:    *)
(* it has ended before the ports and processes of the object are given up  *)
(* (periodic.go:53-56, coordinator.go:680-685).                            *)
PeriodicEndsFirst ==
    /\ \A o \in Object : Closed(o) => periodic[o] = "ended"
    /\ lpc \in {"kill", "killwait", "delete"} => periodic[cur] = "ended"

(* Of two objects of one phone, the older one's wdaproxy is alive only     *)
(* after it was told to stop, or when the Kill fell into the moment        *)
(* between two of its runs, and was dropped (proc_generic.go:42).  The two *)
(* processes share a phone, and the ports given back by the first          *)
(* (shutdown.go:171, 184).                                                 *)
OneLiveProxy ==
    \A o1, o2 \in Made :
        /\ o1 < o2
        /\ devd[o1].uuid = devd[o2].uuid
        /\ proxy[o1] \in Alive
        => stopped[o1] \/ o1 \in missed

(* When the loop waits and no event is pending, its devices are the phones *)
(* that are plugged in, and nothing is announced as connected that it does *)
(* not know.  The one exception are the devices that an event made which   *)
(* arrived after the disconnect: the loop makes an object for every event  *)
(* of a device it does not know (coordinator.go:625-634).                  *)
ViewSettles ==
    lpc = "select" /\ sendq = <<>> =>
        \A d \in Device :
            /\ d \in plugged => Known(d)
            /\ Known(d) => d \in plugged \/ origin[runningDevs[d]] # "connect"
            /\ told[d] = "connected" => Known(d)

(* The loop waits, in Kill or periodic_stop, for a thread that waits for   *)
(* the loop, or that has gone: a supervisor that is posting an event or    *)
(* has given up.                                                           *)
Deadlocked ==
    \/ lpc = "lost"
    \/ lpc \in {"stopping", "kill", "killwait"} /\ proxy[cur] \in {"busy", "deaf"}
(* The disconnect came after a scheduled restart had begun: should WDA     *)
(* come up, its supervisor posts the event and the loop is deadlocked.     *)
Doomed == lpc = "stopping" /\ periodic[cur] = "waitup" /\ ~devd[cur].wda

(* A deadlock of the event loop is for ever, and a disconnect that meets a *)
(* restart in progress always ends in one: the loop handles no further     *)
(* event of any phone (periodic.go:18-23, proc_wdaproxy.go:81,             *)
(* shutdown.go:184).                                                       *)
DeadlockIsForever ==
    [][Deadlocked \/ Doomed => Deadlocked' \/ Doomed' \/ dead']_vars


(* Each wdaproxy's supervisor, with the event loop and the periodic        *)
(* goroutine as its callers, behaves as module Supervisor says, which      *)
(* module ProcGeneric implements.                                          *)
Sup(o) == INSTANCE Supervisor
    WITH Caller  <- {"loop", "periodic"},
         phase   <- IF proxy[o] \in {"none", "ending"} THEN "down" ELSE proxy[o],
         stopped <- stopped[o],
         asking  <- {c \in {"loop", "periodic"} :
                        IF c = "loop" THEN lpc = "killwait" /\ cur = o
                                      ELSE periodic[o] = "asking"}
ProxiesAreSupervised ==
    /\ \A o \in Object : Sup(o)!Init
    /\ [][\A o \in Object : [Sup(o)!Next]_(Sup(o)!vars)]_vars
=============================================================================
