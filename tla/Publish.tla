------------------------------- MODULE Publish --------------------------------
(***************************************************************************)
(* What the coordinator tells STF about its devices: the messages that the *)
(* event loop (src/coordinator/coordinator.go), the goroutine that reads   *)
(* the messages of the WDA wrappers (coro_zmqPull in zmq.go) and one       *)
(* heartbeat goroutine per device object (heartbeat.go) hand to coro_zmqPub*)
(* over a channel without a buffer.  coro_zmqPub is always back at its     *)
(* receive soon, so that a send is one step here.                          *)
(*                                                                         *)
(* A wrapper (src/wda_wrapper/wda_wrapper.go) runs wdaproxy again and      *)
(* again and pushes what happens to the coordinator, the start of WDA from *)
(* a goroutine of its own.  (The present coordinator starts no wrapper; it *)
(* still serves them.)  Three things the loop does need not end: to close  *)
(* a device, to call WDA after its start, and, at a connect with the video *)
(* method ivp, to wait for a temporary WDA.  Why is in DevLoop and TempWda;*)
(* here they are steps that may never be taken.                            *)
(***************************************************************************)
EXTENDS Naturals, Sequences

CONSTANTS Phone,       \* the phones
          MaxObjects,  \* a bound on the device objects
          MaxQueue,    \* a bound on the messages on their way
          Ivp          \* whether the video method is ivp

ASSUME PublishAssumption == MaxObjects \in Nat /\ MaxQueue \in Nat /\ Ivp \in BOOLEAN

Object == 1..MaxObjects
Nil == 0

VARIABLES plugged,   \* the phones device_trigger has reported
          running,   \* runningDevs: the object of each phone, or Nil
          made,      \* the objects made so far
          uuid,      \* the phone each object was made for
          lpc,       \* where the event loop is
          event,     \* the event it handles
          hb,        \* where the heartbeat goroutine of each object is
          count,     \* its count
          ppc,       \* where coro_zmqPull is
          msg,       \* the message it handles
          devd,      \* the object it found, or whose channel it sends on
          queue,     \* the messages of the wrappers, in order
          wrapper,   \* whether the wdaproxy of each wrapper runs
          line,      \* the wrappers that have read of the start of WDA
          view,      \* what STF was last told of each phone
          about,     \* the object whose ports it was told
          late,      \* phones it was told of by way of an object that was gone
          dead       \* a goroutine dereferenced nil

loop  == <<plugged, running, made, uuid, lpc, event>>
beats == <<hb, count>>
pull  == <<ppc, msg, devd>>
wraps == <<wrapper, line>>
told  == <<view, about, late>>
vars == <<plugged, running, made, uuid, lpc, event, hb, count, ppc, msg, devd,
          queue, wrapper, line, view, about, late, dead>>

NoEvent == [action |-> "none"]
Events == [action : {"connect", "disconnect", "frame", "wda"}, uuid : Phone]
NoMessage == [type |-> "none"]
Messages == [type : {"wdaproxy_started", "wda_started", "wdaproxy_ended", "mirrorfeed_dimensions"},
             uuid : Phone]

Init == /\ plugged = {}
        /\ running = [u \in Phone |-> Nil]
        /\ made = 0
        /\ uuid = [o \in Object |-> Nil]
        /\ lpc = "select"
        /\ event = NoEvent
        /\ hb = [o \in Object |-> "none"]
        /\ count = [o \in Object |-> 0]
        /\ ppc = "read"
        /\ msg = NoMessage
        /\ devd = Nil
        /\ queue = <<>>
        /\ wrapper = {}
        /\ line = {}
        /\ view = [u \in Phone |-> "unknown"]
        /\ about = [u \in Phone |-> Nil]
        /\ late = {}
        /\ dead = FALSE
-----------------------------------------------------------------------------
(* pubEventCh <- PubEvent: STF learns that a phone is gone, or of an object*)
(* and its ports.                                                          *)
PublishGone(u) == /\ view' = [view EXCEPT ![u] = "gone"]
                  /\ about' = [about EXCEPT ![u] = Nil]
                  /\ late' = late \ {u}

PublishObject(u, what, o) ==
    /\ view' = [view EXCEPT ![u] = what]
    /\ about' = [about EXCEPT ![u] = o]
    /\ late' = IF o = running[u] THEN late \ {u} ELSE late \cup {u}

Handler(action) == CASE action \in {"connect", "frame"} -> "select"
                     [] action = "disconnect" -> "close"
                     [] action = "wda" -> "connected"

(* devEvent := <- devEventCh, and the object it is for, or a new one *)
Receive(action, u) ==
    /\ lpc = "select"
    /\ IF running[u] = Nil
       THEN made < MaxObjects /\ lpc' = "create"
       ELSE lpc' = Handler(action)
    /\ event' = IF lpc' = "select" THEN NoEvent ELSE [action |-> action, uuid |-> u]
    /\ UNCHANGED <<running, made, uuid>>

(* device_trigger reports that a phone was plugged in or pulled out. *)
Trigger(u) ==
    /\ IF u \in plugged
       THEN Receive("disconnect", u) /\ plugged' = plugged \ {u}
       ELSE Receive("connect", u) /\ plugged' = plugged \cup {u}
    /\ UNCHANGED <<queue, dead>> /\ UNCHANGED <<beats, pull, wraps, told>>

(* The wdaproxy of a device, which may be gone by now, says that WDA has   *)
(* started.                                                                *)
WdaStarted(u) ==
    /\ made > 0
    /\ Receive("wda", u)
    /\ UNCHANGED <<plugged, queue, dead>> /\ UNCHANGED <<beats, pull, wraps, told>>

(* The object is made and put in the map.  The first thing a connect does  *)
(* with it, if the video method is ivp, is ivp_enable.                     *)
NewRunningDev ==
    /\ lpc = "create"
    /\ made' = made + 1
    /\ running' = [running EXCEPT ![event.uuid] = made']
    /\ uuid' = [uuid EXCEPT ![made'] = event.uuid]
    /\ lpc' = IF Ivp /\ event.action = "connect" THEN "enable" ELSE Handler(event.action)
    /\ event' = IF lpc' = "select" THEN NoEvent ELSE event
    /\ UNCHANGED <<plugged, queue, dead>> /\ UNCHANGED <<beats, pull, wraps, told>>

(* ivp_enable returns, or panics at a WDA that does not answer. *)
ivp_enable ==
    /\ lpc = "enable"
    /\ dead' \in BOOLEAN
    /\ lpc' = "select"
    /\ event' = NoEvent
    /\ UNCHANGED <<plugged, running, made, uuid, queue>>
    /\ UNCHANGED <<beats, pull, wraps, told>>

(* The bug of a disconnect that returns once the device is out of the map. *)
CloseDevice_SaysNothing ==
    /\ lpc = "close"
    /\ running' = [running EXCEPT ![event.uuid] = Nil]
    /\ lpc' = "select"
    /\ event' = NoEvent
    /\ UNCHANGED <<plugged, made, uuid, queue, dead>> /\ UNCHANGED <<beats, pull, wraps, told>>

(* Disconnect: periodic_stop, closeRunningDev, delete( runningDevs, uuid ).*)
(* The heartbeat is left alone.                                            *)
CloseDevice ==
    /\ lpc = "close"
    /\ running' = [running EXCEPT ![event.uuid] = Nil]
    /\ lpc' = "gone"
    /\ UNCHANGED <<plugged, made, uuid, event, queue, dead>> /\ UNCHANGED <<beats, pull, wraps, told>>

TellGone ==
    /\ lpc = "gone"
    /\ PublishGone(event.uuid)
    /\ lpc' = "select"
    /\ event' = NoEvent
    /\ UNCHANGED <<plugged, running, made, uuid, queue, dead>> /\ UNCHANGED <<beats, pull, wraps>>

(* WDA started: two messages for STF ... *)
TellConnected ==
    /\ lpc = "connected"
    /\ PublishObject(event.uuid, "connected", running[event.uuid])
    /\ lpc' = "present"
    /\ UNCHANGED <<plugged, running, made, uuid, event, queue, dead>>
    /\ UNCHANGED <<beats, pull, wraps>>

TellPresent ==
    /\ lpc = "present"
    /\ PublishObject(event.uuid, "present", running[event.uuid])
    /\ lpc' = "beat"
    /\ UNCHANGED <<plugged, running, made, uuid, event, queue, dead>>
    /\ UNCHANGED <<beats, pull, wraps>>

(* The bug of asking whether the goroutine runs, not whether there was one.*)
StartHeartbeat_Again ==
    /\ lpc = "beat"
    /\ LET o == running[event.uuid] IN
         IF hb[o] \in {"none", "ended"}
         THEN hb' = [hb EXCEPT ![o] = "poll"] /\ count' = [count EXCEPT ![o] = 1]
         ELSE UNCHANGED beats
    /\ lpc' = "select"
    /\ event' = NoEvent
    /\ UNCHANGED <<plugged, running, made, uuid, queue, dead>> /\ UNCHANGED <<pull, wraps, told>>

(* ... calls of WDA, of which the answer may be nil, and the heartbeat, if *)
(* there has not been one.                                                 *)
StartHeartbeat ==
    /\ lpc = "beat"
    /\ LET o == running[event.uuid] IN
         \/ /\ IF hb[o] = "none"
               THEN hb' = [hb EXCEPT ![o] = "poll"] /\ count' = [count EXCEPT ![o] = 1]
               ELSE UNCHANGED beats
            /\ UNCHANGED dead
         \/ dead' = TRUE /\ UNCHANGED beats
    /\ lpc' = "select"
    /\ event' = NoEvent
    /\ UNCHANGED <<plugged, running, made, uuid, queue>> /\ UNCHANGED <<pull, wraps, told>>
-----------------------------------------------------------------------------
(* coro_heartbeat: a look at the channel comes first, and gets what        *)
(* coro_zmqPull is waiting to send.                                        *)
Stopped(o) == ppc = "stop" /\ devd = o

(* The bug of a channel that belongs to the phone. *)
Poll_AnyObject(o) ==
    /\ hb[o] = "poll"
    /\ IF ppc = "stop"
       THEN /\ hb' = [hb EXCEPT ![o] = "ended"]
            /\ ppc' = "read" /\ msg' = NoMessage /\ devd' = Nil
       ELSE /\ hb' = [hb EXCEPT ![o] = IF count[o] >= 2 THEN "beat" ELSE "sleep"]
            /\ UNCHANGED pull
    /\ UNCHANGED <<count, queue, dead>> /\ UNCHANGED <<loop, wraps, told>>


Poll(o) ==
    /\ hb[o] = "poll"
    /\ IF Stopped(o)
       THEN /\ hb' = [hb EXCEPT ![o] = "ended"]
            /\ ppc' = "read" /\ msg' = NoMessage /\ devd' = Nil
       ELSE /\ hb' = [hb EXCEPT ![o] = IF count[o] >= 2 THEN "beat" ELSE "sleep"]
            /\ UNCHANGED pull
    /\ UNCHANGED <<count, queue, dead>> /\ UNCHANGED <<loop, wraps, told>>

(* A heartbeat names the phone and nothing else.  It says nothing that STF *)
(* does not know of a phone it takes for connected; of one that it takes   *)
(* for gone it says that the phone is there.                               *)
Beat(o) ==
    /\ hb[o] = "beat"
    /\ count' = [count EXCEPT ![o] = 0]
    /\ hb' = [hb EXCEPT ![o] = "sleep"]
    /\ view' = IF view[uuid[o]] \in {"connected", "present"}
               THEN view
               ELSE [view EXCEPT ![uuid[o]] = "beating"]
    /\ UNCHANGED <<about, late, queue, dead>> /\ UNCHANGED <<loop, pull, wraps>>

(* The bug of a count that is not raised. *)
Sleep_NoCount(o) ==
    /\ hb[o] = "sleep"
    /\ hb' = [hb EXCEPT ![o] = "poll"]
    /\ UNCHANGED <<count, queue, dead>> /\ UNCHANGED <<loop, pull, wraps, told>>

Sleep(o) ==
    /\ hb[o] = "sleep"
    /\ count' = [count EXCEPT ![o] = @ + 1]
    /\ hb' = [hb EXCEPT ![o] = "poll"]
    /\ UNCHANGED <<queue, dead>> /\ UNCHANGED <<loop, pull, wraps, told>>
-----------------------------------------------------------------------------
(* The messages of a wrapper: it starts wdaproxy, which ends some time.    *)
Push(type, u) == /\ Len(queue) < MaxQueue
                 /\ queue' = Append(queue, [type |-> type, uuid |-> u])

WrapperStarts(u) ==
    /\ u \notin wrapper
    /\ Push("wdaproxy_started", u)
    /\ wrapper' = wrapper \cup {u}
    /\ UNCHANGED <<line, dead>> /\ UNCHANGED <<loop, beats, pull, told>>

WrapperEnds(u) ==
    /\ u \in wrapper
    /\ Push("wdaproxy_ended", u)
    /\ wrapper' = wrapper \ {u}
    /\ UNCHANGED <<line, dead>> /\ UNCHANGED <<loop, beats, pull, told>>

(* wdaproxy prints that WDA has started; the goroutine that reads what it  *)
(* prints passes that on when it comes to it.                              *)
WrapperLine(u) ==
    /\ u \in wrapper \ line
    /\ line' = line \cup {u}
    /\ UNCHANGED <<wrapper, queue, dead>> /\ UNCHANGED <<loop, beats, pull, told>>

WrapperSays(u) ==
    /\ u \in line
    /\ Push("wda_started", u)
    /\ line' = line \ {u}
    /\ UNCHANGED <<wrapper, dead>> /\ UNCHANGED <<loop, beats, pull, told>>

(* Another program reports the size of the first frame. *)
MirrorFeed(u) ==
    /\ Push("mirrorfeed_dimensions", u)
    /\ UNCHANGED <<wrapper, line, dead>> /\ UNCHANGED <<loop, beats, pull, told>>
-----------------------------------------------------------------------------
(* coro_zmqPull reads a message.  Two types become events for the loop,    *)
(* for the others it looks the device up.  An end goes to the channel of   *)
(* the device, which is nil if there never was a heartbeat.                *)
Read ==
    /\ ppc = "read"
    /\ queue # <<>>
    /\ queue' = Tail(queue)
    /\ LET m == Head(queue)
           o == running[m.uuid]
       IN \/ /\ m.type \in {"wda_started", "mirrorfeed_dimensions"}
             /\ ppc' = "post" /\ msg' = m /\ devd' = Nil
          \/ /\ m.type \in {"wdaproxy_started", "wdaproxy_ended"} /\ o = Nil
             /\ UNCHANGED pull
          \/ /\ m.type = "wdaproxy_started" /\ o # Nil
             /\ ppc' = "connected" /\ msg' = m /\ devd' = o
          \/ /\ m.type = "wdaproxy_ended" /\ o # Nil
             /\ ppc' = "stop" /\ msg' = m
             /\ devd' = IF hb[o] = "none" THEN Nil ELSE o
    /\ UNCHANGED dead /\ UNCHANGED <<loop, beats, wraps, told>>

(* devEventCh <- DevEvent, when the loop receives it *)
Post ==
    /\ ppc = "post"
    /\ \/ /\ msg.type = "wda_started"
          /\ Receive("wda", msg.uuid)
          /\ ppc' = "lookup" /\ UNCHANGED msg
       \/ /\ msg.type = "mirrorfeed_dimensions"
          /\ Receive("frame", msg.uuid)
          /\ ppc' = "read" /\ msg' = NoMessage
    /\ UNCHANGED <<plugged, devd, queue, dead>> /\ UNCHANGED <<beats, wraps, told>>

(* The device of the event, used without asking whether there is one: the  *)
(* loop may be making it, or have closed it.                               *)
Lookup ==
    /\ ppc = "lookup"
    /\ LET o == running[msg.uuid] IN
         IF o = Nil THEN dead' = TRUE /\ UNCHANGED pull
                    ELSE ppc' = "connected" /\ devd' = o /\ UNCHANGED <<msg, dead>>
    /\ UNCHANGED queue /\ UNCHANGED <<loop, beats, wraps, told>>

PullConnected ==
    /\ ppc = "connected"
    /\ PublishObject(msg.uuid, "connected", devd)
    /\ ppc' = "present"
    /\ UNCHANGED <<msg, devd, queue, dead>> /\ UNCHANGED <<loop, beats, wraps>>

PullPresent ==
    /\ ppc = "present"
    /\ PublishObject(msg.uuid, "present", devd)
    /\ ppc' = "read" /\ msg' = NoMessage /\ devd' = Nil
    /\ UNCHANGED <<queue, dead>> /\ UNCHANGED <<loop, beats, wraps>>
-----------------------------------------------------------------------------
LoopRuns == NewRunningDev \/ TellGone \/ TellConnected \/ TellPresent

Loop == LoopRuns \/ CloseDevice \/ StartHeartbeat \/ ivp_enable

Heartbeat(o) == Poll(o) \/ Beat(o) \/ Sleep(o)

Pull == Read \/ Post \/ Lookup \/ PullConnected \/ PullPresent

Next == /\ ~dead
        /\ \/ \E u \in Phone : \/ Trigger(u) \/ WdaStarted(u)
                               \/ WrapperStarts(u) \/ WrapperEnds(u)
                               \/ WrapperLine(u) \/ WrapperSays(u) \/ MirrorFeed(u)
           \/ Loop
           \/ \E o \in Object : Heartbeat(o)
           \/ Pull

(* Goroutines run; the loop serves those that wait for it in their order.  *)
(* Phones and wrappers need do nothing, and nothing bounds the Kills of a  *)
(* close, the calls of WDA and the wait for a temporary one.               *)
Spec == /\ Init /\ [][Next]_vars
        /\ WF_vars(LoopRuns /\ ~dead)
        /\ SF_vars(Pull /\ ~dead)
        /\ \A o \in Object : WF_vars(Heartbeat(o) /\ ~dead)
-----------------------------------------------------------------------------
(* Every variable has its type. *)
TypeOK == /\ plugged \subseteq Phone
          /\ running \in [Phone -> Object \cup {Nil}]
          /\ made \in 0..MaxObjects
          /\ uuid \in [Object -> Phone \cup {Nil}]
          /\ lpc \in {"select", "create", "enable", "close", "gone", "connected", "present", "beat"}
          /\ event \in Events \cup {NoEvent}
          /\ hb \in [Object -> {"none", "poll", "beat", "sleep", "ended"}]
          /\ count \in [Object -> 0..2]
          /\ ppc \in {"read", "connected", "present", "post", "lookup", "stop"}
          /\ msg \in Messages \cup {NoMessage}
          /\ devd \in Object \cup {Nil}
          /\ queue \in Seq(Messages) /\ Len(queue) <= MaxQueue
          /\ wrapper \subseteq Phone
          /\ line \subseteq Phone
          /\ view \in [Phone -> {"unknown", "gone", "connected", "present", "beating"}]
          /\ about \in [Phone -> Object \cup {Nil}]
          /\ late \subseteq Phone
          /\ dead \in BOOLEAN

(* A phone that STF takes for there is one the coordinator runs, with the  *)
(* ports of its present object, but for three cases: STF is about to be    *)
(* told that it is gone (coordinator.go:685-695); the pull goroutine told  *)
(* of an object that had gone meanwhile (zmq.go:208-230, 247-270); or the  *)
(* phone was announced by the heartbeat of an object that is not the       *)
(* present one (heartbeat.go:14-40).                                       *)
ConnectedMatches ==
    \A u \in Phone : view[u] \in {"connected", "present"} =>
        \/ running[u] # Nil /\ about[u] = running[u]
        \/ lpc = "gone" /\ event.uuid = u
        \/ u \in late

BeatingMatches ==
    \A u \in Phone : view[u] = "beating" =>
        \E o \in Object : uuid[o] = u /\ hb[o] # "none" /\ running[u] # o

ViewMatches == ConnectedMatches /\ BeatingMatches

(* The heartbeat of an object that the coordinator has forgotten *)
Orphan(o) == /\ hb[o] \in {"poll", "beat", "sleep"}
             /\ \A u \in Phone : running[u] # o
             /\ ~Stopped(o)

(* Nothing ever stops the heartbeat of a phone once its object is closed:  *)
(* no wrapper's message finds the channel any more (coordinator.go:673-696,*)
(* zmq.go:288-296).                                                        *)
OrphansBeatForGood == [][\A o \in Object : Orphan(o) => Orphan(o)']_vars

(* So STF, when it was told that such a phone is gone, hears of it again,  *)
(* though nobody plugged it in (heartbeat.go:24-36, coordinator.go:688).   *)
GoneComesBack ==
    \A o \in Object, u \in Phone :
        Orphan(o) /\ uuid[o] = u /\ view[u] = "gone" ~> dead \/ view[u] # "gone"

(* The pull goroutine sends to a heartbeat there never was, or that has    *)
(* ended before: a second wdaproxy_ended, or one before WDA started.       *)
PullStuck == ppc = "stop" /\ (devd = Nil \/ hb[devd] = "ended")

(* It waits for good, and no message of any wrapper is read again          *)
(* (zmq.go:296).                                                           *)
StuckForGood == [][PullStuck => PullStuck']_vars

(* MaxObjects bounds the model: it has no object for the event. *)
AtBound == ppc = "post" /\ made = MaxObjects /\ running[msg.uuid] = Nil

(* The loop is in what need not end: a close, calls of WDA, ivp_enable. *)
LoopCaught == lpc \in {"close", "beat", "enable"}

=============================================================================
