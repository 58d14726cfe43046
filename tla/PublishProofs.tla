----------------------------- MODULE PublishProofs -----------------------------
(***************************************************************************)
(* What STF is told, for any number of phones, objects and messages.       *)
(***************************************************************************)
EXTENDS Publish, TLAPS

(* The event the loop handles, and the object it is for.                   *)
HandlesEvent ==
    /\ lpc # "select" => event \in Events
    /\ lpc = "create" => made < MaxObjects /\ running[event.uuid] = Nil
    /\ lpc \in {"close", "connected", "present", "beat"} => running[event.uuid] # Nil

(* The message the pull goroutine handles, and the object it found.        *)
HandlesMessage ==
    /\ ppc # "read" => msg \in Messages
    /\ ppc \in {"connected", "present"} => devd \in Object

(* A heartbeat goes round its loop with a count that fits the place.       *)
CountFits == \A o \in Object : /\ hb[o] = "sleep" => count[o] \in 0..1
                               /\ hb[o] # "none" => o <= made

(* Objects are numbered in the order in which they are made.               *)
OnlyMade == \A u \in Phone : running[u] <= made

(* Each object was made for a phone, and is only ever the one of that.      *)
MadeFor == /\ \A u \in Phone : running[u] # Nil => uuid[running[u]] = u
           /\ \A o \in Object : hb[o] # "none" => uuid[o] \in Phone

(* A phone whose present object has a heartbeat is known to STF: its start *)
(* was told before, and only a disconnect takes that back, which comes     *)
(* after the object is out of the map.                                     *)
Heard == /\ \A u \in Phone : running[u] # Nil /\ hb[running[u]] # "none" =>
                view[u] \in {"connected", "present"}
         /\ lpc = "beat" => view[event.uuid] \in {"connected", "present"}
         /\ lpc = "gone" => running[event.uuid] = Nil

ToldFits == TypeOK /\ HandlesEvent /\ HandlesMessage /\ CountFits /\ OnlyMade /\ ConnectedMatches
BeatFits == MadeFor /\ Heard /\ BeatingMatches

IInv == ToldFits /\ BeatFits

(* The fields of an event.                                                 *)
LEMMA EventFields ==
  /\ \A e \in Events : e.uuid \in Phone
                       /\ e.action \in {"connect", "disconnect", "frame", "wda"}
  /\ \A a \in {"connect", "disconnect", "frame", "wda"}, u \in Phone :
        [action |-> a, uuid |-> u] \in Events
  /\ NoEvent \notin Events
  BY DEF Events, NoEvent

(* The fields of a message.                                                *)
LEMMA MessageFields ==
  /\ \A m \in Messages : m.uuid \in Phone
  /\ NoMessage \notin Messages
  BY DEF Messages, NoMessage

(* Nothing is known, and no goroutine is under way, to begin with.         *)
LEMMA InitIInv == Init => IInv
<1> SUFFICES ASSUME Init PROVE IInv
  OBVIOUS
<1>1. queue \in Seq(Messages) /\ Len(queue) <= MaxQueue
  BY PublishAssumption DEF Init
<1>2. TypeOK
  <2>1. running \in [Phone -> Object \cup {Nil}] /\ about \in [Phone -> Object \cup {Nil}]
    BY DEF Init
  <2>2. hb \in [Object -> {"none", "poll", "beat", "sleep", "ended"}]
    BY DEF Init
  <2>3. count \in [Object -> 0..2] /\ made \in 0..MaxObjects
    BY PublishAssumption DEF Init
  <2>4. view \in [Phone -> {"unknown", "gone", "connected", "present", "beating"}]
    BY DEF Init
  <2> QED BY <1>1, <2>1, <2>2, <2>3, <2>4 DEF Init, TypeOK
<1>3. HandlesEvent /\ HandlesMessage /\ CountFits /\ OnlyMade /\ ConnectedMatches
  BY PublishAssumption DEF Init, HandlesEvent, HandlesMessage, CountFits, OnlyMade, ConnectedMatches, Nil, Object
<1>4. MadeFor /\ Heard /\ BeatingMatches
  BY DEF Init, MadeFor, Heard, BeatingMatches
<1> QED BY <1>2, <1>3, <1>4 DEF IInv, ToldFits, BeatFits

(* The loop receives an event, whoever posts it.                           *)
LEMMA ReceiveFits ==
  ASSUME TypeOK, HandlesEvent, ConnectedMatches, NEW u \in Phone,
         NEW a \in {"connect", "disconnect", "frame", "wda"}, Receive(a, u),
         UNCHANGED <<view, about, late>>
  PROVE  /\ lpc' \in {"select", "create", "close", "connected"}
         /\ event' \in Events \cup {NoEvent}
         /\ HandlesEvent'
         /\ ConnectedMatches'
<1>1. CASE running[u] = Nil
  <2>1. made < MaxObjects /\ lpc' = "create" /\ UNCHANGED <<running, made, uuid>>
    BY <1>1 DEF Receive
  <2>2. event' = [action |-> a, uuid |-> u]
    BY <2>1 DEF Receive
  <2> QED BY <1>1, <2>1, <2>2, EventFields DEF HandlesEvent, ConnectedMatches, Receive
<1>2. CASE running[u] # Nil
  <2>1. /\ lpc' \in {"select", "close", "connected"}
        /\ UNCHANGED <<running, made, uuid>>
        /\ event' = IF lpc' = "select" THEN NoEvent ELSE [action |-> a, uuid |-> u]
    BY <1>2 DEF Receive, Handler
  <2>2. event' \in Events \cup {NoEvent}
    BY <2>1, EventFields
  <2>3. lpc' # "select" => event' \in Events /\ event'.uuid = u
    BY <2>1, EventFields
  <2> QED BY <1>2, <2>1, <2>2, <2>3 DEF HandlesEvent, ConnectedMatches, Receive
<1> QED BY <1>1, <1>2

(* What is said of one more phone leaves the rest of the view as it was.   *)
LEMMA PublishFits ==
  ASSUME TypeOK, ConnectedMatches, NEW u \in Phone, NEW o \in Object,
         NEW what \in {"connected", "present"}, PublishObject(u, what, o),
         UNCHANGED running, lpc' = lpc \/ lpc # "gone", UNCHANGED event
  PROVE  /\ view' \in [Phone -> {"unknown", "gone", "connected", "present", "beating"}]
         /\ about' \in [Phone -> Object \cup {Nil}]
         /\ late' \subseteq Phone
         /\ ConnectedMatches'
<1>1. view' \in [Phone -> {"unknown", "gone", "connected", "present", "beating"}]
  BY DEF TypeOK, PublishObject
<1>2. about' \in [Phone -> Object \cup {Nil}]
  BY DEF TypeOK, PublishObject
<1>3. late' \subseteq Phone
  BY DEF TypeOK, PublishObject
<1>0. o # Nil
  BY DEF Object, Nil
<1>4. ASSUME NEW w \in Phone, view'[w] \in {"connected", "present"}
      PROVE  \/ running'[w] # Nil /\ about'[w] = running'[w]
             \/ lpc' = "gone" /\ event'.uuid = w
             \/ w \in late'
  <2>1. CASE w = u
    BY <1>0, <2>1 DEF TypeOK, PublishObject
  <2>2. CASE w # u
    BY <1>4, <2>2 DEF TypeOK, PublishObject, ConnectedMatches
  <2> QED BY <2>1, <2>2
<1> QED BY <1>1, <1>2, <1>3, <1>4 DEF ConnectedMatches

(* The steps of the loop, between two of its receives.                     *)
LEMMA LoopTold == IInv /\ Loop => ToldFits'
<1> SUFFICES ASSUME IInv, Loop PROVE ToldFits'
  OBVIOUS
<1> USE EventFields DEF IInv, ToldFits, loop, beats, pull, wraps, told
<1>1. CASE NewRunningDev
  <2>1. /\ event.uuid \in Phone /\ event \in Events /\ made < MaxObjects
        /\ running[event.uuid] = Nil
    BY <1>1 DEF NewRunningDev, HandlesEvent
  <2>2. /\ made' = made + 1 /\ made' \in Object /\ made' # Nil
        /\ running' = [running EXCEPT ![event.uuid] = made']
        /\ uuid' = [uuid EXCEPT ![made'] = event.uuid]
    BY <1>1, <2>1, PublishAssumption DEF NewRunningDev, TypeOK, Object, Nil
  <2>3. /\ lpc' \in {"select", "enable", "close", "connected"}
        /\ event' = IF lpc' = "select" THEN NoEvent ELSE event
    BY <1>1, <2>1 DEF NewRunningDev, Handler
  <2>4. UNCHANGED <<plugged, queue, dead, hb, count, ppc, msg, devd, wrapper, line,
                    view, about, late>>
    BY <1>1 DEF NewRunningDev
  <2>5. TypeOK'
    BY <2>1, <2>2, <2>3, <2>4, PublishAssumption DEF TypeOK, Object
  <2>6. HandlesEvent' /\ HandlesMessage'
    BY <2>1, <2>2, <2>3, <2>4 DEF HandlesEvent, HandlesMessage, TypeOK
  <2>7. CountFits' /\ OnlyMade'
    BY <2>1, <2>2, <2>4 DEF CountFits, OnlyMade, TypeOK, Object, Nil
  <2>8. ConnectedMatches'
    BY <1>1, <2>1, <2>2, <2>4 DEF ConnectedMatches, TypeOK, NewRunningDev
  <2> QED BY <2>5, <2>6, <2>7, <2>8
<1>2. CASE CloseDevice
  <2>1. event \in Events /\ event.uuid \in Phone
    BY <1>2 DEF CloseDevice, HandlesEvent
  <2>2. TypeOK'
    BY <1>2, <2>1 DEF CloseDevice, TypeOK
  <2>3. HandlesEvent' /\ HandlesMessage' /\ CountFits' /\ OnlyMade'
    BY <1>2, <2>1 DEF CloseDevice, TypeOK, HandlesEvent, HandlesMessage, CountFits, OnlyMade, Object, Nil
  <2>4. ConnectedMatches'
    BY <1>2, <2>1 DEF CloseDevice, TypeOK, ConnectedMatches
  <2> QED BY <2>2, <2>3, <2>4
<1>3. CASE TellGone
  <2>1. event \in Events /\ event.uuid \in Phone
    BY <1>3 DEF TellGone, HandlesEvent
  <2>2. TypeOK'
    BY <1>3, <2>1 DEF TellGone, PublishGone, TypeOK
  <2>3. HandlesEvent' /\ HandlesMessage' /\ CountFits' /\ OnlyMade'
    BY <1>3 DEF TellGone, HandlesEvent, HandlesMessage, CountFits, OnlyMade
  <2>4. ConnectedMatches'
    BY <1>3, <2>1 DEF TellGone, PublishGone, TypeOK, ConnectedMatches
  <2> QED BY <2>2, <2>3, <2>4
<1>4. CASE TellConnected \/ TellPresent
  <2>1. event \in Events /\ event.uuid \in Phone /\ running[event.uuid] \in Object
    BY <1>4 DEF TellConnected, TellPresent, HandlesEvent, TypeOK
  <2>2. /\ lpc \in {"connected", "present"} /\ lpc' \in {"present", "beat"}
        /\ UNCHANGED <<plugged, running, made, uuid, event, queue, dead, hb, count, ppc,
                       msg, devd, wrapper, line>>
        /\ \E what \in {"connected", "present"} :
              PublishObject(event.uuid, what, running[event.uuid])
    BY <1>4 DEF TellConnected, TellPresent
  <2>3. /\ view' \in [Phone -> {"unknown", "gone", "connected", "present", "beating"}]
        /\ about' \in [Phone -> Object \cup {Nil}]
        /\ late' \subseteq Phone
        /\ ConnectedMatches'
    BY <2>1, <2>2, PublishFits
  <2>4. TypeOK'
    BY <2>2, <2>3 DEF TypeOK
  <2>5. HandlesEvent' /\ HandlesMessage' /\ CountFits' /\ OnlyMade'
    BY <2>2 DEF HandlesEvent, HandlesMessage, CountFits, OnlyMade
  <2> QED BY <2>3, <2>4, <2>5
<1>5. CASE StartHeartbeat
  <2>1. event \in Events /\ event.uuid \in Phone /\ running[event.uuid] \in Object
    BY <1>5 DEF StartHeartbeat, HandlesEvent, TypeOK
  <2>2. /\ lpc = "beat" /\ lpc' = "select" /\ event' = NoEvent
        /\ UNCHANGED <<plugged, running, made, uuid, queue, ppc, msg, devd, wrapper, line,
                       view, about, late>>
    BY <1>5 DEF StartHeartbeat
  <2>3. /\ dead' \in BOOLEAN
        /\ \/ UNCHANGED <<hb, count>>
           \/ /\ hb' = [hb EXCEPT ![running[event.uuid]] = "poll"]
              /\ count' = [count EXCEPT ![running[event.uuid]] = 1]
    BY <1>5 DEF StartHeartbeat, TypeOK
  <2>4. TypeOK'
    BY <2>1, <2>2, <2>3 DEF TypeOK
  <2>5. HandlesEvent' /\ HandlesMessage' /\ OnlyMade' /\ ConnectedMatches'
    BY <2>2 DEF HandlesEvent, HandlesMessage, OnlyMade, ConnectedMatches
  <2>6. CountFits'
    BY <2>1, <2>2, <2>3 DEF CountFits, OnlyMade, TypeOK
  <2> QED BY <2>4, <2>5, <2>6
<1>6. CASE ivp_enable
  BY <1>6 DEF ivp_enable, TypeOK, HandlesEvent, HandlesMessage, CountFits, OnlyMade, ConnectedMatches
<1> QED BY <1>1, <1>2, <1>3, <1>4, <1>5, <1>6 DEF Loop, LoopRuns

(* The steps of a heartbeat.                                               *)
LEMMA HeartbeatTold == ASSUME IInv, NEW o \in Object, Heartbeat(o) PROVE ToldFits'
<1> USE DEF IInv, ToldFits, loop, beats, pull, wraps, told
<1>0. UNCHANGED <<plugged, running, made, uuid, lpc, event, queue, wrapper, line,
                  about, late, dead>>
  BY DEF Heartbeat, Poll, Beat, Sleep
<1>1. HandlesEvent' /\ OnlyMade'
  BY <1>0 DEF HandlesEvent, OnlyMade
<1>2. CASE Poll(o)
  BY <1>0, <1>1, <1>2, PublishAssumption
     DEF Poll, TypeOK, HandlesMessage, CountFits, ConnectedMatches, Object, Nil
<1>3. CASE Beat(o)
  <2>1. uuid[o] \in Phone
    BY <1>3 DEF Beat, BeatFits, MadeFor
  <2>2. TypeOK'
    BY <1>0, <1>3, <2>1 DEF Beat, TypeOK
  <2>3. HandlesMessage' /\ CountFits'
    BY <1>3 DEF Beat, TypeOK, HandlesMessage, CountFits
  <2>4. ConnectedMatches'
    BY <1>0, <1>3, <2>1 DEF Beat, TypeOK, ConnectedMatches
  <2> QED BY <1>1, <2>2, <2>3, <2>4
<1>4. CASE Sleep(o)
  BY <1>0, <1>1, <1>4 DEF Sleep, TypeOK, HandlesMessage, CountFits, ConnectedMatches
<1> QED BY <1>2, <1>3, <1>4 DEF Heartbeat

(* The steps of the pull goroutine.                                        *)
LEMMA PullTold == IInv /\ Pull => ToldFits'
<1> SUFFICES ASSUME IInv, Pull PROVE ToldFits'
  OBVIOUS
<1> USE MessageFields DEF IInv, ToldFits, loop, beats, pull, wraps, told
<1>1. CASE Read
  <2>1. /\ Head(queue) \in Messages /\ Head(queue).uuid \in Phone
        /\ queue' \in Seq(Messages) /\ Len(queue') <= MaxQueue
    BY <1>1, PublishAssumption DEF Read, TypeOK
  <2>2. UNCHANGED <<plugged, running, made, uuid, lpc, event, hb, count, wrapper, line,
                    view, about, late, dead>>
    BY <1>1 DEF Read
  <2>3. /\ ppc' \in {"read", "post", "connected", "stop"}
        /\ ppc' # "read" => msg' \in Messages
        /\ msg' \in Messages \cup {NoMessage}
        /\ devd' \in Object \cup {Nil}
        /\ ppc' = "connected" => devd' \in Object
    BY <1>1, <2>1 DEF Read, TypeOK
  <2>4. TypeOK'
    BY <2>1, <2>2, <2>3 DEF TypeOK
  <2>5. HandlesEvent' /\ HandlesMessage' /\ CountFits' /\ OnlyMade' /\ ConnectedMatches'
    BY <2>2, <2>3 DEF HandlesEvent, HandlesMessage, CountFits, OnlyMade, ConnectedMatches
  <2> QED BY <2>4, <2>5
<1>2. CASE Post
  <2>1. msg \in Messages /\ msg.uuid \in Phone
    BY <1>2 DEF Post, HandlesMessage
  <2>2. /\ UNCHANGED <<plugged, devd, queue, dead, hb, count, wrapper, line, view,
                       about, late>>
        /\ \E a \in {"connect", "disconnect", "frame", "wda"} : Receive(a, msg.uuid)
        /\ \/ ppc' = "lookup" /\ UNCHANGED msg
           \/ ppc' = "read" /\ msg' = NoMessage
    BY <1>2 DEF Post
  <2>3. UNCHANGED <<running, made, uuid>>
    BY <2>2 DEF Receive
  <2>4. /\ lpc' \in {"select", "create", "close", "connected"}
        /\ event' \in Events \cup {NoEvent}
        /\ HandlesEvent'
        /\ ConnectedMatches'
    BY <2>1, <2>2, ReceiveFits
  <2>5. TypeOK'
    BY <2>1, <2>2, <2>3, <2>4 DEF TypeOK
  <2>6. HandlesMessage' /\ CountFits' /\ OnlyMade'
    BY <2>1, <2>2, <2>3 DEF HandlesMessage, CountFits, OnlyMade
  <2> QED BY <2>4, <2>5, <2>6
<1>3. CASE Lookup
  <2>1. msg \in Messages /\ msg.uuid \in Phone
    BY <1>3 DEF Lookup, HandlesMessage
  <2>0. running[msg.uuid] \in Object \cup {Nil}
    BY <2>1 DEF TypeOK
  <2>2. /\ UNCHANGED <<plugged, running, made, uuid, lpc, event, queue, hb, count, wrapper,
                       line, view, about, late>>
        /\ dead' = dead \/ dead' = TRUE
        /\ \/ UNCHANGED <<ppc, msg, devd>>
           \/ ppc' = "connected" /\ msg' = msg /\ devd' \in Object
    BY <1>3, <2>0 DEF Lookup
  <2>3. TypeOK'
    BY <2>2 DEF TypeOK
  <2>4. HandlesEvent' /\ HandlesMessage' /\ CountFits' /\ OnlyMade' /\ ConnectedMatches'
    BY <2>1, <2>2 DEF HandlesEvent, HandlesMessage, CountFits, OnlyMade, ConnectedMatches
  <2> QED BY <2>3, <2>4
<1>4. CASE PullConnected \/ PullPresent
  <2>1. msg \in Messages /\ msg.uuid \in Phone /\ devd \in Object
    BY <1>4 DEF PullConnected, PullPresent, HandlesMessage
  <2>2. /\ UNCHANGED <<plugged, running, made, uuid, lpc, event, queue, dead, hb, count,
                       wrapper, line>>
        /\ \E what \in {"connected", "present"} : PublishObject(msg.uuid, what, devd)
        /\ \/ ppc' = "present" /\ UNCHANGED <<msg, devd>>
           \/ ppc' = "read" /\ msg' = NoMessage /\ devd' = Nil
    BY <1>4 DEF PullConnected, PullPresent
  <2>3. /\ view' \in [Phone -> {"unknown", "gone", "connected", "present", "beating"}]
        /\ about' \in [Phone -> Object \cup {Nil}]
        /\ late' \subseteq Phone
        /\ ConnectedMatches'
    BY <2>1, <2>2, PublishFits
  <2>4. TypeOK'
    BY <2>1, <2>2, <2>3 DEF TypeOK
  <2>5. HandlesEvent' /\ HandlesMessage' /\ CountFits' /\ OnlyMade'
    BY <2>1, <2>2 DEF HandlesEvent, HandlesMessage, CountFits, OnlyMade
  <2> QED BY <2>3, <2>4, <2>5
<1> QED BY <1>1, <1>2, <1>3, <1>4 DEF Pull

(* What phones and wrappers do.                                            *)
LEMMA InputTold ==
  ASSUME IInv, NEW u \in Phone,
         \/ Trigger(u) \/ WdaStarted(u) \/ WrapperStarts(u) \/ WrapperEnds(u)
         \/ WrapperLine(u) \/ WrapperSays(u) \/ MirrorFeed(u)
  PROVE  ToldFits'
<1> USE DEF IInv, ToldFits, loop, beats, pull, wraps, told
<1>1. CASE Trigger(u) \/ WdaStarted(u)
  <2>1. /\ UNCHANGED <<queue, dead, hb, count, ppc, msg, devd, wrapper, line, view,
                       about, late>>
        /\ plugged' \subseteq Phone
        /\ \E a \in {"connect", "disconnect", "frame", "wda"} : Receive(a, u)
    BY <1>1 DEF Trigger, WdaStarted, TypeOK
  <2>2. UNCHANGED <<running, made, uuid>>
    BY <2>1 DEF Receive
  <2>3. /\ lpc' \in {"select", "create", "close", "connected"}
        /\ event' \in Events \cup {NoEvent}
        /\ HandlesEvent'
        /\ ConnectedMatches'
    BY <2>1, ReceiveFits
  <2>4. TypeOK'
    BY <2>1, <2>2, <2>3 DEF TypeOK
  <2>5. HandlesMessage' /\ CountFits' /\ OnlyMade'
    BY <2>1, <2>2 DEF HandlesMessage, CountFits, OnlyMade
  <2> QED BY <2>3, <2>4, <2>5
<1>2. CASE \/ WrapperStarts(u) \/ WrapperEnds(u) \/ WrapperLine(u)
           \/ WrapperSays(u) \/ MirrorFeed(u)
  <2>1. UNCHANGED <<plugged, running, made, uuid, lpc, event, hb, count, ppc, msg, devd,
                    view, about, late, dead>>
    BY <1>2 DEF WrapperStarts, WrapperEnds, WrapperLine, WrapperSays, MirrorFeed
  <2>2. wrapper' \subseteq Phone /\ line' \subseteq Phone
    BY <1>2 DEF WrapperStarts, WrapperEnds, WrapperLine, WrapperSays, MirrorFeed, TypeOK
  <2>3. queue' = queue \/ \E m \in Messages : Len(queue) < MaxQueue /\ queue' = Append(queue, m)
    BY <1>2 DEF WrapperStarts, WrapperEnds, WrapperLine, WrapperSays, MirrorFeed, Push, Messages
  <2>4. queue' \in Seq(Messages) /\ Len(queue') <= MaxQueue
    <3>1. queue \in Seq(Messages) /\ Len(queue) <= MaxQueue
      BY DEF TypeOK
    <3>2. ASSUME NEW m \in Messages, Len(queue) < MaxQueue, queue' = Append(queue, m)
          PROVE  queue' \in Seq(Messages) /\ Len(queue') <= MaxQueue
      <4>1. Append(queue, m) \in Seq(Messages) /\ Len(Append(queue, m)) = Len(queue) + 1
        BY <3>1
      <4>2. Len(queue) \in Nat
        BY <3>1
      <4> HIDE DEF IInv, ToldFits
      <4> QED BY <3>2, <4>1, <4>2, PublishAssumption
    <3> QED BY <2>3, <3>1, <3>2
  <2>5. TypeOK'
    BY <2>1, <2>2, <2>4 DEF TypeOK
  <2>6. HandlesEvent' /\ HandlesMessage' /\ CountFits' /\ OnlyMade' /\ ConnectedMatches'
    BY <2>1 DEF HandlesEvent, HandlesMessage, CountFits, OnlyMade, ConnectedMatches
  <2> QED BY <2>5, <2>6
<1> QED BY <1>1, <1>2

(* Heartbeats and what they say of a phone; first, the loop.               *)
LEMMA LoopBeat == IInv /\ Loop => BeatFits'
<1> SUFFICES ASSUME IInv, Loop PROVE BeatFits'
  OBVIOUS
<1> USE EventFields DEF IInv, ToldFits, BeatFits, beats, pull, wraps, told
<1>0. lpc # "select" => event.uuid \in Phone
  BY DEF HandlesEvent
<1>1. CASE NewRunningDev
  <2>1. /\ event.uuid \in Phone /\ running[event.uuid] = Nil
        /\ made' \in Object /\ made' # Nil
        /\ \A o \in Object : hb[o] # "none" => o # made'
        /\ \A u \in Phone : running[u] # made'
    BY <1>0, <1>1, PublishAssumption
       DEF NewRunningDev, HandlesEvent, CountFits, OnlyMade, TypeOK, Object, Nil
  <2>2. /\ running' = [running EXCEPT ![event.uuid] = made']
        /\ uuid' = [uuid EXCEPT ![made'] = event.uuid]
        /\ UNCHANGED <<hb, view>>
        /\ lpc' \notin {"beat", "gone"}
    BY <1>1 DEF NewRunningDev, HandlesEvent, Handler
  <2>3. MadeFor'
    BY <2>1, <2>2 DEF MadeFor, TypeOK
  <2>4. Heard'
    BY <2>1, <2>2 DEF Heard, TypeOK
  <2>5. BeatingMatches'
    BY <2>1, <2>2 DEF BeatingMatches, TypeOK
  <2> QED BY <2>3, <2>4, <2>5
<1>2. CASE CloseDevice
  <2>1. /\ running' = [running EXCEPT ![event.uuid] = Nil] /\ event.uuid \in Phone
        /\ UNCHANGED <<hb, view, uuid, event>> /\ lpc' = "gone"
    BY <1>0, <1>2 DEF CloseDevice
  <2>2. MadeFor' /\ Heard'
    BY <2>1 DEF MadeFor, Heard, TypeOK
  <2>3. BeatingMatches'
    BY <2>1 DEF BeatingMatches, TypeOK, Object, Nil
  <2> QED BY <2>2, <2>3
<1>3. CASE TellGone
  BY <1>0, <1>3 DEF TellGone, PublishGone, TypeOK, MadeFor, Heard, BeatingMatches
<1>4. CASE TellConnected \/ TellPresent
  <2>1. /\ event.uuid \in Phone /\ UNCHANGED <<hb, uuid, running, event>>
        /\ lpc' \in {"present", "beat"}
        /\ \/ view' = [view EXCEPT ![event.uuid] = "connected"]
           \/ view' = [view EXCEPT ![event.uuid] = "present"]
    BY <1>0, <1>4 DEF TellConnected, TellPresent, PublishObject
  <2> QED BY <2>1 DEF TypeOK, MadeFor, Heard, BeatingMatches
<1>5. CASE StartHeartbeat
  <2>1. /\ event.uuid \in Phone /\ running[event.uuid] \in Object
        /\ view[event.uuid] \in {"connected", "present"}
        /\ uuid[running[event.uuid]] = event.uuid
    BY <1>0, <1>5 DEF StartHeartbeat, HandlesEvent, Heard, MadeFor, TypeOK
  <2>2. /\ UNCHANGED <<view, uuid, running>> /\ lpc' = "select"
        /\ hb' = hb \/ hb' = [hb EXCEPT ![running[event.uuid]] = "poll"]
    BY <1>5 DEF StartHeartbeat
  <2>3. MadeFor'
    BY <2>1, <2>2 DEF MadeFor, TypeOK
  <2>4. Heard'
    <3>1. ASSUME NEW u \in Phone, running'[u] # Nil, hb'[running'[u]] # "none"
          PROVE  view'[u] \in {"connected", "present"}
      <4>1. CASE running[u] = running[event.uuid]
        BY <2>1, <2>2, <3>1, <4>1 DEF MadeFor
      <4>2. CASE running[u] # running[event.uuid]
        BY <2>1, <2>2, <3>1, <4>2 DEF Heard, TypeOK
      <4> QED BY <4>1, <4>2
    <3> QED BY <2>2, <3>1 DEF Heard
  <2>5. BeatingMatches'
    BY <2>1, <2>2 DEF BeatingMatches, TypeOK
  <2> QED BY <2>3, <2>4, <2>5
<1>6. CASE ivp_enable
  BY <1>6 DEF ivp_enable, MadeFor, Heard, BeatingMatches
<1> QED BY <1>1, <1>2, <1>3, <1>4, <1>5, <1>6 DEF Loop, LoopRuns

(* A heartbeat announces its phone: if that is not known to STF already,   *)
(* the phone has another object by now, or none.                           *)
LEMMA HeartbeatBeat == ASSUME IInv, NEW o \in Object, Heartbeat(o) PROVE BeatFits'
<1> USE DEF IInv, ToldFits, BeatFits, loop, pull, wraps, told
<1>0. /\ UNCHANGED <<running, uuid, lpc, event>> /\ hb[o] # "none" /\ uuid[o] \in Phone
      /\ \A p \in Object : hb'[p] # "none" <=> hb[p] # "none"
  BY DEF Heartbeat, Poll, Beat, Sleep, MadeFor, TypeOK
<1>1. MadeFor'
  BY <1>0 DEF MadeFor
<1>2. CASE view' = view
  <2>1. Heard'
    BY <1>0, <1>2 DEF Heard, TypeOK
  <2>2. BeatingMatches'
    BY <1>0, <1>2 DEF BeatingMatches
  <2> QED BY <1>1, <2>1, <2>2
<1>3. CASE view' # view
  <2>1. /\ view[uuid[o]] \notin {"connected", "present"}
        /\ view' = [view EXCEPT ![uuid[o]] = "beating"]
    BY <1>3 DEF Heartbeat, Poll, Beat, Sleep
  <2>2. running[uuid[o]] # o
    BY <1>0, <2>1 DEF Heard, Object, Nil
  <2>3. Heard'
    BY <1>0, <2>1 DEF Heard, TypeOK
  <2>4. BeatingMatches'
    BY <1>0, <2>1, <2>2 DEF BeatingMatches, TypeOK
  <2> QED BY <1>1, <2>3, <2>4
<1> QED BY <1>2, <1>3

(* The others start no heartbeat, and say nothing of a phone but that it   *)
(* is connected.                                                           *)
LEMMA OtherBeat ==
  ASSUME IInv,
         \/ Pull
         \/ \E u \in Phone : \/ Trigger(u) \/ WdaStarted(u) \/ WrapperStarts(u) \/ WrapperEnds(u)
                            \/ WrapperLine(u) \/ WrapperSays(u) \/ MirrorFeed(u)
  PROVE  BeatFits'
<1> USE DEF IInv, ToldFits, BeatFits, loop, beats, pull, wraps, told
<1>1. UNCHANGED <<running, uuid, hb>>
  BY DEF Pull, Read, Post, Lookup, PullConnected, PullPresent, Trigger, WdaStarted, Receive,
         WrapperStarts, WrapperEnds, WrapperLine, WrapperSays, MirrorFeed
<1>2. (lpc' = lpc /\ event' = event) \/ lpc' \notin {"beat", "gone"}
  BY DEF Pull, Read, Post, Lookup, PullConnected, PullPresent, Trigger, WdaStarted, Receive, Handler,
         WrapperStarts, WrapperEnds, WrapperLine, WrapperSays, MirrorFeed
<1>3. \/ view' = view
      \/ view' = [view EXCEPT ![msg.uuid] = "connected"]
      \/ view' = [view EXCEPT ![msg.uuid] = "present"]
  BY DEF Pull, Read, Post, Lookup, PullConnected, PullPresent, PublishObject, Trigger, WdaStarted,
         WrapperStarts, WrapperEnds, WrapperLine, WrapperSays, MirrorFeed
<1>4. \A u \in Phone : /\ view[u] \in {"connected", "present"} => view'[u] \in {"connected", "present"}
                       /\ view'[u] = "beating" => view[u] = "beating"
  BY <1>3 DEF TypeOK
<1>5. MadeFor' /\ BeatingMatches'
  BY <1>1, <1>4 DEF MadeFor, BeatingMatches
<1>6. Heard'
  <2>1. lpc \in {"beat", "gone"} => event.uuid \in Phone
    BY EventFields DEF HandlesEvent
  <2> QED BY <1>1, <1>2, <1>4, <2>1 DEF Heard
<1> QED BY <1>5, <1>6

(* Every step keeps the invariant.                                         *)
LEMMA NextIInv == IInv /\ [Next]_vars => IInv'
<1>1. ASSUME IInv, UNCHANGED vars PROVE IInv'
  BY <1>1 DEF vars, IInv, ToldFits, BeatFits, TypeOK, HandlesEvent, HandlesMessage, CountFits, OnlyMade,
              ConnectedMatches, MadeFor, Heard, BeatingMatches
<1>2. ASSUME IInv, Next PROVE IInv'
  BY <1>2, LoopTold, HeartbeatTold, PullTold, InputTold, LoopBeat, HeartbeatBeat, OtherBeat
     DEF Next, IInv
<1> QED BY <1>1, <1>2

(* The invariant holds in every state of every behaviour.                  *)
THEOREM Invariance == Spec => []IInv
<1>1. Init /\ [][Next]_vars => []IInv
  BY InitIInv, NextIInv, PTL
<1> QED BY <1>1, PTL DEF Spec

(* The state of the coordinator, of the wrappers and of STF's view keeps   *)
(* its types: a message has a device where it is used, a count never       *)
(* passes 2.                                                               *)
THEOREM TypeCorrect == Spec => []TypeOK
<1>1. IInv => TypeOK
  BY DEF IInv, ToldFits
<1> QED BY <1>1, Invariance, PTL

(* STF takes a phone for there only if the coordinator runs it, with the   *)
(* ports STF knows, but for the message on its way, for what the pull      *)
(* goroutine said too late (zmq.go:208-270), and for the heartbeats of     *)
(* objects that are not the phone's any more (heartbeat.go:14-40).         *)
THEOREM ViewsMatch == Spec => []ViewMatches
<1>1. IInv => ViewMatches
  BY DEF IInv, ToldFits, BeatFits, ViewMatches
<1> QED BY <1>1, Invariance, PTL

(* An orphan is never made the object of a phone again, and the pull       *)
(* goroutine finds no way to its channel.                                  *)
LEMMA OrphanStays ==
  ASSUME IInv, [Next]_vars, NEW o \in Object, Orphan(o)
  PROVE  Orphan(o)'
<1> USE DEF loop, beats, pull, wraps, told, IInv, ToldFits
<1>0. o # Nil /\ o <= made
  BY DEF Orphan, CountFits, Object, Nil
<1>1. CASE UNCHANGED vars
  BY <1>1 DEF vars, Orphan, Stopped
<1>2. ASSUME NEW u \in Phone, Trigger(u) \/ WdaStarted(u) PROVE Orphan(o)'
  BY <1>2 DEF Trigger, WdaStarted, Receive, Orphan, Stopped
<1>3. ASSUME NEW u \in Phone,
             \/ WrapperStarts(u) \/ WrapperEnds(u) \/ WrapperLine(u)
             \/ WrapperSays(u) \/ MirrorFeed(u)
      PROVE  Orphan(o)'
  BY <1>3 DEF WrapperStarts, WrapperEnds, WrapperLine, WrapperSays, MirrorFeed,
              Orphan, Stopped
<1>4. CASE Loop
  <2>1. CASE NewRunningDev
    <3>1. made' # o /\ running' = [running EXCEPT ![event.uuid] = made'] /\ UNCHANGED <<hb, ppc, devd>>
      BY <1>0, <2>1, PublishAssumption DEF NewRunningDev, TypeOK, Object
    <3> QED BY <3>1 DEF Orphan, Stopped, TypeOK
  <2>2. CASE CloseDevice
    BY <1>0, <2>2 DEF CloseDevice, Orphan, Stopped, TypeOK
  <2>3. CASE TellGone \/ TellConnected \/ TellPresent
    BY <2>3 DEF TellGone, TellConnected, TellPresent, Orphan, Stopped
  <2>4. CASE StartHeartbeat
    <3>1. event.uuid \in Phone /\ UNCHANGED <<running, ppc, devd>>
      BY <2>4, EventFields DEF StartHeartbeat, HandlesEvent
    <3>2. hb' = hb \/ hb' = [hb EXCEPT ![running[event.uuid]] = "poll"]
      BY <2>4 DEF StartHeartbeat
    <3>3. running[event.uuid] # o
      BY <3>1 DEF Orphan
    <3> QED BY <3>1, <3>2, <3>3 DEF Orphan, Stopped, TypeOK
  <2>5. CASE ivp_enable
    BY <2>5 DEF ivp_enable, Orphan, Stopped
  <2> QED BY <1>4, <2>1, <2>2, <2>3, <2>4, <2>5 DEF Loop, LoopRuns
<1>5. ASSUME NEW p \in Object, Heartbeat(p) PROVE Orphan(o)'
  <2>1. UNCHANGED running
    BY <1>5 DEF Heartbeat, Poll, Beat, Sleep
  <2>2. hb'[o] \in {"poll", "beat", "sleep"}
    BY <1>5 DEF Heartbeat, Poll, Beat, Sleep, Orphan, Stopped, TypeOK
  <2>3. ~Stopped(o)'
    BY <1>0, <1>5 DEF Heartbeat, Poll, Beat, Sleep, Orphan, Stopped
  <2> QED BY <2>1, <2>2, <2>3 DEF Orphan
<1>6. CASE Pull
  <2>1. UNCHANGED <<running, hb>>
    BY <1>6 DEF Pull, Read, Post, Receive, Lookup, PullConnected, PullPresent
  <2>2. CASE Read
    <3>1. Head(queue).uuid \in Phone
      BY <2>2, MessageFields DEF Read, TypeOK
    <3>2. ppc' = "stop" => devd' \in {Nil, running[Head(queue).uuid]}
      BY <2>2 DEF Read
    <3>3. ~Stopped(o)'
      BY <1>0, <3>1, <3>2 DEF Stopped, Orphan
    <3> QED BY <2>1, <3>3 DEF Orphan
  <2>3. CASE Post \/ Lookup \/ PullConnected \/ PullPresent
    <3>1. ppc' # "stop"
      BY <2>3 DEF Post, Lookup, PullConnected, PullPresent
    <3> QED BY <2>1, <3>1 DEF Orphan, Stopped
  <2> QED BY <1>6, <2>2, <2>3 DEF Pull
<1> QED BY <1>1, <1>2, <1>3, <1>4, <1>5, <1>6 DEF Next

(* The heartbeat of an object that was closed beats for good: a phone that *)
(* is gone goes on being announced, whatever the wrappers say              *)
(* (coordinator.go:673-696, zmq.go:288-296).                               *)
THEOREM OrphansBeat == Spec => OrphansBeatForGood
<1>1. IInv /\ [Next]_vars => [\A o \in Object : Orphan(o) => Orphan(o)']_vars
  BY OrphanStays
<1> QED BY <1>1, Invariance, PTL DEF Spec, OrphansBeatForGood

(* A pull goroutine that sends to a heartbeat which is not there never     *)
(* reads a message again (zmq.go:296).                                     *)
THEOREM StuckIsFinal == Spec => StuckForGood
<1> USE DEF loop, beats, pull, wraps, told
<1>1. ASSUME IInv, Next, PullStuck PROVE PullStuck'
  <2>0. ppc = "stop" /\ (devd = Nil \/ hb[devd] = "ended") /\ devd \in Object \cup {Nil}
    BY <1>1 DEF PullStuck, IInv, ToldFits, TypeOK
  <2>1. CASE Loop
    <3>1. UNCHANGED <<ppc, devd>>
      BY <2>1 DEF Loop, LoopRuns, ivp_enable, NewRunningDev, CloseDevice, TellGone, TellConnected, TellPresent, StartHeartbeat
    <3>2. devd # Nil => hb'[devd] = "ended"
      BY <1>1, <2>0, <2>1 DEF IInv, ToldFits, TypeOK, Loop, LoopRuns, ivp_enable, NewRunningDev, CloseDevice, TellGone, TellConnected, TellPresent, StartHeartbeat
    <3> QED BY <2>0, <3>1, <3>2 DEF PullStuck
  <2>2. ASSUME NEW o \in Object, Heartbeat(o) PROVE PullStuck'
    <3>1. UNCHANGED <<ppc, devd>>
      BY <2>0, <2>2 DEF Heartbeat, Poll, Beat, Sleep, Stopped, Object, Nil
    <3>2. devd # Nil => hb'[devd] = "ended"
      BY <1>1, <2>0, <2>2 DEF IInv, ToldFits, TypeOK, Heartbeat, Poll, Beat, Sleep
    <3> QED BY <2>0, <3>1, <3>2 DEF PullStuck
  <2>3. ~Pull
    BY <2>0 DEF Pull, Read, Post, Lookup, PullConnected, PullPresent
  <2>4. ASSUME NEW u \in Phone,
               \/ Trigger(u) \/ WdaStarted(u) \/ WrapperStarts(u) \/ WrapperEnds(u)
               \/ WrapperLine(u) \/ WrapperSays(u) \/ MirrorFeed(u)
        PROVE  PullStuck'
    BY <2>0, <2>4 DEF PullStuck, Trigger, WdaStarted, Receive, WrapperStarts, WrapperEnds,
                      WrapperLine, WrapperSays, MirrorFeed
  <2> QED BY <1>1, <2>1, <2>2, <2>3, <2>4 DEF Next
<1>2. IInv /\ [Next]_vars => [PullStuck => PullStuck']_vars
  BY <1>1
<1> QED BY <1>2, Invariance, PTL DEF Spec, StuckForGood
=============================================================================
