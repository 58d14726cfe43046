---------------------------- MODULE DevLoopProofs ----------------------------
(***************************************************************************)
(* Proofs about the device event loop, for any number of phones, device    *)
(* objects and waiting requests.                                           *)
(***************************************************************************)
EXTENDS DevLoop, TLAPS

(* The object whose event the loop handles is that of a device it knows,   *)
(* until the device is forgotten.                                          *)
CurFits ==
    /\ lpc = "select" => cur = 0
    /\ lpc # "select" => cur \in Made /\ Registered(cur)

(* Objects are numbered as they are made, so that the one a device has now *)
(* is the newest that it ever had.                                         *)
ObjectsFit ==
    /\ \A d \in Device : Known(d) => /\ runningDevs[d] \in Made
                                     /\ devd[runningDevs[d]].uuid = d
    /\ \A d \in Device, o \in Made :
          Known(d) /\ devd[o].uuid = d => o <= runningDevs[d]
    /\ \A o \in Object : o \notin Made => proxy[o] = "none" /\ periodic[o] = "none"

(* A wdaproxy is started once, and a supervisor that took a Kill is not    *)
(* back before its next run.                                               *)
ProxyFits ==
    \A o \in Object :
        /\ ~devd[o].wdaStarted => proxy[o] = "none"
        /\ stopped[o] => proxy[o] \in {"up", "busy", "closing", "ending", "gone"}

(* The supervisors that wait in the queue are busy, each with one event.   *)
QueueFits ==
    /\ \A i \in 1..Len(sendq) : sendq[i].src # 0 => proxy[sendq[i].src] = "busy"
    /\ \A i, j \in 1..Len(sendq) : sendq[i].src = sendq[j].src /\ i # j => sendq[i].src = 0

(* An object that is given up has no wdaproxy any more, or one that was    *)
(* told to stop, or whose Kill was dropped.                                *)
GivenUp(o) == stopped[o] \/ o \in missed \/ proxy[o] \in {"none", "gone"}
ClosedGivenUp ==
    /\ \A o \in Object : Closed(o) => GivenUp(o)
    /\ lpc = "delete" => GivenUp(cur)

(* What the waiting events and the loop will make of a phone: the last of  *)
(* its connects and disconnects says whether it is plugged in; when none   *)
(* waits, the loop has drawn the consequence or is about to.               *)
Waits(act, d, i) == sendq[i].action = act /\ sendq[i].uuid = d
Idle == {"select", "enable", "askwda"}
Closing(d) == lpc \notin Idle /\ devd[cur].uuid = d
PluggedFits(d) ==
    \/ \E i \in 1..Len(sendq) :
          /\ Waits("connect", d, i)
          /\ \A j \in 1..Len(sendq) : j > i => ~Waits("disconnect", d, j)
    \/ /\ \A j \in 1..Len(sendq) : ~Waits("disconnect", d, j)
       /\ Known(d) /\ ~Closing(d)
UnpluggedFits(d) ==
    /\ \A i \in 1..Len(sendq) : Waits("connect", d, i) =>
          \E j \in 1..Len(sendq) : j > i /\ Waits("disconnect", d, j)
    /\ Known(d) /\ origin[runningDevs[d]] = "connect" =>
          Closing(d) \/ \E j \in 1..Len(sendq) : Waits("disconnect", d, j)
ViewFits ==
    \A d \in Device : /\ IF d \in plugged THEN PluggedFits(d) ELSE UnpluggedFits(d)
                      /\ told[d] = "connected" => Known(d)

IInv == /\ TypeOK /\ CurFits /\ ObjectsFit /\ ProxyFits /\ QueueFits
        /\ PeriodicEndsFirst /\ ClosedGivenUp /\ ViewFits
-----------------------------------------------------------------------------
(* The records that TypeOK speaks of.                                      *)
Event == [action : Action, uuid : Device, src : {0} \cup Object]
DevFields == [uuid : Device, okVidInterface : BOOLEAN, okFirstFrame : BOOLEAN,
              wdaStarted : BOOLEAN, devUnitStarted : BOOLEAN, wda : BOOLEAN,
              heartbeats : 0..1]

(* A new object has the fields of one.                                     *)
LEMMA NewDevFields ==
    ASSUME NEW d \in Device
    PROVE  NewDev(d) \in DevFields /\ NewDev(d).uuid = d /\ ~NewDev(d).wdaStarted
  BY DEF NewDev, DevFields

(* Receiving an event takes the oldest one from the queue.                 *)
LEMMA QueueTail ==
    ASSUME NEW S, NEW q \in Seq(S), q # <<>>
    PROVE  /\ Tail(q) \in Seq(S) /\ Len(q) \in Nat \ {0} /\ Len(Tail(q)) = Len(q) - 1
           /\ Head(q) = q[1] /\ Head(q) \in S
           /\ \A i \in 1..Len(Tail(q)) : i + 1 \in 1..Len(q) /\ Tail(q)[i] = q[i + 1]
  OBVIOUS

(* Posting an event puts it behind the others.                             *)
LEMMA QueueAppend ==
    ASSUME NEW S, NEW q \in Seq(S), NEW e \in S
    PROVE  /\ Append(q, e) \in Seq(S) /\ Len(q) \in Nat /\ Len(Append(q, e)) = Len(q) + 1
           /\ Append(q, e)[Len(q) + 1] = e
           /\ \A i \in 1..Len(q) : Append(q, e)[i] = q[i]
  OBVIOUS
-----------------------------------------------------------------------------
(* What every handler of the loop does: it takes the event e, finds or     *)
(* makes the object o of its phone, lets a waiting supervisor go on, and   *)
(* may start the wdaproxy of an object that has none.                      *)
HandlesHead(e, o) ==
    /\ ~dead /\ lpc = "select" /\ sendq # <<>> /\ e = Head(sendq) /\ e \in Event
    /\ sendq' = Tail(sendq)
    /\ o \in Object
    /\ used' \in 0..MaxObj /\ o <= used'
    /\ \/ Known(e.uuid) /\ o = runningDevs[e.uuid] /\ used' = used /\ UNCHANGED <<periodic, origin>>
       \/ /\ ~Known(e.uuid) /\ o = used + 1 /\ used' = o
          /\ periodic' = [periodic EXCEPT ![o] = "sleep"]
          /\ origin' = [origin EXCEPT ![o] = e.action]
    /\ runningDevs' = [runningDevs EXCEPT ![e.uuid] = o]
    /\ devd' = [devd EXCEPT ![o] = devd'[o]]
    /\ devd'[o] \in DevFields /\ devd'[o].uuid = e.uuid
    /\ Known(e.uuid) /\ devd[o].wdaStarted => devd'[o].wdaStarted
    /\ proxy' \in [Object -> {"none", "down", "starting", "up", "busy",
                              "closing", "ending", "gone", "deaf"}]
    /\ \A x \in Object :
          \/ proxy'[x] = proxy[x]
          \/ x = e.src /\ proxy'[x] = "up"
          \/ x = o /\ proxy'[x] = "down" /\ devd'[x].wdaStarted
             /\ ~(Known(e.uuid) /\ devd[x].wdaStarted)
    /\ \A x \in Object : e.action # "disconnect" /\ x = e.src => proxy'[x] = "up"
    /\ IF e.action = "disconnect" THEN lpc' = "stopping"
                                  ELSE lpc' \in Idle
    /\ cur' = IF lpc' = "select" THEN cur ELSE o
    /\ \/ UNCHANGED told
       \/ e.action # "disconnect" /\ told' = [told EXCEPT ![e.uuid] = "connected"]
    /\ dead' \in BOOLEAN
    /\ UNCHANGED <<stopped, plugged, missed>>

(* The object that a received event is for.                                *)
LEMMA ReceiveFinds ==
    ASSUME TypeOK, ObjectsFit, NEW act \in Action, Receive(act)
    PROVE  LET e == Head(sendq)
               o == ObjectOf(e.uuid)
           IN /\ ~dead /\ lpc = "select" /\ sendq # <<>> /\ e \in Event /\ e.action = act
              /\ sendq' = Tail(sendq)
              /\ o \in Object
              /\ used' \in 0..MaxObj /\ o <= used'
              /\ \/ Known(e.uuid) /\ o = runningDevs[e.uuid] /\ used' = used /\ UNCHANGED <<periodic, origin>>
                 \/ /\ ~Known(e.uuid) /\ o = used + 1 /\ used' = o
                    /\ periodic' = [periodic EXCEPT ![o] = "sleep"]
                    /\ origin' = [origin EXCEPT ![o] = e.action]
              /\ runningDevs' = [runningDevs EXCEPT ![e.uuid] = o]
              /\ Fields(e.uuid) \in DevFields /\ Fields(e.uuid).uuid = e.uuid
              /\ Known(e.uuid) => Fields(e.uuid) = devd[o]
              /\ ~Known(e.uuid) => ~Fields(e.uuid).wdaStarted
<1>. DEFINE e == Head(sendq)
            o == ObjectOf(e.uuid)
<1>1. sendq # <<>> /\ sendq \in Seq(Event) /\ e \in Event /\ e.uuid \in Device
  <2>1. sendq # <<>> /\ sendq \in Seq(Event)
    BY DEF TypeOK, Event, Receive
  <2>2. e \in Event
    BY <2>1, QueueTail
  <2>. QED
    BY <2>1, <2>2 DEF Event
<1>2. CASE Known(e.uuid)
  <2>1. /\ o = runningDevs[e.uuid] /\ o \in 1..used /\ devd[o].uuid = e.uuid
        /\ used' = used /\ runningDevs' = runningDevs /\ UNCHANGED <<periodic, origin>>
        /\ used \in 0..MaxObj
    BY <1>1, <1>2 DEF ObjectsFit, Made, ObjectOf, Receive, Lookup, TypeOK
  <2>2. o \in Object /\ o <= used'
    BY <2>1, ConstantAssumption DEF Object
  <2>3. runningDevs' = [runningDevs EXCEPT ![e.uuid] = o]
    BY <2>1, <1>1 DEF TypeOK
  <2>4. Fields(e.uuid) = devd[o] /\ devd[o] \in DevFields
    BY <1>2, <2>1, <2>2 DEF Fields, TypeOK, DevFields
  <2>. QED
    BY <1>1, <1>2, <2>1, <2>2, <2>3, <2>4 DEF Receive, TypeOK
<1>3. CASE ~Known(e.uuid)
  <2>1. /\ o = used + 1 /\ used < MaxObj /\ used' = o
        /\ runningDevs' = [runningDevs EXCEPT ![e.uuid] = o]
        /\ periodic' = [periodic EXCEPT ![o] = "sleep"]
        /\ origin' = [origin EXCEPT ![o] = act]
        /\ used \in 0..MaxObj
    BY <1>3 DEF ObjectOf, Receive, Lookup, TypeOK
  <2>2. o \in Object /\ used' \in 0..MaxObj /\ o <= used'
    BY <2>1, ConstantAssumption DEF Object
  <2>3. Fields(e.uuid) = NewDev(e.uuid)
    BY <1>3 DEF Fields
  <2>. QED
    BY <1>1, <1>3, <2>1, <2>2, <2>3, NewDevFields DEF Receive
<1>. QED
  BY <1>2, <1>3

(* The end of the loop's body gives the object the handler's fields.       *)
LEMMA FinishFits ==
    ASSUME TypeOK, NEW o \in Object, NEW r \in DevFields,
           NEW p \in [Object -> {"none", "down", "starting", "up", "busy",
                                "closing", "ending", "gone", "deaf"}],
           Finish(o, r, p)
    PROVE  /\ devd' = [devd EXCEPT ![o] = devd'[o]]
           /\ devd'[o] \in DevFields /\ devd'[o].uuid = r.uuid
           /\ r.wdaStarted => devd'[o].wdaStarted
           /\ proxy' \in [Object -> {"none", "down", "starting", "up", "busy",
                                     "closing", "ending", "gone", "deaf"}]
           /\ \A x \in Object :
                 \/ proxy'[x] = p[x]
                 \/ x = o /\ proxy'[x] = "down" /\ devd'[x].wdaStarted /\ ~r.wdaStarted
<1>. DEFINE r2 == [r EXCEPT !.wdaStarted = @ \/ MayStartWda(r)]
<1>1. /\ devd' = [devd EXCEPT ![o] = r2]
      /\ proxy' = [x \in Object |-> IF x = o /\ MayStartWda(r) THEN "down" ELSE p[x]]
  BY DEF Finish
<1>2. devd \in [Object -> DevFields]
  BY DEF TypeOK, DevFields
<1>3. /\ r2 \in DevFields /\ r2.uuid = r.uuid
      /\ r.wdaStarted => r2.wdaStarted
      /\ MayStartWda(r) => r2.wdaStarted /\ ~r.wdaStarted
  BY DEF DevFields, MayStartWda
<1>. HIDE DEF r2
<1>4. devd'[o] = r2
  BY <1>1, <1>2
<1>. QED
  BY <1>1, <1>3, <1>4

(* The thread that posted an event goes on.                                *)
LEMMA PosterGoesOn ==
    ASSUME TypeOK, NEW e
    PROVE  /\ GoesOn(e) \in [Object -> {"none", "down", "starting", "up", "busy",
                                        "closing", "ending", "gone", "deaf"}]
           /\ \A x \in Object : GoesOn(e)[x] = IF x = e.src THEN "up" ELSE proxy[x]
  BY DEF TypeOK, GoesOn

(* The supervisor that posted an event is of an object that has a          *)
(* wdaproxy.                                                               *)
LEMMA PosterIsThere ==
    ASSUME TypeOK, ObjectsFit, ProxyFits, QueueFits, sendq # <<>>,
           NEW x \in Object, x = Head(sendq).src, x = ObjectOf(Head(sendq).uuid)
    PROVE  Fields(Head(sendq).uuid).wdaStarted
<1>1. sendq \in Seq(Event) /\ Head(sendq) = sendq[1] /\ 1 \in 1..Len(sendq)
      /\ Head(sendq).uuid \in Device
  <2>1. sendq \in Seq(Event)
    BY DEF TypeOK, Event
  <2>2. Head(sendq) \in Event /\ Head(sendq) = sendq[1] /\ 1 \in 1..Len(sendq)
    BY <2>1, QueueTail
  <2>. QED
    BY <2>1, <2>2 DEF Event
<1>2. x # 0 /\ proxy[x] = "busy"
  BY <1>1, ConstantAssumption DEF QueueFits, Object
<1>3. x \in Made
  BY <1>2 DEF ObjectsFit
<1>4. Known(Head(sendq).uuid)
  BY <1>3, ConstantAssumption DEF ObjectOf, Made, TypeOK
<1>. QED
  BY <1>2, <1>4 DEF ProxyFits, ObjectOf, Fields

(* A handler that only gives the object its fields is as described.        *)
LEMMA HandleHandles ==
    ASSUME TypeOK, ObjectsFit, ProxyFits, QueueFits,
           NEW act \in Action \ {"disconnect"}, NEW r \in DevFields, Handle(act, r),
           r.uuid = Head(sendq).uuid,
           r.wdaStarted = Fields(Head(sendq).uuid).wdaStarted
    PROVE  HandlesHead(Head(sendq), ObjectOf(Head(sendq).uuid))
<1>. DEFINE e == Head(sendq)
            o == ObjectOf(e.uuid)
<1>0. /\ Receive(act) /\ Finish(o, r, GoesOn(e))
      /\ UNCHANGED <<lpc, cur, stopped, dead, plugged, told, missed>>
  BY DEF Handle
<1>1. /\ ~dead /\ lpc = "select" /\ sendq # <<>> /\ e \in Event /\ e.action = act
      /\ sendq' = Tail(sendq)
      /\ o \in Object
      /\ used' \in 0..MaxObj /\ o <= used'
      /\ \/ Known(e.uuid) /\ o = runningDevs[e.uuid] /\ used' = used /\ UNCHANGED <<periodic, origin>>
         \/ /\ ~Known(e.uuid) /\ o = used + 1 /\ used' = o
            /\ periodic' = [periodic EXCEPT ![o] = "sleep"]
            /\ origin' = [origin EXCEPT ![o] = e.action]
      /\ runningDevs' = [runningDevs EXCEPT ![e.uuid] = o]
      /\ Known(e.uuid) => Fields(e.uuid) = devd[o]
      /\ ~Known(e.uuid) => ~Fields(e.uuid).wdaStarted
  BY <1>0, ReceiveFinds
<1>2. /\ GoesOn(e) \in [Object -> {"none", "down", "starting", "up", "busy",
                                   "closing", "ending", "gone", "deaf"}]
      /\ \A x \in Object : GoesOn(e)[x] = IF x = e.src THEN "up" ELSE proxy[x]
  BY PosterGoesOn
<1>3. /\ devd' = [devd EXCEPT ![o] = devd'[o]]
      /\ devd'[o] \in DevFields /\ devd'[o].uuid = e.uuid
      /\ r.wdaStarted => devd'[o].wdaStarted
      /\ proxy' \in [Object -> {"none", "down", "starting", "up", "busy",
                                "closing", "ending", "gone", "deaf"}]
      /\ \A x \in Object :
            \/ proxy'[x] = GoesOn(e)[x]
            \/ x = o /\ proxy'[x] = "down" /\ devd'[x].wdaStarted /\ ~r.wdaStarted
  BY <1>0, <1>1, <1>2, FinishFits
<1>4. /\ Known(e.uuid) /\ devd[o].wdaStarted => devd'[o].wdaStarted
      /\ ~r.wdaStarted => ~(Known(e.uuid) /\ devd[o].wdaStarted)
      /\ e.action # "disconnect" /\ e = Head(sendq)
      /\ dead' \in BOOLEAN /\ UNCHANGED <<lpc, cur, told>> /\ lpc' \in Idle
  BY <1>0, <1>1, <1>3 DEF Idle, TypeOK
<1>5. ASSUME NEW x \in Object, x = e.src PROVE proxy'[x] = "up"
  <2>1. x # o \/ r.wdaStarted
    BY <1>1, <1>5, PosterIsThere
  <2>. QED
    BY <1>2, <1>3, <1>5, <2>1
<1>6. \A x \in Object :
          \/ proxy'[x] = proxy[x]
          \/ x = e.src /\ proxy'[x] = "up"
          \/ x = o /\ proxy'[x] = "down" /\ devd'[x].wdaStarted
             /\ ~(Known(e.uuid) /\ devd[x].wdaStarted)
  BY <1>2, <1>3, <1>4
<1>. HIDE DEF e, o
<1>7. HandlesHead(e, o)
  BY <1>0, <1>1, <1>3, <1>4, <1>5, <1>6 DEF HandlesHead
<1>. QED
  BY <1>7 DEF e, o

(* A handler that asks the phone, or waits for the periodic goroutine, is  *)
(* as described.                                                           *)
LEMMA AskHandles ==
    ASSUME TypeOK, ObjectsFit, NEW act \in Action, Receive(act),
           IF act = "disconnect" THEN lpc' = "stopping" ELSE lpc' \in Idle \ {"select"},
           cur' = ObjectOf(Head(sendq).uuid),
           devd' = [devd EXCEPT ![ObjectOf(Head(sendq).uuid)] = Fields(Head(sendq).uuid)],
           IF act = "disconnect" THEN proxy' = proxy ELSE proxy' = GoesOn(Head(sendq)),
           UNCHANGED <<stopped, dead, plugged, missed>>,
           \/ UNCHANGED told
           \/ act # "disconnect" /\ told' = [told EXCEPT ![Head(sendq).uuid] = "connected"]
    PROVE  HandlesHead(Head(sendq), ObjectOf(Head(sendq).uuid))
<1>. DEFINE e == Head(sendq)
            o == ObjectOf(e.uuid)
            f == Fields(e.uuid)
<1>1. /\ ~dead /\ lpc = "select" /\ sendq # <<>> /\ e \in Event /\ e.action = act
      /\ sendq' = Tail(sendq)
      /\ o \in Object
      /\ used' \in 0..MaxObj /\ o <= used'
      /\ \/ Known(e.uuid) /\ o = runningDevs[e.uuid] /\ used' = used /\ UNCHANGED <<periodic, origin>>
         \/ /\ ~Known(e.uuid) /\ o = used + 1 /\ used' = o
            /\ periodic' = [periodic EXCEPT ![o] = "sleep"]
            /\ origin' = [origin EXCEPT ![o] = e.action]
      /\ runningDevs' = [runningDevs EXCEPT ![e.uuid] = o]
      /\ f \in DevFields /\ f.uuid = e.uuid
      /\ Known(e.uuid) => f = devd[o]
  BY ReceiveFinds
<1>2. /\ devd'[o] = f /\ devd' = [devd EXCEPT ![o] = devd'[o]]
      /\ dead' \in BOOLEAN /\ e = Head(sendq)
      /\ UNCHANGED <<stopped, plugged, missed>>
  BY <1>1 DEF TypeOK
<1>3. /\ proxy' \in [Object -> {"none", "down", "starting", "up", "busy",
                                "closing", "ending", "gone", "deaf"}]
      /\ \A x \in Object : \/ proxy'[x] = proxy[x]
                           \/ x = e.src /\ proxy'[x] = "up"
      /\ \A x \in Object : e.action # "disconnect" /\ x = e.src => proxy'[x] = "up"
  <2>1. proxy \in [Object -> {"none", "down", "starting", "up", "busy",
                              "closing", "ending", "gone", "deaf"}]
    BY DEF TypeOK
  <2>. QED
    BY <1>1, <2>1, PosterGoesOn
<1>4. /\ IF e.action = "disconnect" THEN lpc' = "stopping" ELSE lpc' \in Idle
      /\ lpc' # "select" /\ cur' = o
  BY <1>1
<1>5. \/ UNCHANGED told
      \/ e.action # "disconnect" /\ told' = [told EXCEPT ![e.uuid] = "connected"]
  BY <1>1
<1>. HIDE DEF e, o, f
<1>6. HandlesHead(e, o)
  BY <1>1, <1>2, <1>3, <1>4, <1>5 DEF HandlesHead
<1>. QED
  BY <1>6 DEF e, o

(* Each of the loop's handlers is as described.                            *)
LEMMA HandlerHandles ==
    ASSUME TypeOK, ObjectsFit, ProxyFits, QueueFits, Handler
    PROVE  HandlesHead(Head(sendq), ObjectOf(Head(sendq).uuid))
<1>. DEFINE e == Head(sendq)
            o == ObjectOf(e.uuid)
            f == Fields(e.uuid)
<1>0. ASSUME NEW act \in Action, Receive(act)
      PROVE  f \in DevFields /\ f.uuid = e.uuid
  BY <1>0, ReceiveFinds
<1>1. CASE HandleConnect
  <2>1. CASE HandleAndAsk("connect", "enable") /\ UNCHANGED told
    BY <2>1, AskHandles DEF HandleAndAsk, Action, Idle
  <2>2. CASE Handle("connect", f)
    <3>1. Receive("connect") /\ "connect" \in Action \ {"disconnect"}
      BY <2>2 DEF Handle, Action
    <3>2. f \in DevFields /\ f.uuid = e.uuid
      BY <1>0, <3>1
    <3>. QED
      BY <2>2, <3>1, <3>2, HandleHandles
  <2>. QED
    BY <1>1, <2>1, <2>2 DEF HandleConnect
<1>2. CASE HandleInterface
  <2>. DEFINE r == [f EXCEPT !.okVidInterface = TRUE]
  <2>1. Handle("iface", r) /\ Receive("iface") /\ "iface" \in Action \ {"disconnect"}
    BY <1>2 DEF HandleInterface, Handle, Action
  <2>2. f \in DevFields /\ f.uuid = e.uuid
    BY <1>0, <2>1
  <2>3. r \in DevFields /\ r.uuid = e.uuid /\ r.wdaStarted = f.wdaStarted
    BY <2>2 DEF DevFields
  <2>. HIDE DEF r
  <2>. QED
    BY <2>1, <2>3, HandleHandles
<1>3. CASE HandleFrame
  <2>. DEFINE r == [f EXCEPT !.okFirstFrame = TRUE]
  <2>1. Handle("frame", r) /\ Receive("frame") /\ "frame" \in Action \ {"disconnect"}
    BY <1>3 DEF HandleFrame, Handle, Action
  <2>2. f \in DevFields /\ f.uuid = e.uuid
    BY <1>0, <2>1
  <2>3. r \in DevFields /\ r.uuid = e.uuid /\ r.wdaStarted = f.wdaStarted
    BY <2>2 DEF DevFields
  <2>. HIDE DEF r
  <2>. QED
    BY <2>1, <2>3, HandleHandles
<1>4. CASE HandleWdaStarted
  BY <1>4, AskHandles DEF HandleWdaStarted, HandleAndAsk, Action, Idle
<1>5. CASE HandleWdaFailed
  <2>1. Handle("wdaFailed", f) /\ Receive("wdaFailed") /\ "wdaFailed" \in Action \ {"disconnect"}
    BY <1>5 DEF HandleWdaFailed, Handle, Action
  <2>2. f \in DevFields /\ f.uuid = e.uuid
    BY <1>0, <2>1
  <2>. QED
    BY <2>1, <2>2, HandleHandles
<1>6. CASE HandleDisconnect
  BY <1>6, AskHandles DEF HandleDisconnect, Action
<1>. QED
  BY <1>1, <1>2, <1>3, <1>4, <1>5, <1>6 DEF Handler
-----------------------------------------------------------------------------
(* The objects and their devices after a handler.                          *)
LEMMA HandlesKeeps ==
    ASSUME TypeOK, CurFits, ObjectsFit, NEW e, NEW o, HandlesHead(e, o)
    PROVE  /\ e.uuid \in Device /\ e.action \in Action /\ e.src \in {0} \cup Object
           /\ o \in Object /\ o # 0 /\ cur = 0
           /\ Made \subseteq Object /\ Made' \subseteq Object
           /\ Made' = Made \cup {o}
           /\ IF Known(e.uuid) THEN o \in Made /\ o = runningDevs[e.uuid]
                               ELSE \A x \in Made : x < o
           /\ \A x \in Object : x # o => devd'[x] = devd[x] /\ periodic'[x] = periodic[x]
           /\ \A x \in Made : devd'[x].uuid = devd[x].uuid
           /\ \A d \in Device : runningDevs'[d] = IF d = e.uuid THEN o ELSE runningDevs[d]
<1>1. /\ e.uuid \in Device /\ e.action \in Action /\ e.src \in {0} \cup Object
      /\ o \in Object /\ cur = 0
  BY DEF HandlesHead, Event, CurFits
<1>2. /\ used \in 0..MaxObj /\ used' \in 0..MaxObj /\ MaxObj \in Nat
      /\ o \in 1..MaxObj
  BY <1>1, ConstantAssumption DEF HandlesHead, TypeOK, Object
<1>3. IF Known(e.uuid) THEN o \in Made /\ o = runningDevs[e.uuid] /\ used' = used
                       ELSE o = used + 1 /\ used' = o
  BY <1>1 DEF HandlesHead, ObjectsFit
<1>4. /\ o # 0 /\ Made \subseteq Object /\ Made' \subseteq Object
      /\ Made' = Made \cup {o}
      /\ ~Known(e.uuid) => \A x \in Made : x < o
  BY <1>2, <1>3 DEF Made, Object
<1>5. \A x \in Object : x # o => devd'[x] = devd[x] /\ periodic'[x] = periodic[x]
  BY <1>1 DEF HandlesHead, TypeOK
<1>6. \A x \in Made : devd'[x].uuid = devd[x].uuid
  BY <1>1, <1>3, <1>4, <1>5 DEF HandlesHead, ObjectsFit
<1>7. \A d \in Device : runningDevs'[d] = IF d = e.uuid THEN o ELSE runningDevs[d]
  BY <1>1 DEF HandlesHead, TypeOK
<1>. QED
  BY <1>1, <1>3, <1>4, <1>5, <1>6, <1>7

(* A handler keeps the types of the state, and a second start of WDA finds *)
(* a heartbeat.                                                            *)
LEMMA HandlesTypes ==
    ASSUME TypeOK, CurFits, ObjectsFit, NEW e, NEW o, HandlesHead(e, o)
    PROVE  TypeOK'
<1>1. /\ e.uuid \in Device /\ e.action \in Action /\ o \in Object
  BY HandlesKeeps
<1>2. lpc' \in {"select", "enable", "askwda", "stopping"}
      /\ cur' \in {0} \cup Object
  BY <1>1 DEF HandlesHead, TypeOK, Idle
<1>3. sendq' \in Seq([action : Action, uuid : Device, src : {0} \cup Object])
  BY QueueTail DEF HandlesHead, TypeOK
<1>4. runningDevs' \in [Device -> {0} \cup Object] /\ used' \in 0..MaxObj
  BY <1>1 DEF HandlesHead, TypeOK
<1>5. devd' \in [Object -> DevFields]
  <2>1. devd \in [Object -> DevFields]
    BY DEF TypeOK, DevFields
  <2>. QED
    BY <1>1, <2>1 DEF HandlesHead
<1>6. periodic' \in [Object -> {"none", "sleep", "asking", "waitup", "poll", "ended"}]
  <2>1. periodic' = periodic \/ periodic' = [periodic EXCEPT ![o] = "sleep"]
    BY DEF HandlesHead
  <2>. QED
    BY <1>1, <2>1 DEF TypeOK
<1>7. told' \in [Device -> {"nothing", "connected", "gone"}]
  BY <1>1 DEF HandlesHead, TypeOK
<1>8. origin' \in [Object -> Action \cup {"none"}]
  BY <1>1 DEF HandlesHead, TypeOK
<1>9. /\ dead' \in BOOLEAN /\ UNCHANGED <<stopped, plugged, missed>>
      /\ proxy' \in [Object -> {"none", "down", "starting", "up", "busy",
                                "closing", "ending", "gone", "deaf"}]
  BY DEF HandlesHead
<1>. QED
  BY <1>2, <1>3, <1>4, <1>5, <1>6, <1>7, <1>8, <1>9 DEF TypeOK, DevFields

(* A handler enters a new object as the newest of its device, and a        *)
(* disconnect one that is there.                                           *)
LEMMA HandlesObjects ==
    ASSUME IInv, NEW e, NEW o, HandlesHead(e, o)
    PROVE  CurFits' /\ ObjectsFit' /\ ProxyFits'
<1>0. TypeOK /\ CurFits /\ ObjectsFit /\ ProxyFits /\ QueueFits
  BY DEF IInv
<1>1. /\ e.uuid \in Device /\ e.action \in Action /\ e.src \in {0} \cup Object
      /\ o \in Object /\ o # 0 /\ cur = 0
      /\ Made \subseteq Object /\ Made' \subseteq Object
      /\ Made' = Made \cup {o}
      /\ IF Known(e.uuid) THEN o \in Made /\ o = runningDevs[e.uuid]
                          ELSE \A x \in Made : x < o
      /\ \A x \in Object : x # o => devd'[x] = devd[x] /\ periodic'[x] = periodic[x]
      /\ \A x \in Made : devd'[x].uuid = devd[x].uuid
      /\ \A d \in Device : runningDevs'[d] = IF d = e.uuid THEN o ELSE runningDevs[d]
  BY <1>0, HandlesKeeps
<1>2. devd'[o].uuid = e.uuid
  BY DEF HandlesHead
<1>3. CurFits'
  BY <1>0, <1>1, <1>2 DEF HandlesHead, CurFits, Registered
<1>4. e.src # 0 => proxy[e.src] = "busy"
  <2>1. sendq \in Seq(Event) /\ sendq # <<>> /\ e = Head(sendq)
    BY <1>0 DEF HandlesHead, TypeOK, Event
  <2>. QED
    BY <1>0, <2>1, QueueTail DEF QueueFits
<1>5. \A x \in Object : x \notin Made' => proxy'[x] = "none" /\ periodic'[x] = "none"
  <2>1. ASSUME NEW x \in Object, x \notin Made' PROVE proxy'[x] = "none" /\ periodic'[x] = "none"
    <3>1. x # 0 /\ x # o /\ proxy[x] = "none" /\ periodic[x] = "none"
      BY <1>0, <1>1, <2>1, ConstantAssumption DEF ObjectsFit, Object
    <3>2. x # e.src
      BY <1>4, <3>1
    <3>. QED
      BY <1>1, <3>1, <3>2 DEF HandlesHead
  <2>. QED
    BY <2>1
<1>6. ASSUME NEW d \in Device, runningDevs'[d] # 0
      PROVE  /\ runningDevs'[d] \in Made' /\ devd'[runningDevs'[d]].uuid = d
             /\ \A x \in Made' : devd'[x].uuid = d => x <= runningDevs'[d]
  <2>1. CASE d = e.uuid
    <3>1. ASSUME NEW x \in Made, devd[x].uuid = e.uuid PROVE x <= o
      <4>1. x \in Nat /\ o \in Nat
        BY <1>1, ConstantAssumption DEF Object
      <4>. QED
        BY <1>0, <1>1, <3>1, <4>1 DEF ObjectsFit, Known
    <3>2. o <= o
      BY <1>1, ConstantAssumption DEF Object
    <3>. QED
      BY <1>1, <1>2, <2>1, <3>1, <3>2
  <2>2. CASE d # e.uuid
    <3>1. runningDevs'[d] = runningDevs[d] /\ Known(d) /\ runningDevs[d] \in Made
          /\ devd[runningDevs[d]].uuid = d
      BY <1>0, <1>1, <1>6, <2>2 DEF ObjectsFit, Known
    <3>. QED
      BY <1>0, <1>1, <1>2, <2>2, <3>1 DEF ObjectsFit
  <2>. QED
    BY <2>1, <2>2
<1>7. ObjectsFit'
  BY <1>5, <1>6 DEF ObjectsFit, Known
<1>8. ProxyFits'
  <2>. SUFFICES ASSUME NEW x \in Object
                PROVE  /\ ~devd'[x].wdaStarted => proxy'[x] = "none"
                       /\ stopped'[x] => proxy'[x] \in {"up", "busy", "closing", "ending", "gone"}
    BY DEF ProxyFits
  <2>1. /\ ~devd[x].wdaStarted => proxy[x] = "none"
        /\ stopped[x] => proxy[x] \in {"up", "busy", "closing", "ending", "gone"}
        /\ stopped' = stopped
        /\ \/ proxy'[x] = proxy[x]
           \/ x = e.src /\ proxy'[x] = "up"
           \/ x = o /\ proxy'[x] = "down" /\ devd'[x].wdaStarted
              /\ ~(Known(e.uuid) /\ devd[x].wdaStarted)
    BY <1>0 DEF ProxyFits, HandlesHead
  <2>2. x = e.src => x \in Made /\ proxy[x] = "busy"
    BY <1>0, <1>1, <1>4, ConstantAssumption DEF ObjectsFit, Object
  <2>3. x = o /\ ~Known(e.uuid) => proxy[x] = "none"
    <3>1. o \in Nat
      BY <1>1, ConstantAssumption DEF Object
    <3>. QED
      BY <1>0, <1>1, <3>1 DEF ObjectsFit
  <2>4. devd[x].wdaStarted /\ (x = o => Known(e.uuid)) => devd'[x].wdaStarted
    BY <1>1 DEF HandlesHead
  <2>. QED
    BY <1>1, <2>1, <2>2, <2>3, <2>4
<1>. QED
  BY <1>3, <1>7, <1>8

(* A handler lets go at most the supervisor whose event it received.       *)
LEMMA HandlesQueue ==
    ASSUME IInv, NEW e, NEW o, HandlesHead(e, o)
    PROVE  QueueFits'
<1>0. TypeOK /\ CurFits /\ ObjectsFit /\ ProxyFits /\ QueueFits
  BY DEF IInv
<1>1. sendq \in Seq(Event) /\ sendq # <<>> /\ sendq' = Tail(sendq) /\ e = sendq[1]
  <2>1. sendq \in Seq(Event)
    BY <1>0 DEF TypeOK, Event
  <2>. QED
    BY <2>1, QueueTail DEF HandlesHead
<1>2. /\ Len(sendq) \in Nat \ {0}
      /\ \A i \in 1..Len(sendq') : i + 1 \in 1..Len(sendq) /\ sendq'[i] = sendq[i + 1]
                                  /\ sendq[i + 1] \in Event
  BY <1>1, QueueTail
<1>3. ASSUME NEW i \in 1..Len(sendq'), sendq'[i].src # 0
      PROVE  proxy'[sendq'[i].src] = "busy"
  <2>. DEFINE s == sendq'[i].src
  <2>1. i + 1 \in 1..Len(sendq) /\ s = sendq[i + 1].src /\ s \in Object /\ i + 1 # 1
    BY <1>2, <1>3 DEF Event
  <2>2. proxy[s] = "busy" /\ s # e.src
    <3>1. 1 \in 1..Len(sendq)
      BY <1>2
    <3>. QED
      BY <1>0, <1>1, <1>3, <2>1, <3>1 DEF QueueFits
  <2>3. ~(s = o /\ ~(Known(e.uuid) /\ devd[s].wdaStarted))
    <3>1. s = o => Known(e.uuid)
      <4>1. o \in Nat
        BY ConstantAssumption DEF HandlesHead, Object
      <4>. QED
        BY <1>0, <2>1, <2>2, <4>1, HandlesKeeps DEF ObjectsFit
    <3>2. devd[s].wdaStarted
      BY <1>0, <2>1, <2>2 DEF ProxyFits
    <3>. QED
      BY <3>1, <3>2
  <2>. HIDE DEF s
  <2>4. proxy'[s] = "busy"
    BY <2>1, <2>2, <2>3 DEF HandlesHead
  <2>. QED
    BY <2>4 DEF s
<1>4. ASSUME NEW i \in 1..Len(sendq'), NEW j \in 1..Len(sendq'),
             sendq'[i].src = sendq'[j].src, i # j
      PROVE  sendq'[i].src = 0
  <2>1. i + 1 # j + 1
    BY <1>4
  <2>. QED
    BY <1>0, <1>2, <1>4, <2>1 DEF QueueFits
<1>. QED
  BY <1>3, <1>4 DEF QueueFits

(* A handler closes no object.                                             *)
LEMMA HandlesClosed ==
    ASSUME IInv, NEW e, NEW o, HandlesHead(e, o)
    PROVE  PeriodicEndsFirst' /\ ClosedGivenUp'
<1>0. /\ TypeOK /\ CurFits /\ ObjectsFit /\ ProxyFits /\ QueueFits
      /\ PeriodicEndsFirst /\ ClosedGivenUp
  BY DEF IInv
<1>1. /\ e.uuid \in Device
      /\ o \in Object /\ o # 0
      /\ Made \subseteq Object
      /\ Made' = Made \cup {o}
      /\ Known(e.uuid) => o = runningDevs[e.uuid]
      /\ \A x \in Object : x # o => devd'[x] = devd[x] /\ periodic'[x] = periodic[x]
      /\ \A d \in Device : runningDevs'[d] = IF d = e.uuid THEN o ELSE runningDevs[d]
      /\ devd'[o].uuid = e.uuid
  <2>1. devd'[o].uuid = e.uuid
    BY DEF HandlesHead
  <2>. QED
    BY <1>0, <2>1, HandlesKeeps
<1>2. ASSUME NEW x \in Object, Closed(x)'
      PROVE  Closed(x) /\ x # o
  <2>1. x \in Made' /\ runningDevs'[devd'[x].uuid] # x
    BY <1>2 DEF Closed, Registered
  <2>2. x # o
    BY <1>1, <2>1
  <2>3. x \in Made /\ devd'[x] = devd[x] /\ devd[x].uuid \in Device
    BY <1>0, <1>1, <2>1, <2>2 DEF TypeOK
  <2>4. runningDevs[devd[x].uuid] # x
    <3>1. x # 0
      BY ConstantAssumption DEF Object
    <3>. QED
      BY <1>1, <2>1, <2>2, <2>3, <3>1 DEF Known
  <2>. QED
    BY <2>2, <2>3, <2>4 DEF Closed, Registered
<1>3. lpc' \in {"select", "enable", "askwda", "stopping"}
  BY DEF HandlesHead, Idle
<1>4. PeriodicEndsFirst'
  <2>1. \A x \in Object : Closed(x)' => periodic'[x] = "ended"
    BY <1>0, <1>1, <1>2 DEF PeriodicEndsFirst
  <2>. QED
    BY <1>3, <2>1 DEF PeriodicEndsFirst
<1>5. e.src # 0 => proxy[e.src] = "busy"
  <2>1. sendq \in Seq(Event) /\ sendq # <<>> /\ e = Head(sendq)
    BY <1>0 DEF HandlesHead, TypeOK, Event
  <2>. QED
    BY <1>0, <2>1, QueueTail DEF QueueFits
<1>6. ASSUME NEW x \in Object, Closed(x)' PROVE GivenUp(x)'
  <2>1. GivenUp(x) /\ x # o
    BY <1>0, <1>2, <1>6 DEF ClosedGivenUp
  <2>2. proxy[x] \in {"none", "gone"} => proxy'[x] = proxy[x]
    <3>1. x # 0
      BY ConstantAssumption DEF Object
    <3>. QED
      BY <1>5, <2>1, <3>1 DEF HandlesHead
  <2>. QED
    BY <2>1, <2>2 DEF GivenUp, HandlesHead
<1>7. ClosedGivenUp'
  BY <1>3, <1>6 DEF ClosedGivenUp
<1>. QED
  BY <1>4, <1>7

(* The events that wait after the oldest one was received.                 *)
LEMMA TailWaits ==
    ASSUME sendq \in Seq(Event), sendq # <<>>, sendq' = Tail(sendq)
    PROVE  /\ Len(sendq) \in Nat \ {0} /\ Len(sendq') = Len(sendq) - 1
           /\ \A i \in 1..Len(sendq) : i # 1 =>
                 /\ i - 1 \in 1..Len(sendq')
                 /\ \A act \in Action, d \in Device : Waits(act, d, i) <=> Waits(act, d, i - 1)'
           /\ \A i \in 1..Len(sendq') :
                 /\ i + 1 \in 1..Len(sendq)
                 /\ \A act \in Action, d \in Device : Waits(act, d, i)' <=> Waits(act, d, i + 1)
<1>1. /\ Len(sendq) \in Nat \ {0} /\ Len(sendq') = Len(sendq) - 1
      /\ \A i \in 1..Len(sendq') : i + 1 \in 1..Len(sendq) /\ sendq'[i] = sendq[i + 1]
  BY QueueTail
<1>2. ASSUME NEW i \in 1..Len(sendq), i # 1
      PROVE  i - 1 \in 1..Len(sendq') /\ sendq'[i - 1] = sendq[i]
  <2>1. i - 1 \in 1..Len(sendq') /\ (i - 1) + 1 = i
    BY <1>1, <1>2
  <2>. QED
    BY <1>1, <2>1
<1>. QED
  BY <1>1, <1>2 DEF Waits

(* A handler draws the consequence of the event that it took.              *)
LEMMA HandlesView ==
    ASSUME IInv, NEW e, NEW o, HandlesHead(e, o)
    PROVE  ViewFits'
<1>0. TypeOK /\ CurFits /\ ObjectsFit /\ ViewFits
  BY DEF IInv
<1>1. /\ e.uuid \in Device /\ e.action \in Action
      /\ o \in Object /\ o # 0
      /\ Made \subseteq Object
      /\ Known(e.uuid) => o = runningDevs[e.uuid]
      /\ ~Known(e.uuid) => o \notin Made /\ origin' = [origin EXCEPT ![o] = e.action]
      /\ Known(e.uuid) => origin' = origin
      /\ \A d \in Device : runningDevs'[d] = IF d = e.uuid THEN o ELSE runningDevs[d]
      /\ devd'[o].uuid = e.uuid
      /\ lpc = "select" /\ plugged' = plugged
      /\ IF e.action = "disconnect" THEN lpc' = "stopping" /\ cur' = o
                                    ELSE lpc' \in Idle
  <2>1. ~Known(e.uuid) => o \notin Made
    <3>1. o \in Nat
      BY ConstantAssumption DEF HandlesHead, Object
    <3>. QED
      BY <1>0, <3>1, HandlesKeeps
  <2>2. /\ ~Known(e.uuid) => origin' = [origin EXCEPT ![o] = e.action]
        /\ Known(e.uuid) => origin' = origin
        /\ devd'[o].uuid = e.uuid
        /\ lpc = "select" /\ plugged' = plugged
        /\ IF e.action = "disconnect" THEN lpc' = "stopping" /\ cur' = o
                                      ELSE lpc' \in Idle
    BY DEF HandlesHead
  <2>. QED
    BY <1>0, <2>1, <2>2, HandlesKeeps
<1>2. /\ sendq \in Seq(Event) /\ sendq # <<>> /\ sendq' = Tail(sendq)
      /\ 1 \in 1..Len(sendq) /\ sendq[1] = e
  <2>1. sendq \in Seq(Event) /\ sendq # <<>> /\ sendq' = Tail(sendq)
    BY <1>0 DEF HandlesHead, TypeOK, Event
  <2>. QED
    BY <2>1, QueueTail DEF HandlesHead
<1>3. \A act \in Action, d \in Device : Waits(act, d, 1) <=> e.action = act /\ e.uuid = d
  BY <1>2 DEF Waits
<1>4. "connect" \in Action /\ "disconnect" \in Action
  BY DEF Action
<1>5. \A d \in Device : /\ Known(d) => Known(d)'
                        /\ d = e.uuid => Known(d)'
                        /\ Closing(d)' <=> e.action = "disconnect" /\ e.uuid = d
                        /\ ~Closing(d)
  BY <1>1 DEF Known, Closing, Idle
<1>6. ASSUME NEW d \in Device, PluggedFits(d) PROVE PluggedFits(d)'
  <2>1. ASSUME NEW i \in 1..Len(sendq), Waits("connect", d, i),
               \A j \in 1..Len(sendq) : j > i => ~Waits("disconnect", d, j)
        PROVE  PluggedFits(d)'
    <3>1. CASE i = 1
      <4>1. \A j \in 1..Len(sendq') : ~Waits("disconnect", d, j)'
        BY <1>2, <1>4, <2>1, <3>1, TailWaits
      <4>2. Known(d)' /\ ~Closing(d)'
        BY <1>3, <1>4, <1>5, <2>1, <3>1
      <4>. QED
        BY <4>1, <4>2 DEF PluggedFits
    <3>2. CASE i # 1
      <4>1. i - 1 \in 1..Len(sendq') /\ Waits("connect", d, i - 1)'
        BY <1>2, <1>4, <2>1, <3>2, TailWaits
      <4>2. ASSUME NEW j \in 1..Len(sendq'), j > i - 1 PROVE ~Waits("disconnect", d, j)'
        <5>1. j + 1 \in 1..Len(sendq) /\ j + 1 > i
          BY <1>2, <4>2, TailWaits
        <5>. QED
          BY <1>2, <1>4, <2>1, <5>1, TailWaits
      <4>. QED
        BY <4>1, <4>2 DEF PluggedFits
    <3>. QED
      BY <3>1, <3>2
  <2>2. ASSUME \A j \in 1..Len(sendq) : ~Waits("disconnect", d, j), Known(d)
        PROVE  PluggedFits(d)'
    <3>1. \A j \in 1..Len(sendq') : ~Waits("disconnect", d, j)'
      BY <1>2, <1>4, <2>2, TailWaits
    <3>2. Known(d)' /\ ~Closing(d)'
      BY <1>2, <1>3, <1>4, <1>5, <2>2
    <3>. QED
      BY <3>1, <3>2 DEF PluggedFits
  <2>. QED
    BY <1>6, <2>1, <2>2 DEF PluggedFits
<1>7. ASSUME NEW d \in Device, UnpluggedFits(d) PROVE UnpluggedFits(d)'
  <2>1. ASSUME NEW i \in 1..Len(sendq'), Waits("connect", d, i)'
        PROVE  \E j \in 1..Len(sendq') : j > i /\ Waits("disconnect", d, j)'
    <3>1. i + 1 \in 1..Len(sendq) /\ Waits("connect", d, i + 1)
      BY <1>2, <1>4, <2>1, TailWaits
    <3>2. PICK j \in 1..Len(sendq) : j > i + 1 /\ Waits("disconnect", d, j)
      BY <1>7, <3>1 DEF UnpluggedFits
    <3>3. j # 1 /\ j - 1 > i
      BY <3>2
    <3>. QED
      BY <1>2, <1>4, <3>2, <3>3, TailWaits
  <2>2. ASSUME Known(d)', origin'[runningDevs'[d]] = "connect", ~Closing(d)'
        PROVE  \E j \in 1..Len(sendq') : Waits("disconnect", d, j)'
    <3>1. PICK j \in 1..Len(sendq) : Waits("disconnect", d, j)
      <4>1. CASE Known(d)
        <5>1. runningDevs[d] \in Made
          BY <1>0, <4>1 DEF ObjectsFit
        <5>2. runningDevs'[d] = runningDevs[d]
          BY <1>1, <4>1
        <5>3. origin'[runningDevs[d]] = origin[runningDevs[d]]
          BY <1>0, <1>1, <4>1, <5>1 DEF TypeOK
        <5>. QED
          BY <1>5, <1>7, <2>2, <4>1, <5>2, <5>3 DEF UnpluggedFits
      <4>2. CASE ~Known(d)
        <5>1. d = e.uuid
          BY <1>1, <2>2, <4>2 DEF Known
        <5>2. e.action = "connect"
          BY <1>0, <1>1, <2>2, <4>2, <5>1 DEF TypeOK
        <5>. QED
          BY <1>2, <1>3, <1>4, <1>7, <5>1, <5>2 DEF UnpluggedFits
      <4>. QED
        BY <4>1, <4>2
    <3>2. j # 1
      BY <1>3, <1>4, <1>5, <2>2, <3>1
    <3>. QED
      BY <1>2, <1>4, <3>1, <3>2, TailWaits
  <2>. QED
    BY <2>1, <2>2 DEF UnpluggedFits
<1>8. \A d \in Device : told'[d] = "connected" => Known(d)'
  BY <1>0, <1>1, <1>5 DEF HandlesHead, ViewFits, TypeOK
<1>. QED
  BY <1>0, <1>1, <1>6, <1>7, <1>8 DEF ViewFits

(* The handlers preserve the invariant.                                    *)
LEMMA HandlerIInv ==
    ASSUME IInv, Handler
    PROVE  IInv'
<1>1. HandlesHead(Head(sendq), ObjectOf(Head(sendq).uuid))
  BY HandlerHandles DEF IInv
<1>2. TypeOK'
  BY <1>1, HandlesTypes DEF IInv
<1>3. CurFits' /\ ObjectsFit' /\ ProxyFits'
  BY <1>1, HandlesObjects
<1>4. QueueFits' /\ PeriodicEndsFirst' /\ ClosedGivenUp' /\ ViewFits'
  BY <1>1, HandlesQueue, HandlesClosed, HandlesView
<1>. QED
  BY <1>2, <1>3, <1>4 DEF IInv
-----------------------------------------------------------------------------
(* A step that makes and closes no object.                                 *)
SameDevices ==
    /\ UNCHANGED <<cur, runningDevs, used, told, origin>>
    /\ (lpc' = "select" <=> lpc = "select") /\ (lpc' \in Idle <=> lpc \in Idle)
    /\ \A x \in Object : devd'[x].uuid = devd[x].uuid

(* Such a step leaves closed what was closed, and nothing else.            *)
LEMMA SameDevicesKeep ==
    ASSUME TypeOK, CurFits, ObjectsFit, SameDevices
    PROVE  /\ CurFits'
           /\ Made' = Made /\ Made \subseteq Object
           /\ lpc # "select" => cur \in Object
           /\ \A d \in Device : (Known(d)' <=> Known(d)) /\ (Closing(d)' <=> Closing(d))
           /\ \A x \in Object : Closed(x)' <=> Closed(x)
           /\ (\A x \in Object : x \notin Made => proxy'[x] = "none" /\ periodic'[x] = "none")
                 => ObjectsFit'
<1>1. Made' = Made /\ Made \subseteq Object
  <2>1. used \in 0..MaxObj /\ MaxObj \in Nat /\ used' = used
    BY ConstantAssumption DEF TypeOK, SameDevices
  <2>. QED
    BY <2>1 DEF Made, Object
<1>2. lpc # "select" => cur \in Object
  BY <1>1 DEF CurFits
<1>3. CurFits'
  BY <1>1, <1>2 DEF CurFits, Registered, SameDevices
<1>4. \A d \in Device : (Known(d)' <=> Known(d)) /\ (Closing(d)' <=> Closing(d))
  BY <1>2 DEF Known, Closing, SameDevices, Idle
<1>5. \A x \in Object : Closed(x)' <=> Closed(x)
  BY <1>1 DEF Closed, Registered, SameDevices
<1>6. ASSUME \A x \in Object : x \notin Made => proxy'[x] = "none" /\ periodic'[x] = "none"
      PROVE  ObjectsFit'
  <2>1. \A d \in Device : Known(d)' => /\ runningDevs'[d] \in Made'
                                       /\ devd'[runningDevs'[d]].uuid = d
    BY <1>1 DEF ObjectsFit, SameDevices, Known
  <2>2. \A d \in Device, x \in Made' :
           Known(d)' /\ devd'[x].uuid = d => x <= runningDevs'[d]
    BY <1>1 DEF ObjectsFit, SameDevices, Known
  <2>. QED
    BY <1>1, <1>6, <2>1, <2>2 DEF ObjectsFit
<1>. QED
  BY <1>1, <1>2, <1>3, <1>4, <1>5, <1>6

(* Nor does it change what waits for a phone, if it posts nothing.         *)
LEMMA QuietView ==
    ASSUME TypeOK, CurFits, ObjectsFit, ViewFits, SameDevices, UNCHANGED <<sendq, plugged>>
    PROVE  ViewFits'
<1>1. \A d \in Device : (Known(d)' <=> Known(d)) /\ (Closing(d)' <=> Closing(d))
  BY SameDevicesKeep
<1>2. \A d \in Device : PluggedFits(d) => PluggedFits(d)'
  BY <1>1 DEF PluggedFits, Waits
<1>3. \A d \in Device : UnpluggedFits(d) => UnpluggedFits(d)'
  BY <1>1 DEF UnpluggedFits, Waits, SameDevices
<1>. QED
  BY <1>1, <1>2, <1>3 DEF ViewFits, SameDevices

(* The events that wait after one was posted.                              *)
LEMMA AppendWaits ==
    ASSUME sendq \in Seq(Event), NEW e \in Event, sendq' = Append(sendq, e)
    PROVE  /\ Len(sendq) + 1 \in 1..Len(sendq')
           /\ sendq'[Len(sendq) + 1] = e
           /\ \A i \in 1..Len(sendq) : /\ i \in 1..Len(sendq') /\ Len(sendq) + 1 > i
                                      /\ sendq'[i] = sendq[i]
           /\ \A i \in 1..Len(sendq') : /\ i # Len(sendq) + 1 => i \in 1..Len(sendq)
                                       /\ ~(i > Len(sendq) + 1)
  BY QueueAppend

(* A post says of the phone what the environment has done to it.           *)
LEMMA PostView ==
    ASSUME TypeOK, CurFits, ObjectsFit, ViewFits, SameDevices,
           NEW e \in Event, sendq' = Append(sendq, e),
           \/ e.action = "connect" /\ plugged' = plugged \cup {e.uuid}
           \/ e.action = "disconnect" /\ plugged' = plugged \ {e.uuid}
           \/ e.action \notin {"connect", "disconnect"} /\ plugged' = plugged
    PROVE  ViewFits'
<1>0. sendq \in Seq(Event)
  BY DEF TypeOK, Event
<1>1. PICK n \in Nat :
      /\ n \in 1..Len(sendq') /\ sendq'[n] = e
      /\ \A i \in 1..Len(sendq) : i \in 1..Len(sendq') /\ n > i /\ sendq'[i] = sendq[i]
      /\ \A i \in 1..Len(sendq') : (i # n => i \in 1..Len(sendq)) /\ ~(i > n)
  <2>1. Len(sendq) + 1 \in Nat
    BY <1>0, QueueAppend
  <2>. QED
    BY <1>0, <2>1, AppendWaits
<1>2. \A d \in Device : (Known(d)' <=> Known(d)) /\ (Closing(d)' <=> Closing(d))
  BY SameDevicesKeep
<1>3. ASSUME NEW d \in Device, e.action = "connect", e.uuid = d
      PROVE  PluggedFits(d)'
  <2>1. Waits("connect", d, n)' /\ ~Waits("disconnect", d, n)'
    BY <1>1, <1>3 DEF Waits
  <2>. QED
    BY <1>1, <2>1 DEF PluggedFits, Waits
<1>4. ASSUME NEW d \in Device, e.action = "disconnect", e.uuid = d
      PROVE  UnpluggedFits(d)'
  <2>1. Waits("disconnect", d, n)' /\ ~Waits("connect", d, n)'
    BY <1>1, <1>4 DEF Waits
  <2>. QED
    BY <1>1, <2>1 DEF UnpluggedFits, Waits
<1>5. ASSUME NEW d \in Device, ~(e.action = "disconnect" /\ e.uuid = d), PluggedFits(d)
      PROVE  PluggedFits(d)'
  <2>1. ~Waits("disconnect", d, n)'
    BY <1>1, <1>5 DEF Waits
  <2>2. ASSUME NEW i \in 1..Len(sendq), Waits("connect", d, i),
               \A j \in 1..Len(sendq) : j > i => ~Waits("disconnect", d, j)
        PROVE  PluggedFits(d)'
    BY <1>1, <2>1, <2>2 DEF PluggedFits, Waits
  <2>3. ASSUME \A j \in 1..Len(sendq) : ~Waits("disconnect", d, j), Known(d), ~Closing(d)
        PROVE  PluggedFits(d)'
    BY <1>1, <1>2, <2>1, <2>3 DEF PluggedFits, Waits
  <2>. QED
    BY <1>5, <2>2, <2>3 DEF PluggedFits
<1>6. ASSUME NEW d \in Device, ~(e.action = "connect" /\ e.uuid = d), UnpluggedFits(d)
      PROVE  UnpluggedFits(d)'
  <2>1. ~Waits("connect", d, n)'
    BY <1>1, <1>6 DEF Waits
  <2>2. ASSUME NEW i \in 1..Len(sendq'), Waits("connect", d, i)'
        PROVE  \E j \in 1..Len(sendq') : j > i /\ Waits("disconnect", d, j)'
    BY <1>1, <1>6, <2>1, <2>2 DEF UnpluggedFits, Waits
  <2>3. Known(d)' /\ origin'[runningDevs'[d]] = "connect" =>
           Closing(d)' \/ \E j \in 1..Len(sendq') : Waits("disconnect", d, j)'
    BY <1>1, <1>2, <1>6 DEF UnpluggedFits, Waits, SameDevices
  <2>. QED
    BY <2>2, <2>3 DEF UnpluggedFits
<1>7. \A d \in Device : told'[d] = "connected" => Known(d)'
  BY <1>2 DEF ViewFits, SameDevices
<1>8. ASSUME NEW d \in Device
      PROVE  IF d \in plugged' THEN PluggedFits(d)' ELSE UnpluggedFits(d)'
  <2>1. IF d \in plugged THEN PluggedFits(d) ELSE UnpluggedFits(d)
    BY DEF ViewFits
  <2>. QED
    BY <1>3, <1>4, <1>5, <1>6, <2>1
<1>. QED
  BY <1>7, <1>8 DEF ViewFits

(* A post that no supervisor waits for, or one that was not waiting yet.   *)
LEMMA PostQueue ==
    ASSUME TypeOK, QueueFits, NEW e \in Event, sendq' = Append(sendq, e),
           e.src # 0 => proxy[e.src] # "busy" /\ proxy'[e.src] = "busy",
           \A x \in Object : proxy[x] = "busy" => proxy'[x] = "busy"
    PROVE  QueueFits' /\ sendq' \in Seq(Event)
<1>0. sendq \in Seq(Event)
  BY DEF TypeOK, Event
<1>. DEFINE n == Len(sendq) + 1
<1>1. /\ Len(sendq) \in Nat /\ Len(sendq') = n
      /\ sendq'[n] = e
      /\ \A i \in 1..Len(sendq) : sendq'[i] = sendq[i] /\ sendq[i] \in Event
      /\ sendq' \in Seq(Event)
  BY <1>0, QueueAppend
<1>2. \A i \in 1..Len(sendq') : i = n \/ i \in 1..Len(sendq)
  BY <1>1
<1>. HIDE DEF n
<1>3. \A i \in 1..Len(sendq) : sendq[i].src # 0 =>
         /\ sendq[i].src \in Object /\ proxy[sendq[i].src] = "busy"
         /\ sendq[i].src # e.src
  BY <1>1 DEF QueueFits, Event
<1>4. \A i \in 1..Len(sendq') : sendq'[i].src # 0 => proxy'[sendq'[i].src] = "busy"
  BY <1>1, <1>2, <1>3
<1>5. ASSUME NEW i \in 1..Len(sendq'), NEW j \in 1..Len(sendq'),
             sendq'[i].src = sendq'[j].src, i # j
      PROVE  sendq'[i].src = 0
  BY <1>1, <1>2, <1>3, <1>5 DEF QueueFits
<1>. QED
  BY <1>1, <1>4, <1>5 DEF QueueFits
-----------------------------------------------------------------------------
(* The requests of phones, cables and video processes.                     *)
LEMMA EnvironmentIInv ==
    ASSUME IInv, Environment
    PROVE  IInv'
<1>0. TypeOK /\ CurFits /\ ObjectsFit /\ ProxyFits /\ QueueFits
      /\ PeriodicEndsFirst /\ ClosedGivenUp /\ ViewFits
  BY DEF IInv
<1>1. PICK d \in Device, act \in {"connect", "disconnect", "iface", "frame"} :
         /\ Request(act, d)
         /\ \/ act = "connect" /\ plugged' = plugged \cup {d}
            \/ act = "disconnect" /\ plugged' = plugged \ {d}
            \/ act \in {"iface", "frame"} /\ plugged' = plugged
  BY DEF Environment, deviceConnect, deviceDisconnect, newInterface, handleFrame
<1>. DEFINE e == [action |-> act, uuid |-> d, src |-> 0]
<1>2. /\ sendq' = Append(sendq, e)
      /\ UNCHANGED <<lpc, cur, runningDevs, used, devd, proxy, stopped, periodic,
                     dead, told, missed, origin>>
  BY <1>1 DEF Request, Post
<1>3. e \in Event /\ e.action = act /\ e.uuid = d /\ e.src = 0
  BY DEF Event, Action
<1>. HIDE DEF e
<1>4. SameDevices
  BY <1>2 DEF SameDevices
<1>5. QueueFits' /\ sendq' \in Seq(Event)
  BY <1>0, <1>2, <1>3, PostQueue
<1>6. ViewFits'
  BY <1>0, <1>1, <1>2, <1>3, <1>4, PostView
<1>7. TypeOK'
  BY <1>0, <1>1, <1>2, <1>5 DEF TypeOK, Event
<1>8. CurFits' /\ ObjectsFit' /\ \A x \in Object : Closed(x)' <=> Closed(x)
  BY <1>0, <1>2, <1>4, SameDevicesKeep DEF ObjectsFit
<1>9. ProxyFits' /\ PeriodicEndsFirst' /\ ClosedGivenUp'
  BY <1>0, <1>2, <1>8 DEF ProxyFits, PeriodicEndsFirst, ClosedGivenUp, GivenUp
<1>. QED
  BY <1>5, <1>6, <1>7, <1>8, <1>9 DEF IInv

(* The Kills of a disconnect: a wdaproxy is left only told to stop, gone,  *)
(* or with its Kill dropped.                                               *)
LEMMA KillIInv ==
    ASSUME IInv, KillProxy \/ KillOtherWaits \/ KillTaken
    PROVE  IInv'
<1>0. TypeOK /\ CurFits /\ ObjectsFit /\ ProxyFits /\ QueueFits
      /\ PeriodicEndsFirst /\ ClosedGivenUp /\ ViewFits
  BY DEF IInv
<1>1. /\ UNCHANGED <<cur, sendq, runningDevs, used, devd, proxy, periodic, dead,
                     plugged, told, origin>>
      /\ lpc \in {"kill", "killwait", "delete"}
      /\ lpc' \in {"killwait", "delete", "lost"}
  BY DEF KillProxy, KillOtherWaits, KillTaken
<1>2. SameDevices
  BY <1>1 DEF SameDevices, Idle
<1>3. CurFits' /\ ObjectsFit' /\ cur \in Object /\ \A x \in Object : Closed(x)' <=> Closed(x)
  BY <1>0, <1>1, <1>2, SameDevicesKeep DEF ObjectsFit
<1>4. QueueFits' /\ ViewFits'
  BY <1>0, <1>1, <1>2, QuietView DEF QueueFits
<1>5. /\ stopped' \in [Object -> BOOLEAN] /\ missed' \subseteq Object
      /\ \A x \in Object : stopped[x] => stopped'[x]
      /\ missed \subseteq missed'
      /\ \A x \in Object : stopped'[x] => stopped[x] \/ proxy[x] = "up"
      /\ lpc' = "delete" => stopped'[cur] \/ cur \in missed' \/ proxy[cur] \in {"none", "gone"}
  <2>1. CASE KillProxy
    BY <1>0, <1>3, <2>1 DEF KillProxy, TypeOK, Silent
  <2>2. CASE KillOtherWaits
    BY <1>0, <1>3, <2>2 DEF KillOtherWaits, TypeOK
  <2>3. CASE KillTaken
    BY <1>0, <1>3, <2>3 DEF KillTaken, TypeOK
  <2>. QED
    BY <2>1, <2>2, <2>3
<1>6. TypeOK'
  BY <1>0, <1>1, <1>5 DEF TypeOK
<1>7. ProxyFits'
  BY <1>0, <1>1, <1>5 DEF ProxyFits
<1>8. PeriodicEndsFirst'
  BY <1>0, <1>1, <1>3 DEF PeriodicEndsFirst
<1>9. ClosedGivenUp'
  BY <1>0, <1>1, <1>3, <1>5 DEF ClosedGivenUp, GivenUp
<1>. QED
  BY <1>3, <1>4, <1>6, <1>7, <1>8, <1>9 DEF IInv

(* The end of a disconnect: the object of the device is closed.            *)
LEMMA ForgetIInv ==
    ASSUME IInv, ForgetDevice
    PROVE  IInv'
<1>0. TypeOK /\ CurFits /\ ObjectsFit /\ ProxyFits /\ QueueFits
      /\ PeriodicEndsFirst /\ ClosedGivenUp /\ ViewFits
  BY DEF IInv
<1>1. Made' = Made /\ Made \subseteq Object /\ cur \in Made /\ cur # 0
  <2>1. /\ used \in 0..MaxObj /\ MaxObj \in Nat /\ used' = used
        /\ lpc # "select"
    BY <1>0, ConstantAssumption DEF TypeOK, ForgetDevice
  <2>. QED
    BY <1>0, <2>1 DEF CurFits, Made, Object
<1>2. PICK u \in Device : u = devd[cur].uuid /\ runningDevs[u] = cur
  BY <1>0, <1>1 DEF CurFits, Registered, TypeOK, ForgetDevice
<1>3. /\ lpc = "delete" /\ lpc' = "select" /\ cur' = 0
      /\ runningDevs' = [runningDevs EXCEPT ![u] = 0]
      /\ told' = [told EXCEPT ![u] = "gone"]
      /\ UNCHANGED <<sendq, used, devd, proxy, stopped, periodic, dead, plugged, missed, origin>>
  BY <1>2 DEF ForgetDevice
<1>4. /\ \A d \in Device : runningDevs'[d] = IF d = u THEN 0 ELSE runningDevs[d]
      /\ \A d \in Device : told'[d] = IF d = u THEN "gone" ELSE told[d]
  BY <1>0, <1>3, <1>2 DEF TypeOK
<1>5. TypeOK'
  <2>1. runningDevs' \in [Device -> {0} \cup Object] /\ told' \in [Device -> {"nothing", "connected", "gone"}]
    BY <1>0, <1>3, <1>2 DEF TypeOK
  <2>. QED
    BY <1>0, <1>3, <2>1 DEF TypeOK
<1>6. CurFits' /\ ProxyFits' /\ QueueFits'
  BY <1>0, <1>3 DEF CurFits, ProxyFits, QueueFits
<1>7. ObjectsFit'
  BY <1>0, <1>3, <1>1, <1>4 DEF ObjectsFit, Known
<1>8. ASSUME NEW x \in Object, Closed(x)' PROVE x = cur \/ Closed(x)
  <2>1. devd[x].uuid \in Device
    BY <1>0 DEF TypeOK
  <2>. QED
    BY <1>3, <1>1, <1>2, <1>4, <1>8, <2>1 DEF Closed, Registered
<1>9. PeriodicEndsFirst'
  BY <1>0, <1>3, <1>8 DEF PeriodicEndsFirst
<1>10. ClosedGivenUp'
  BY <1>0, <1>3, <1>8 DEF ClosedGivenUp, GivenUp
<1>11. ViewFits'
  <2>1. /\ ~Known(u)' /\ told'[u] # "connected" /\ Closing(u)
        /\ \A d \in Device : ~Closing(d)'
        /\ \A d \in Device \ {u} : /\ ~Closing(d) /\ (Known(d)' <=> Known(d))
                                   /\ told'[d] = told[d] /\ runningDevs'[d] = runningDevs[d]
    BY <1>3, <1>2, <1>4 DEF Known, Closing, Idle
  <2>2. PluggedFits(u) => PluggedFits(u)'
    BY <1>3, <1>2, <2>1 DEF PluggedFits, Waits
  <2>3. UnpluggedFits(u) => UnpluggedFits(u)'
    BY <1>3, <1>2, <2>1 DEF UnpluggedFits, Waits
  <2>4. \A d \in Device \ {u} : PluggedFits(d) => PluggedFits(d)'
    BY <1>3, <2>1 DEF PluggedFits, Waits
  <2>5. \A d \in Device \ {u} : UnpluggedFits(d) => UnpluggedFits(d)'
    BY <1>3, <2>1 DEF UnpluggedFits, Waits
  <2>. QED
    BY <1>0, <1>3, <1>2, <2>1, <2>2, <2>3, <2>4, <2>5 DEF ViewFits
<1>. QED
  BY <1>5, <1>6, <1>7, <1>9, <1>10, <1>11 DEF IInv
-----------------------------------------------------------------------------
(* What the end of a handler that asked the phone does to its object.      *)
LEMMA AnswerGives ==
    ASSUME IInv, EnableReturns \/ WdaAnswers
    PROVE  /\ lpc \in {"enable", "askwda"} /\ lpc' = "select" /\ cur' = 0
           /\ cur \in Made /\ cur \in Object /\ Registered(cur)
           /\ UNCHANGED <<sendq, runningDevs, used, stopped, periodic, dead, plugged,
                          told, missed, origin>>
           /\ devd' = [devd EXCEPT ![cur] = devd'[cur]]
           /\ devd'[cur] \in DevFields /\ devd'[cur].uuid = devd[cur].uuid
           /\ devd[cur].wdaStarted => devd'[cur].wdaStarted
           /\ proxy' \in [Object -> {"none", "down", "starting", "up", "busy",
                                     "closing", "ending", "gone", "deaf"}]
           /\ \A x \in Object :
                 \/ proxy'[x] = proxy[x]
                 \/ /\ x = cur /\ proxy[x] = "none" /\ proxy'[x] = "down"
                    /\ devd'[x].wdaStarted
<1>0. TypeOK /\ CurFits /\ ProxyFits
  BY DEF IInv
<1>1. /\ lpc \in {"enable", "askwda"} /\ lpc' = "select" /\ cur' = 0
      /\ UNCHANGED <<sendq, runningDevs, used, stopped, periodic, dead, plugged,
                     told, missed, origin>>
  BY DEF EnableReturns, WdaAnswers, Answered
<1>2. cur \in Made /\ cur \in Object /\ Registered(cur)
  <2>1. cur \in Made /\ Registered(cur)
    BY <1>0, <1>1 DEF CurFits
  <2>2. used \in 0..MaxObj /\ MaxObj \in Nat
    BY <1>0, ConstantAssumption DEF TypeOK
  <2>. QED
    BY <2>1, <2>2 DEF Made, Object
<1>3. PICK r \in DevFields : /\ Finish(cur, r, proxy)
                             /\ r.uuid = devd[cur].uuid
                             /\ r.wdaStarted = devd[cur].wdaStarted
  <2>1. devd[cur] \in DevFields
    BY <1>0, <1>2 DEF TypeOK, DevFields
  <2>2. CASE EnableReturns
    BY <2>1, <2>2 DEF EnableReturns, Answered
  <2>3. CASE WdaAnswers
    <3>. DEFINE beats == IF devd[cur].heartbeats = 0 THEN 1 ELSE devd[cur].heartbeats
                r == [devd[cur] EXCEPT !.heartbeats = beats, !.devUnitStarted = TRUE]
    <3>1. Finish(cur, r, proxy)
      BY <2>3 DEF WdaAnswers, Answered
    <3>2. beats \in 0..1
      BY <2>1 DEF DevFields
    <3>. HIDE DEF beats
    <3>3. r \in DevFields /\ r.uuid = devd[cur].uuid /\ r.wdaStarted = devd[cur].wdaStarted
      BY <2>1, <3>2 DEF DevFields
    <3>. HIDE DEF r
    <3>. QED
      BY <3>1, <3>3
  <2>. QED
    BY <2>2, <2>3
<1>4. /\ devd' = [devd EXCEPT ![cur] = devd'[cur]]
      /\ devd'[cur] \in DevFields /\ devd'[cur].uuid = r.uuid
      /\ r.wdaStarted => devd'[cur].wdaStarted
      /\ proxy' \in [Object -> {"none", "down", "starting", "up", "busy",
                                "closing", "ending", "gone", "deaf"}]
      /\ \A x \in Object :
            \/ proxy'[x] = proxy[x]
            \/ x = cur /\ proxy'[x] = "down" /\ devd'[x].wdaStarted /\ ~r.wdaStarted
  <2>1. proxy \in [Object -> {"none", "down", "starting", "up", "busy",
                              "closing", "ending", "gone", "deaf"}]
    BY <1>0 DEF TypeOK
  <2>. QED
    BY <1>0, <1>2, <1>3, <2>1, FinishFits
<1>5. ~r.wdaStarted => proxy[cur] = "none"
  BY <1>0, <1>2, <1>3 DEF ProxyFits
<1>. QED
  BY <1>1, <1>2, <1>3, <1>4, <1>5

(* The answers of a phone close no object.                                 *)
LEMMA AnswerIInv ==
    ASSUME IInv, EnableReturns \/ WdaAnswers
    PROVE  IInv'
<1>0. TypeOK /\ CurFits /\ ObjectsFit /\ ProxyFits /\ QueueFits
      /\ PeriodicEndsFirst /\ ClosedGivenUp /\ ViewFits
  BY DEF IInv
<1>1. /\ lpc \in {"enable", "askwda"} /\ lpc' = "select" /\ cur' = 0
      /\ cur \in Made /\ cur \in Object /\ Registered(cur)
      /\ UNCHANGED <<sendq, runningDevs, used, stopped, periodic, dead, plugged,
                     told, missed, origin>>
      /\ devd' = [devd EXCEPT ![cur] = devd'[cur]]
      /\ devd'[cur] \in DevFields /\ devd'[cur].uuid = devd[cur].uuid
      /\ devd[cur].wdaStarted => devd'[cur].wdaStarted
      /\ proxy' \in [Object -> {"none", "down", "starting", "up", "busy",
                                "closing", "ending", "gone", "deaf"}]
      /\ \A x \in Object :
            \/ proxy'[x] = proxy[x]
            \/ /\ x = cur /\ proxy[x] = "none" /\ proxy'[x] = "down"
               /\ devd'[x].wdaStarted
  BY AnswerGives
<1>2. /\ devd' \in [Object -> DevFields]
      /\ \A x \in Object : /\ devd'[x].uuid = devd[x].uuid
                           /\ devd[x].wdaStarted => devd'[x].wdaStarted
  <2>1. devd \in [Object -> DevFields]
    BY <1>0 DEF TypeOK, DevFields
  <2>. QED
    BY <1>1, <2>1
<1>3. TypeOK'
  <2>1. lpc' \in {"select"} /\ cur' \in {0} \cup Object
    BY <1>1
  <2>. QED
    BY <1>0, <1>1, <1>2, <2>1 DEF TypeOK, DevFields
<1>4. Made' = Made /\ Made \subseteq Object
  <2>1. used \in 0..MaxObj /\ MaxObj \in Nat /\ used' = used
    BY <1>0, <1>1, ConstantAssumption DEF TypeOK
  <2>. QED
    BY <2>1 DEF Made, Object
<1>5. CurFits'
  BY <1>1 DEF CurFits
<1>6. ObjectsFit'
  <2>1. \A x \in Object : x \notin Made => proxy'[x] = "none" /\ periodic'[x] = "none"
    BY <1>0, <1>1 DEF ObjectsFit
  <2>2. \A d \in Device : Known(d)' => /\ runningDevs'[d] \in Made'
                                       /\ devd'[runningDevs'[d]].uuid = d
    BY <1>0, <1>1, <1>2, <1>4 DEF ObjectsFit, Known
  <2>3. \A d \in Device, x \in Made' :
           Known(d)' /\ devd'[x].uuid = d => x <= runningDevs'[d]
    BY <1>0, <1>1, <1>2, <1>4 DEF ObjectsFit, Known
  <2>. QED
    BY <1>4, <2>1, <2>2, <2>3 DEF ObjectsFit
<1>7. ProxyFits'
  <2>1. \A x \in Object : stopped'[x] => proxy'[x] = proxy[x]
    BY <1>0, <1>1 DEF ProxyFits
  <2>. QED
    BY <1>0, <1>1, <1>2, <2>1 DEF ProxyFits
<1>8. QueueFits'
  <2>1. \A i \in 1..Len(sendq) : sendq[i].src # 0 => sendq[i].src \in Object
    <3>1. \A i \in 1..Len(sendq) : sendq[i] \in Event
      <4>1. sendq \in Seq(Event)
        BY <1>0 DEF TypeOK, Event
      <4>. QED
        BY <4>1
    <3>. QED
      BY <3>1 DEF Event
  <2>. QED
    BY <1>0, <1>1, <2>1 DEF QueueFits
<1>9. \A x \in Object : Closed(x)' => Closed(x) /\ x # cur
  BY <1>1, <1>2, <1>4 DEF Closed, Registered
<1>10. PeriodicEndsFirst'
  BY <1>0, <1>1, <1>9 DEF PeriodicEndsFirst
<1>11. ClosedGivenUp'
  BY <1>0, <1>1, <1>9 DEF ClosedGivenUp, GivenUp
<1>12. ViewFits'
  <2>1. \A d \in Device : /\ Known(d)' <=> Known(d)
                          /\ ~Closing(d) /\ ~Closing(d)'
    BY <1>1 DEF Known, Closing, Idle
  <2>2. \A d \in Device : PluggedFits(d) => PluggedFits(d)'
    BY <1>1, <2>1 DEF PluggedFits, Waits
  <2>3. \A d \in Device : UnpluggedFits(d) => UnpluggedFits(d)'
    BY <1>1, <2>1 DEF UnpluggedFits, Waits
  <2>. QED
    BY <1>0, <1>1, <2>1, <2>2, <2>3 DEF ViewFits
<1>. QED
  BY <1>3, <1>5, <1>6, <1>7, <1>8, <1>10, <1>11, <1>12 DEF IInv

(* A panic leaves everything as it is.                                     *)
LEMMA PanicIInv ==
    ASSUME IInv, AnswerPanics
    PROVE  IInv'
<1>1. /\ UNCHANGED <<lpc, cur, sendq, runningDevs, used, devd, proxy, stopped, periodic,
                     plugged, told, missed, origin>>
      /\ dead' \in BOOLEAN
  BY DEF AnswerPanics
<1>2. SameDevices
  BY <1>1 DEF SameDevices
<1>3. CurFits' /\ ObjectsFit' /\ ViewFits' /\ \A x \in Object : Closed(x)' <=> Closed(x)
  BY <1>1, <1>2, SameDevicesKeep, QuietView DEF IInv, ObjectsFit
<1>4. TypeOK' /\ ProxyFits' /\ QueueFits'
  BY <1>1 DEF IInv, TypeOK, ProxyFits, QueueFits
<1>5. PeriodicEndsFirst' /\ ClosedGivenUp'
  BY <1>1, <1>3 DEF IInv, PeriodicEndsFirst, ClosedGivenUp, GivenUp
<1>. QED
  BY <1>3, <1>4, <1>5 DEF IInv
-----------------------------------------------------------------------------
(* What the steps of a wdaproxy's supervisor have in common.               *)
LEMMA ProxyMoves ==
    ASSUME TypeOK, NEW o \in Object, Proxy(o)
    PROVE  /\ ~dead
           /\ UNCHANGED <<lpc, cur, runningDevs, used, stopped, periodic, dead, plugged,
                          told, missed, origin>>
           /\ devd' \in [Object -> DevFields]
           /\ \A x \in Object : /\ devd'[x].uuid = devd[x].uuid
                                /\ devd'[x].wdaStarted = devd[x].wdaStarted
                                /\ devd'[x].wda # devd[x].wda =>
                                      x = o /\ (devd'[x].wda => proxy'[x] = "busy")
           /\ \A x \in Object : x # o => proxy'[x] = proxy[x]
           /\ <<proxy[o], proxy'[o]>> \in {<<"down", "starting">>, <<"starting", "up">>,
                 <<"starting", "deaf">>, <<"up", "closing">>, <<"up", "busy">>,
                 <<"closing", "ending">>, <<"ending", "down">>, <<"ending", "gone">>}
           /\ proxy[o] = "ending" => proxy'[o] = IF stopped[o] THEN "gone" ELSE "down"
           /\ \/ UNCHANGED sendq /\ proxy'[o] # "busy"
              \/ \E e \in Event : /\ sendq' = Append(sendq, e)
                                  /\ e.action \notin {"connect", "disconnect"}
                                  /\ e.src = o /\ proxy'[o] = "busy"
<1>0. devd \in [Object -> DevFields] /\ proxy \in [Object -> {"none", "down", "starting",
         "up", "busy", "closing", "ending", "gone", "deaf"}]
  BY DEF TypeOK, DevFields
<1>1. ASSUME NEW b \in BOOLEAN, devd' = [devd EXCEPT ![o].wda = b]
      PROVE  /\ devd' \in [Object -> DevFields] /\ devd'[o].wda = b
             /\ \A x \in Object : /\ devd'[x].uuid = devd[x].uuid
                                  /\ devd'[x].wdaStarted = devd[x].wdaStarted
                                  /\ x # o => devd'[x] = devd[x]
  BY <1>0, <1>1 DEF DevFields
<1>2. /\ ~dead
      /\ UNCHANGED <<lpc, cur, runningDevs, used, stopped, periodic, dead, plugged,
                     told, missed, origin>>
      /\ \A x \in Object : x # o => proxy'[x] = proxy[x]
  BY <1>0 DEF Proxy, ProxyLaunch, ProxyListens, ProxyFails, ProxyExits, ProxyCloses, ProxyEnds,
             WdaStarted, WdaFailed, Move
<1>3. CASE ProxyLaunch(o) \/ ProxyListens(o) \/ ProxyFails(o) \/ ProxyExits(o) \/ ProxyCloses(o)
  BY <1>0, <1>2, <1>3 DEF ProxyLaunch, ProxyListens, ProxyFails, ProxyExits, ProxyCloses, Move
<1>4. CASE ProxyEnds(o)
  <2>1. devd' = [devd EXCEPT ![o].wda = FALSE] /\ UNCHANGED sendq
    BY <1>4 DEF ProxyEnds
  <2>2. proxy[o] = "ending" /\ proxy'[o] = IF stopped[o] THEN "gone" ELSE "down"
    BY <1>0, <1>4 DEF ProxyEnds, Move
  <2>. QED
    BY <1>1, <1>2, <2>1, <2>2
<1>5. CASE WdaStarted(o) \/ WdaFailed(o)
  <2>1. proxy[o] = "up" /\ proxy'[o] = "busy"
    BY <1>0, <1>5 DEF WdaStarted, WdaFailed, Move
  <2>2. PICK act \in {"wdaStarted", "wdaFailed"} :
           sendq' = Append(sendq, [action |-> act, uuid |-> devd[o].uuid, src |-> o])
    BY <1>5 DEF WdaStarted, WdaFailed, Post
  <2>3. /\ [action |-> act, uuid |-> devd[o].uuid, src |-> o] \in Event
        /\ act \notin {"connect", "disconnect"}
    BY <1>0 DEF Event, Action, DevFields
  <2>4. devd' = [devd EXCEPT ![o].wda = TRUE] \/ devd' = devd
    BY <1>5 DEF WdaStarted, WdaFailed
  <2>5. \E e \in Event : /\ sendq' = Append(sendq, e)
                         /\ e.action \notin {"connect", "disconnect"}
                         /\ e.src = o /\ proxy'[o] = "busy"
    BY <2>1, <2>2, <2>3
  <2>. QED
    BY <1>0, <1>1, <1>2, <2>1, <2>4, <2>5
<1>. QED
  BY <1>3, <1>4, <1>5 DEF Proxy

(* The supervisors.                                                        *)
LEMMA ProxyIInv ==
    ASSUME IInv, NEW o \in Object, Proxy(o)
    PROVE  IInv'
<1>0. TypeOK /\ CurFits /\ ObjectsFit /\ ProxyFits /\ QueueFits
      /\ PeriodicEndsFirst /\ ClosedGivenUp /\ ViewFits
  BY DEF IInv
<1>1. /\ UNCHANGED <<lpc, cur, runningDevs, used, stopped, periodic, dead, plugged,
                     told, missed, origin>>
      /\ devd' \in [Object -> DevFields]
      /\ \A x \in Object : /\ devd'[x].uuid = devd[x].uuid
                           /\ devd'[x].wdaStarted = devd[x].wdaStarted
      /\ \A x \in Object : x # o => proxy'[x] = proxy[x]
  BY <1>0, ProxyMoves
<1>2. <<proxy[o], proxy'[o]>> \in {<<"down", "starting">>, <<"starting", "up">>,
        <<"starting", "deaf">>, <<"up", "closing">>, <<"up", "busy">>,
        <<"closing", "ending">>, <<"ending", "down">>, <<"ending", "gone">>}
      /\ (proxy[o] = "ending" => proxy'[o] = IF stopped[o] THEN "gone" ELSE "down")
  BY <1>0, ProxyMoves
<1>3. SameDevices
  BY <1>1 DEF SameDevices
<1>4. \A x \in Object : x \notin Made => proxy'[x] = "none" /\ periodic'[x] = "none"
  BY <1>0, <1>1, <1>2 DEF ObjectsFit
<1>5. /\ CurFits' /\ ObjectsFit'
      /\ lpc # "select" => cur \in Object
      /\ \A x \in Object : Closed(x)' <=> Closed(x)
  BY <1>0, <1>3, <1>4, SameDevicesKeep
<1>6. ProxyFits'
  BY <1>0, <1>1, <1>2 DEF ProxyFits
<1>7. /\ sendq' \in Seq(Event)
      /\ QueueFits'
      /\ ViewFits'
  <2>1. sendq \in Seq(Event)
    BY <1>0 DEF TypeOK, Event
  <2>2. \A x \in Object : proxy[x] = "busy" => proxy'[x] = "busy"
    BY <1>1, <1>2
  <2>3. CASE UNCHANGED sendq
    <3>1. QueueFits'
      <4>1. \A i \in 1..Len(sendq) : sendq[i].src # 0 => sendq[i].src \in Object
        <5>1. \A i \in 1..Len(sendq) : sendq[i] \in Event
          BY <2>1
        <5>. QED
          BY <5>1 DEF Event
      <4>. QED
        BY <1>0, <2>2, <2>3, <4>1 DEF QueueFits
    <3>. QED
      BY <1>0, <1>1, <1>3, <2>1, <2>3, <3>1, QuietView
  <2>4. ASSUME NEW e \in Event, sendq' = Append(sendq, e),
               e.action \notin {"connect", "disconnect"}, e.src = o, proxy'[o] = "busy"
        PROVE  sendq' \in Seq(Event) /\ QueueFits' /\ ViewFits'
    <3>1. proxy[o] # "busy"
      BY <1>2
    <3>. QED
      BY <1>0, <1>1, <1>3, <2>2, <2>4, <3>1, PostQueue, PostView
  <2>5. \/ UNCHANGED sendq
        \/ \E e \in Event : /\ sendq' = Append(sendq, e)
                            /\ e.action \notin {"connect", "disconnect"}
                            /\ e.src = o /\ proxy'[o] = "busy"
    BY <1>0, ProxyMoves
  <2>. QED
    BY <2>3, <2>4, <2>5
<1>8. TypeOK'
  <2>1. proxy' \in [Object -> {"none", "down", "starting", "up", "busy",
                               "closing", "ending", "gone", "deaf"}]
    <3>1. proxy' = [proxy EXCEPT ![o] = proxy'[o]]
      BY <1>0 DEF TypeOK, Proxy, ProxyLaunch, ProxyListens, ProxyFails, ProxyExits,
                  ProxyCloses, ProxyEnds, WdaStarted, WdaFailed, Move
    <3>. QED
      BY <1>0, <1>2, <3>1 DEF TypeOK
  <2>. QED
    BY <1>0, <1>1, <1>7, <2>1 DEF TypeOK, DevFields, Event
<1>9. PeriodicEndsFirst'
  BY <1>0, <1>1, <1>5 DEF PeriodicEndsFirst
<1>10. ClosedGivenUp'
  BY <1>0, <1>1, <1>2, <1>5 DEF ClosedGivenUp, GivenUp
<1>. QED
  BY <1>5, <1>6, <1>7, <1>8, <1>9, <1>10 DEF IInv

(* The periodic goroutines.                                                *)
LEMMA PeriodicIInv ==
    ASSUME IInv, NEW o \in Object, PeriodicStep(o)
    PROVE  IInv'
<1>0. TypeOK /\ CurFits /\ ObjectsFit /\ ProxyFits /\ QueueFits
      /\ PeriodicEndsFirst /\ ClosedGivenUp /\ ViewFits
  BY DEF IInv
<1>1. /\ UNCHANGED <<cur, sendq, runningDevs, used, devd, proxy, stopped, plugged,
                     told, missed, origin>>
      /\ periodic[o] \in {"sleep", "asking", "waitup", "poll"}
      /\ periodic' \in [Object -> {"none", "sleep", "asking", "waitup", "poll", "ended"}]
      /\ \A x \in Object : x # o => periodic'[x] = periodic[x]
      /\ dead' \in BOOLEAN
      /\ \/ lpc' = lpc
         \/ lpc = "stopping" /\ cur = o /\ periodic'[o] = "ended" /\ lpc' = "kill"
  BY <1>0 DEF PeriodicStep, Minute, RestartDue, RestartTaken, WdaIsUp, PollEnd, Periodic, TypeOK
<1>2. SameDevices
  BY <1>1 DEF SameDevices, Idle
<1>3. \A x \in Object : x \notin Made => proxy'[x] = "none" /\ periodic'[x] = "none"
  BY <1>0, <1>1 DEF ObjectsFit
<1>4. /\ CurFits' /\ ObjectsFit'
      /\ lpc # "select" => cur \in Object
      /\ \A x \in Object : Closed(x)' <=> Closed(x)
  BY <1>0, <1>2, <1>3, SameDevicesKeep
<1>5. TypeOK'
  BY <1>0, <1>1 DEF TypeOK
<1>6. ProxyFits' /\ QueueFits'
  BY <1>0, <1>1 DEF ProxyFits, QueueFits
<1>7. ViewFits'
  BY <1>0, <1>1, <1>2, QuietView
<1>8. PeriodicEndsFirst'
  BY <1>0, <1>1, <1>4 DEF PeriodicEndsFirst
<1>9. ClosedGivenUp'
  BY <1>0, <1>1, <1>4 DEF ClosedGivenUp, GivenUp
<1>. QED
  BY <1>4, <1>5, <1>6, <1>7, <1>8, <1>9 DEF IInv
-----------------------------------------------------------------------------
(* The coordinator begins with no device and nothing that waits.           *)
LEMMA InitIInv == Init => IInv
<1>. SUFFICES ASSUME Init PROVE IInv
  OBVIOUS
<1>1. devd \in [Object -> DevFields] /\ \A o \in Object : ~devd[o].wdaStarted
  <2>1. (CHOOSE d \in Device : TRUE) \in Device
    BY ConstantAssumption
  <2>2. NewDev(CHOOSE d \in Device : TRUE) \in DevFields
        /\ ~NewDev(CHOOSE d \in Device : TRUE).wdaStarted
    BY <2>1, NewDevFields
  <2>. QED
    BY <2>2 DEF Init
<1>2. sendq \in Seq(Event) /\ Len(sendq) = 0
  BY DEF Init
<1>3. TypeOK
  <2>1. /\ runningDevs \in [Device -> {0} \cup Object]
        /\ told \in [Device -> {"nothing", "connected", "gone"}]
        /\ used \in 0..MaxObj
    BY ConstantAssumption DEF Init
  <2>2. /\ proxy \in [Object -> {"none", "down", "starting", "up", "busy",
                                 "closing", "ending", "gone", "deaf"}]
        /\ stopped \in [Object -> BOOLEAN]
        /\ periodic \in [Object -> {"none", "sleep", "asking", "waitup", "poll", "ended"}]
        /\ origin \in [Object -> Action \cup {"none"}]
    BY DEF Init
  <2>. QED
    BY <1>1, <1>2, <2>1, <2>2 DEF Init, TypeOK, DevFields, Event
<1>4. Made = {}
  BY DEF Init, Made
<1>5. CurFits /\ ObjectsFit /\ ProxyFits /\ PeriodicEndsFirst /\ ClosedGivenUp
  BY <1>1, <1>4 DEF Init, CurFits, ObjectsFit, ProxyFits, PeriodicEndsFirst, ClosedGivenUp,
                    Known, Closed
<1>6. QueueFits
  BY <1>2 DEF QueueFits
<1>7. ViewFits
  BY <1>2 DEF Init, ViewFits, UnpluggedFits, Known
<1>. QED
  BY <1>3, <1>5, <1>6, <1>7 DEF IInv

(* Every step of the loop and of the threads it meets preserves the        *)
(* invariant.                                                              *)
LEMMA NextIInv == IInv /\ [Next]_vars => IInv'
<1>. SUFFICES ASSUME IInv, [Next]_vars PROVE IInv'
  OBVIOUS
<1>1. CASE Environment
  BY <1>1, EnvironmentIInv
<1>2. CASE Handler
  BY <1>2, HandlerIInv
<1>3. CASE KillProxy \/ KillOtherWaits \/ KillTaken
  BY <1>3, KillIInv
<1>4. CASE ForgetDevice
  BY <1>4, ForgetIInv
<1>5. ASSUME NEW o \in Object, Proxy(o) PROVE IInv'
  BY <1>5, ProxyIInv
<1>6. ASSUME NEW o \in Object, PeriodicStep(o) PROVE IInv'
  BY <1>6, PeriodicIInv
<1>7. CASE UNCHANGED vars
  <2>1. SameDevices /\ UNCHANGED <<sendq, plugged, lpc, devd, proxy, stopped, periodic, dead, missed>>
    BY <1>7 DEF vars, SameDevices
  <2>2. CurFits' /\ ObjectsFit' /\ ViewFits' /\ \A x \in Object : Closed(x)' <=> Closed(x)
    BY <2>1, SameDevicesKeep, QuietView DEF IInv, ObjectsFit
  <2>3. TypeOK' /\ ProxyFits' /\ QueueFits'
    BY <1>7 DEF IInv, vars, TypeOK, ProxyFits, QueueFits
  <2>4. PeriodicEndsFirst' /\ ClosedGivenUp'
    BY <1>7, <2>2 DEF IInv, vars, PeriodicEndsFirst, ClosedGivenUp, GivenUp
  <2>. QED
    BY <2>2, <2>3, <2>4 DEF IInv
<1>8. CASE EnableReturns \/ WdaAnswers
  BY <1>8, AnswerIInv
<1>9. CASE AnswerPanics
  BY <1>9, PanicIInv
<1>. QED
  BY <1>1, <1>2, <1>3, <1>4, <1>5, <1>6, <1>7, <1>8, <1>9 DEF Next, Loop

(* The invariant holds in every behaviour.                                 *)
THEOREM Invariance == Spec => []IInv
  BY InitIInv, NextIInv, PTL DEF Spec

(* The state keeps its types, and a device that starts WDA again and again *)
(* has one heartbeat (coordinator.go:811-813).                             *)
THEOREM TypeCorrect == Spec => []TypeOK
<1>1. IInv => TypeOK
  BY DEF IInv
<1>. QED
  BY Invariance, <1>1, PTL

(* No goroutine that restarts wdaproxy outlives its device object.         *)
THEOREM NoPeriodicLeftOver == Spec => []PeriodicEndsFirst
<1>1. IInv => PeriodicEndsFirst
  BY DEF IInv
<1>. QED
  BY Invariance, <1>1, PTL

(* However often a phone is plugged in again, an older wdaproxy of it is   *)
(* alive only if told to stop, or if its Kill was dropped.                 *)
THEOREM OneProxyPerPhone == Spec => []OneLiveProxy
<1>1. ASSUME IInv PROVE OneLiveProxy
  <2>. SUFFICES ASSUME NEW o1 \in Made, NEW o2 \in Made, o1 < o2,
                       devd[o1].uuid = devd[o2].uuid, proxy[o1] \in Alive
                PROVE  stopped[o1] \/ o1 \in missed
    BY DEF OneLiveProxy
  <2>1. used \in 0..MaxObj /\ MaxObj \in Nat /\ devd[o2].uuid \in Device
        /\ o1 \in Object /\ o2 \in Object /\ o1 \in Nat /\ o2 \in Nat
    BY <1>1, ConstantAssumption DEF IInv, TypeOK, Made, Object
  <2>2. ~Registered(o1)
    <3>1. Registered(o1) => Known(devd[o2].uuid) /\ runningDevs[devd[o2].uuid] = o1
      BY <2>1, ConstantAssumption DEF Registered, Known, Object
    <3>2. Registered(o1) => o2 <= o1
      BY <1>1, <2>1, <3>1 DEF IInv, ObjectsFit
    <3>. QED
      BY <2>1, <3>2
  <2>3. GivenUp(o1)
    BY <1>1, <2>1, <2>2 DEF IInv, ClosedGivenUp, Closed
  <2>. QED
    BY <2>3 DEF GivenUp, Alive
<1>. QED
  BY Invariance, <1>1, PTL

(* When the loop waits and nothing is pending, its devices are the phones  *)
(* that are plugged in, but for the ghosts that late events make.          *)
THEOREM ViewIsRight == Spec => []ViewSettles
<1>1. ASSUME IInv, lpc = "select", sendq = <<>>, NEW d \in Device
      PROVE  /\ d \in plugged => Known(d)
             /\ Known(d) => d \in plugged \/ origin[runningDevs[d]] # "connect"
             /\ told[d] = "connected" => Known(d)
  <2>1. IF d \in plugged THEN PluggedFits(d) ELSE UnpluggedFits(d)
    BY <1>1 DEF IInv, ViewFits
  <2>2. 1..Len(sendq) = {} /\ ~Closing(d)
    BY <1>1 DEF Closing, Idle
  <2>3. told[d] = "connected" => Known(d)
    BY <1>1 DEF IInv, ViewFits
  <2>. QED
    BY <2>1, <2>2, <2>3 DEF PluggedFits, UnpluggedFits
<1>2. IInv => ViewSettles
  BY <1>1 DEF ViewSettles
<1>. QED
  BY Invariance, <1>2, PTL
-----------------------------------------------------------------------------
(* Once the loop waits for a thread that cannot answer, or a disconnect    *)
(* has met a restart in progress, the loop handles no further event.       *)
THEOREM DeadlockStays == Spec => DeadlockIsForever
<1>1. ASSUME IInv, [Next]_vars, Deadlocked \/ Doomed
      PROVE  Deadlocked' \/ Doomed' \/ dead'
  <2>0. /\ TypeOK
        /\ lpc \in {"lost", "stopping", "kill", "killwait"}
        /\ cur \in Object
    <3>1. lpc \in {"lost", "stopping", "kill", "killwait"}
      BY <1>1 DEF Deadlocked, Doomed
    <3>. QED
      BY <1>1, <3>1, ConstantAssumption DEF IInv, CurFits, Made, Object, TypeOK
  <2>1. CASE UNCHANGED vars
    BY <1>1, <2>1 DEF vars, Deadlocked, Doomed
  <2>2. CASE Environment
    BY <1>1, <2>2 DEF Environment, deviceConnect, deviceDisconnect, newInterface,
                      handleFrame, Request, Deadlocked, Doomed
  <2>3. CASE Handler \/ ForgetDevice \/ EnableReturns \/ WdaAnswers \/ AnswerPanics
    <3>1. lpc \in {"select", "delete", "enable", "askwda"}
      BY <2>3 DEF Handler, HandleConnect, HandleInterface, HandleFrame, HandleWdaStarted,
                  HandleWdaFailed, HandleDisconnect, HandleAndAsk, Handle, Receive,
                  ForgetDevice, EnableReturns, WdaAnswers, Answered, AnswerPanics, AskingPhone
    <3>. QED
      BY <2>0, <3>1
  <2>4. CASE KillProxy \/ KillOtherWaits \/ KillTaken
    BY <1>1, <2>0, <2>4 DEF KillProxy, KillOtherWaits, KillTaken, Silent, Deadlocked, Doomed
  <2>5. ASSUME NEW o \in Object, Proxy(o)
        PROVE  Deadlocked' \/ Doomed' \/ dead'
    <3>1. /\ UNCHANGED <<lpc, cur, periodic>>
          /\ proxy[o] \notin {"busy", "deaf"}
          /\ \A x \in Object : x # o => proxy'[x] = proxy[x]
          /\ \A x \in Object : devd'[x].wda => devd[x].wda \/ proxy'[x] = "busy"
      BY <1>1, <2>0, <2>5, ProxyMoves DEF IInv
    <3>. QED
      BY <1>1, <2>0, <3>1 DEF Deadlocked, Doomed
  <2>6. ASSUME NEW o \in Object, PeriodicStep(o)
        PROVE  Deadlocked' \/ Doomed' \/ dead'
    <3>1. CASE PollEnd(o)
      BY <1>1, <2>0, <3>1 DEF PollEnd, Periodic, Deadlocked, Doomed, TypeOK
    <3>2. CASE Minute(o) \/ RestartDue(o) \/ RestartTaken(o) \/ WdaIsUp(o)
      BY <1>1, <2>0, <3>2 DEF Minute, RestartDue, RestartTaken, WdaIsUp, Periodic,
                              Deadlocked, Doomed, TypeOK
    <3>. QED
      BY <2>6, <3>1, <3>2 DEF PeriodicStep
  <2>. QED
    BY <1>1, <2>1, <2>2, <2>3, <2>4, <2>5, <2>6 DEF Next, Loop
<1>. QED
  BY <1>1, Invariance, PTL DEF Spec, DeadlockIsForever
-----------------------------------------------------------------------------
(* The loop and the periodic goroutine as callers of a supervisor, written *)
(* as Supervisor's variables are.                                          *)
PhaseOf(o) == IF proxy[o] \in {"none", "ending"} THEN "down" ELSE proxy[o]
AskingOf(o) == {c \in {"loop", "periodic"} :
                   IF c = "loop" THEN lpc = "killwait" /\ cur = o
                                 ELSE periodic[o] = "asking"}

(* A step that leaves an object's requests alone moves its supervisor as   *)
(* Supervisor allows, or not at all.                                       *)
LEMMA MovesAreSupervised ==
    ASSUME NEW o \in Object, UNCHANGED <<stopped[o], AskingOf(o)>>,
           \/ PhaseOf(o)' = PhaseOf(o)
           \/ <<PhaseOf(o), PhaseOf(o)'>> \in
                 {<<"starting", "up">>, <<"starting", "deaf">>, <<"up", "busy">>,
                  <<"busy", "up">>, <<"up", "closing">>, <<"closing", "down">>,
                  <<"down", "gone">>}
           \/ PhaseOf(o) = "down" /\ PhaseOf(o)' = "starting" /\ ~stopped[o]
    PROVE  [Sup(o)!Next]_(Sup(o)!vars)
  BY DEF PhaseOf, AskingOf, Sup!Next, Sup!vars, Sup!Launch, Sup!Listen, Sup!GiveUp, Sup!Handle,
         Sup!Handled, Sup!ChildGone, Sup!Close, Sup!Retire, Sup!Move

(* A request that finds a command waits.                                   *)
LEMMA AsksAreSupervised ==
    ASSUME NEW o \in Object, NEW c \in {"loop", "periodic"},
           UNCHANGED <<stopped[o], PhaseOf(o)>>, PhaseOf(o) \notin {"down", "gone"},
           c \notin AskingOf(o), AskingOf(o)' = AskingOf(o) \cup {c}
    PROVE  [Sup(o)!Next]_(Sup(o)!vars)
  BY DEF PhaseOf, AskingOf, Sup!Next, Sup!Ask, Sup!Silent

(* A request is taken by a supervisor that listens.                        *)
LEMMA TakesAreSupervised ==
    ASSUME NEW o \in Object, NEW c \in {"loop", "periodic"},
           UNCHANGED PhaseOf(o), PhaseOf(o) = "up", stopped'[o] \in {stopped[o], TRUE},
           c \in AskingOf(o), AskingOf(o)' = AskingOf(o) \ {c}
    PROVE  [Sup(o)!Next]_(Sup(o)!vars)
  BY DEF PhaseOf, AskingOf, Sup!Next, Sup!Take

(* The supervisor of each wdaproxy, and the threads that Kill and Restart  *)
(* it, do only what module Supervisor allows.                              *)
THEOREM ProxiesImplementSupervisor == Spec => ProxiesAreSupervised
<1>1. Init => \A o \in Object : Sup(o)!Init
  BY DEF Init, Sup!Init
<1>2. ASSUME IInv, [Next]_vars, NEW o \in Object
      PROVE  [Sup(o)!Next]_(Sup(o)!vars)
  <2>0. TypeOK /\ ObjectsFit /\ ProxyFits /\ QueueFits
    BY <1>2 DEF IInv
  <2>1. ASSUME UNCHANGED <<proxy, stopped, lpc, cur, periodic>>
        PROVE  [Sup(o)!Next]_(Sup(o)!vars)
    BY <2>1, MovesAreSupervised DEF PhaseOf, AskingOf
  <2>2. CASE Environment
    BY <2>1, <2>2 DEF Environment, deviceConnect, deviceDisconnect, newInterface,
                      handleFrame, Request
  <2>3. CASE Handler
    <3>1. PICK e, d : HandlesHead(e, d)
      BY <2>0, <2>3, HandlerHandles
    <3>2. UNCHANGED AskingOf(o)
      <4>1. lpc = "select" /\ lpc' # "killwait"
        BY <3>1 DEF HandlesHead, Idle
      <4>2. periodic[o] = "asking" <=> periodic'[o] = "asking"
        <5>1. CASE UNCHANGED periodic
          BY <5>1
        <5>2. CASE /\ d = used + 1 /\ d \in Object
                   /\ periodic' = [periodic EXCEPT ![d] = "sleep"]
          <6>1. periodic[d] = "none"
            BY <2>0, <5>2 DEF ObjectsFit, Made, TypeOK
          <6>. QED
            BY <2>0, <5>2, <6>1 DEF TypeOK
        <5>. QED
          BY <3>1, <5>1, <5>2 DEF HandlesHead
      <4>. QED
        BY <4>1, <4>2 DEF AskingOf
    <3>3. \/ proxy'[o] = proxy[o]
          \/ proxy[o] = "busy" /\ proxy'[o] = "up"
          \/ proxy[o] = "none" /\ proxy'[o] = "down"
      <4>1. o = e.src => proxy[o] = "busy"
        <5>1. sendq \in Seq(Event) /\ sendq # <<>> /\ e = Head(sendq)
          BY <2>0, <3>1 DEF HandlesHead, TypeOK, Event
        <5>2. e = sendq[1] /\ 1 \in 1..Len(sendq)
          BY <5>1
        <5>3. o # 0
          BY DEF Object
        <5>. QED
          BY <2>0, <5>2, <5>3 DEF QueueFits
      <4>2. o = d /\ ~(Known(e.uuid) /\ devd[o].wdaStarted) => proxy[o] = "none"
        <5>1. CASE Known(e.uuid)
          BY <2>0, <5>1 DEF ProxyFits
        <5>2. CASE ~Known(e.uuid)
          <6>1. d = used + 1 
            BY <3>1, <5>2 DEF HandlesHead
          <6>. QED
            BY <2>0, <6>1 DEF ObjectsFit, Made, TypeOK
        <5>. QED
          BY <5>1, <5>2
      <4>. QED
        BY <3>1, <4>1, <4>2 DEF HandlesHead
    <3>. QED
      BY <3>1, <3>2, <3>3, MovesAreSupervised DEF HandlesHead, PhaseOf
  <2>4. CASE KillProxy
    <3>1. /\ lpc = "kill" /\ UNCHANGED <<cur, proxy, stopped, periodic>>
          /\ lpc' = IF proxy[cur] \in Silent THEN "delete" ELSE "killwait"
      BY <2>4 DEF KillProxy
    <3>2. CASE o = cur /\ proxy[cur] \notin Silent
      <4>1. PhaseOf(o) \notin {"down", "gone"} /\ UNCHANGED PhaseOf(o)
        BY <3>1, <3>2 DEF PhaseOf, Silent
      <4>2. "loop" \notin AskingOf(o) /\ AskingOf(o)' = AskingOf(o) \cup {"loop"}
        BY <3>1, <3>2 DEF AskingOf
      <4>. QED
        BY <3>1, <4>1, <4>2, AsksAreSupervised
    <3>3. CASE o # cur \/ proxy[cur] \in Silent
      BY <3>1, <3>3, MovesAreSupervised DEF PhaseOf, AskingOf
    <3>. QED
      BY <3>2, <3>3
  <2>5. CASE KillOtherWaits \/ ForgetDevice
    <3>1. lpc # "killwait" /\ lpc' # "killwait" /\ UNCHANGED <<proxy, stopped, periodic>>
      BY <2>5 DEF KillOtherWaits, ForgetDevice
    <3>. QED
      BY <3>1, MovesAreSupervised DEF PhaseOf, AskingOf
  <2>6. CASE KillTaken
    <3>1. /\ lpc = "killwait" /\ proxy[cur] = "up" /\ lpc' = "delete"
          /\ UNCHANGED <<cur, proxy, periodic>>
          /\ stopped' = [stopped EXCEPT ![cur] = TRUE]
      BY <2>6 DEF KillTaken
    <3>2. CASE o = cur
      <4>1. "loop" \in AskingOf(o) /\ AskingOf(o)' = AskingOf(o) \ {"loop"}
        BY <3>1, <3>2 DEF AskingOf
      <4>2. PhaseOf(o) = "up" /\ UNCHANGED PhaseOf(o) /\ stopped'[o] \in {stopped[o], TRUE}
        BY <2>0, <3>1, <3>2 DEF PhaseOf, TypeOK
      <4>. QED
        BY <4>1, <4>2, TakesAreSupervised
    <3>3. CASE o # cur
      <4>1. stopped'[o] = stopped[o]
        BY <2>0, <3>1, <3>3 DEF TypeOK
      <4>. QED
        BY <3>1, <3>3, <4>1, MovesAreSupervised DEF PhaseOf, AskingOf
    <3>. QED
      BY <3>2, <3>3
  <2>7. ASSUME NEW x \in Object, Proxy(x)
        PROVE  [Sup(o)!Next]_(Sup(o)!vars)
    <3>1. UNCHANGED <<stopped, lpc, cur, periodic>> /\ (o # x => proxy'[o] = proxy[o])
      BY <2>0, <2>7, ProxyMoves
    <3>2. <<proxy[x], proxy'[x]>> \in {<<"down", "starting">>, <<"starting", "up">>,
            <<"starting", "deaf">>, <<"up", "closing">>, <<"up", "busy">>,
            <<"closing", "ending">>, <<"ending", "down">>, <<"ending", "gone">>}
      BY <2>0, <2>7, ProxyMoves
    <3>3. proxy[o] = "down" => ~stopped[o]
      BY <2>0 DEF ProxyFits
    <3>4. UNCHANGED <<stopped[o], AskingOf(o)>>
      BY <3>1 DEF AskingOf
    <3>5. \/ PhaseOf(o)' = PhaseOf(o)
          \/ <<PhaseOf(o), PhaseOf(o)'>> \in
                {<<"starting", "up">>, <<"starting", "deaf">>, <<"up", "busy">>,
                 <<"busy", "up">>, <<"up", "closing">>, <<"closing", "down">>,
                 <<"down", "gone">>}
          \/ PhaseOf(o) = "down" /\ PhaseOf(o)' = "starting" /\ ~stopped[o]
      BY <3>1, <3>2, <3>3 DEF PhaseOf
    <3>. QED
      BY <3>4, <3>5, MovesAreSupervised
  <2>8. ASSUME NEW x \in Object, PeriodicStep(x)
        PROVE  [Sup(o)!Next]_(Sup(o)!vars)
    <3>1. /\ UNCHANGED <<cur, proxy, stopped>>
          /\ lpc' # lpc => lpc = "stopping" /\ lpc' = "kill"
          /\ o # x => periodic'[o] = periodic[o]
      BY <2>0, <2>8 DEF PeriodicStep, Minute, RestartDue, RestartTaken, WdaIsUp, PollEnd,
                        Periodic, TypeOK
    <3>2. UNCHANGED <<stopped[o], PhaseOf(o)>>
      BY <3>1 DEF PhaseOf
    <3>3. CASE \/ o # x \/ Minute(x) \/ WdaIsUp(x) \/ PollEnd(x)
               \/ RestartDue(x) /\ proxy[x] \in Silent
      <4>1. periodic[o] = "asking" <=> periodic'[o] = "asking"
        BY <2>0, <3>1, <3>3 DEF Minute, RestartDue, WdaIsUp, PollEnd, Periodic, TypeOK
      <4>2. UNCHANGED AskingOf(o)
        BY <3>1, <4>1 DEF AskingOf
      <4>. QED
        BY <3>2, <4>2, MovesAreSupervised
    <3>4. CASE o = x /\ RestartDue(x) /\ proxy[x] \notin Silent
      <4>1. periodic[o] = "sleep" /\ periodic'[o] = "asking" /\ UNCHANGED <<lpc, cur>>
        BY <2>0, <3>4 DEF RestartDue, Periodic, TypeOK
      <4>2. "periodic" \notin AskingOf(o) /\ AskingOf(o)' = AskingOf(o) \cup {"periodic"}
        BY <4>1 DEF AskingOf
      <4>3. PhaseOf(o) \notin {"down", "gone"}
        BY <3>4 DEF PhaseOf, Silent
      <4>. QED
        BY <3>2, <4>2, <4>3, AsksAreSupervised
    <3>5. CASE o = x /\ RestartTaken(x)
      <4>1. /\ proxy[o] = "up" /\ periodic[o] = "asking" /\ periodic'[o] = "waitup"
            /\ UNCHANGED <<lpc, cur>>
        BY <2>0, <3>5 DEF RestartTaken, Periodic, TypeOK
      <4>2. "periodic" \in AskingOf(o) /\ AskingOf(o)' = AskingOf(o) \ {"periodic"}
        BY <4>1 DEF AskingOf
      <4>3. PhaseOf(o) = "up"
        BY <4>1 DEF PhaseOf
      <4>. QED
        BY <3>2, <4>2, <4>3, TakesAreSupervised
    <3>. QED
      BY <2>8, <3>3, <3>4, <3>5 DEF PeriodicStep
  <2>9. CASE UNCHANGED vars \/ AnswerPanics
    BY <2>1, <2>9 DEF vars, AnswerPanics
  <2>10. CASE EnableReturns \/ WdaAnswers
    <3>1. /\ lpc \in {"enable", "askwda"} /\ lpc' = "select"
          /\ UNCHANGED <<stopped, periodic>>
          /\ \A x \in Object : \/ proxy'[x] = proxy[x]
                               \/ proxy[x] = "none" /\ proxy'[x] = "down"
      BY <1>2, <2>10, AnswerGives
    <3>2. UNCHANGED AskingOf(o)
      BY <3>1 DEF AskingOf
    <3>. QED
      BY <3>1, <3>2, MovesAreSupervised DEF PhaseOf
  <2>. QED
    BY <1>2, <2>2, <2>3, <2>4, <2>5, <2>6, <2>7, <2>8, <2>9, <2>10 DEF Next, Loop
<1>3. IInv /\ [Next]_vars => \A o \in Object : [Sup(o)!Next]_(Sup(o)!vars)
  BY <1>2
<1>. QED
  BY <1>1, <1>3, Invariance, PTL DEF Spec, ProxiesAreSupervised
=============================================================================
