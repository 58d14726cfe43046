---------------------------- MODULE RestartProofs -----------------------------
(***************************************************************************)
(* Restarts by request: of a wdaproxy while its phone may be in use (module *)
(* Release), for any phones, with or without the right to reserve them; and *)
(* of the coordinator by the runner (module Runner), for any number of web *)
(* requests at a time.                                                     *)
(***************************************************************************)
EXTENDS Release, Runner, TLAPS

(* A thread in do_restart restarts a device.                               *)
AimFits == \A t \in Thread : Restarting(t) => aim[t] \in Dev

(* The event loop works on a device when it does not wait for an event.    *)
LoopFits == loop.at # "select" => loop.dev \in Dev

(* Only a wdaproxy that runs has WDA.                                      *)
WdaFits == \A d \in Dev : wda[d] => proxy[d] \in {"up", "busy"}

(* A thread whose reservation was granted is past it, the phone is the     *)
(* admin's, and no other thread restarts it.                               *)
ReservationFits ==
    /\ \A t \in Thread : pc[t] = "reserve" \/ mine[t] => AdminToken
    /\ \A t \in Thread :
          mine[t] => /\ pc[t] \in {"restart", "asking", "waitup", "release"}
                     /\ stf[aim[t]] = "admin"
                     /\ \A x \in Thread \ {t} : ~(Restarting(x) /\ aim[x] = aim[t])

IInv == TypeOK /\ AimFits /\ LoopFits /\ WdaFits /\ ReservationFits
-----------------------------------------------------------------------------
(* The threads of a device.                                                *)
LEMMA Threads ==
    /\ \A d \in Dev : Unit(d) \in Thread
    /\ \A d \in Timed : Periodic(d) \in Thread
  BY DEF Thread

(* A line that is read is one less to read.                                *)
LEMMA LineRead ==
    ASSUME NEW n \in [Dev -> Nat], NEW d \in Dev, n[d] # 0
    PROVE  [n EXCEPT ![d] = @ - 1] \in [Dev -> Nat]
<1>1. n[d] - 1 \in Nat
  OBVIOUS
<1>. QED
  BY <1>1

(* What NoMore says of the reservations is a Boolean of each thread.       *)
LEMMA NoMoreTyped == ASSUME NEW d \in Dev, NoMore(d) PROVE mine' \in [Thread -> BOOLEAN]
  BY Zenon DEF NoMore

(* A phone that is free again is nobody's reservation any more.            *)
LEMMA OthersKept ==
    ASSUME IInv, NEW d \in Dev,
           \A t \in Thread : mine'[t] => mine[t] /\ aim[t] # d,
           stf' = [stf EXCEPT ![d] = "free"], UNCHANGED <<pc, aim>>
    PROVE  ReservationFits'
<1>1. \A t \in Thread : mine'[t] => aim[t] \in Dev \ {d}
  BY DEF IInv, ReservationFits, AimFits, Restarting
<1>2. \A t \in Thread : mine'[t] => stf'[aim[t]] = stf[aim[t]]
  BY <1>1 DEF IInv, TypeOK
<1>. QED
  BY <1>2 DEF IInv, ReservationFits, Restarting

(* Users, and the output handlers of the device units.                     *)
LEMMA HandlerIInv ==
    ASSUME IInv, inputs' \in 0..MaxInputs,
           \/ (\E d \in Dev : TakesPhone(d) \/ LeavesPhone(d) \/ CommandReserve(d))
           \/ (\E d \in Dev : CommandRelease(d))
           \/ (\E d \in Dev : NowOwned(d) \/ NoLongerOwned(d))
           \/ (\E d \in Dev : Call(d))
           \/ (\E d \in Dev : Clear(d))
    PROVE  IInv'
<1>. USE ConstantAssumption, Threads DEF IInv, TypeOK
<1>1. ASSUME NEW d \in Dev, TakesPhone(d) \/ LeavesPhone(d) \/ CommandReserve(d)
      PROVE  IInv'
  <2>1. TypeOK'
    BY <1>1 DEF AimFits, Restarting, LoopFits, TakesPhone, LeavesPhone,
                CommandReserve, User, Give, loopVars, threadVars, procVars
  <2>2. AimFits' /\ LoopFits' /\ WdaFits'
    BY <1>1 DEF AimFits, Restarting, LoopFits, WdaFits, TakesPhone, LeavesPhone,
                CommandReserve, User, Give, loopVars, threadVars, procVars
  <2>3. ReservationFits'
    BY <1>1 DEF ReservationFits, Restarting, AimFits, TakesPhone, LeavesPhone,
                CommandReserve, User, Give, loopVars, threadVars, procVars
  <2>. QED
    BY <2>1, <2>2, <2>3
<1>7. ASSUME NEW d \in Dev, CommandRelease(d) PROVE IInv'
  <2>1. TypeOK'
    BY <1>7 DEF CommandRelease, Give, NoMore, loopVars, procVars
  <2>2. AimFits' /\ LoopFits' /\ WdaFits'
    BY <1>7 DEF AimFits, Restarting, LoopFits, WdaFits, CommandRelease, loopVars, procVars
  <2>3. ReservationFits'
    <3>1. /\ \A t \in Thread : mine'[t] => mine[t] /\ aim[t] # d
          /\ stf' = [stf EXCEPT ![d] = "free"]
          /\ UNCHANGED <<pc, aim>>
      BY <1>7 DEF CommandRelease, Give, NoMore
    <3>. QED
      BY <3>1, OthersKept
  <2>. QED
    BY <2>1, <2>2, <2>3
<1>2. ASSUME NEW d \in Dev, Reads(d),
             \/ pc' = pc
             \/ pc' = [pc EXCEPT ![Unit(d)] = "idle"]
             \/ pc' = [pc EXCEPT ![Unit(d)] = "call"]
      PROVE  IInv'
  <2>0. /\ lines[d] \in Nat \ {0} /\ lines' = [lines EXCEPT ![d] = @ - 1]
        /\ owner' = [owner EXCEPT ![d] = SaysOwned(d)] /\ SaysOwned(d) \in BOOLEAN
        /\ pc[Unit(d)] = "idle"
        /\ UNCHANGED <<stf, onRelease, aim, mine, wda, proxy, told, unit, loop, on, dead>>
    BY <1>2 DEF Reads, InSelect, SaysOwned, procVars, loopVars
  <2>4. owner' \in [Dev -> BOOLEAN]
    BY <2>0
  <2>6. lines' \in [Dev -> Nat]
    BY <2>0, LineRead
  <2>5. pc' \in [Thread -> {"idle", "call", "reserve", "restart", "asking", "waitup",
                            "release", "clear", "ended"}]
    BY <1>2
  <2>1. TypeOK'
    BY <2>0, <2>4, <2>5, <2>6
  <2>2. AimFits' /\ LoopFits' /\ WdaFits'
    BY <1>2, <2>0 DEF AimFits, Restarting, LoopFits, WdaFits
  <2>3. ReservationFits'
    BY <1>2, <2>0 DEF ReservationFits, Restarting
  <2>. QED
    BY <2>1, <2>2, <2>3
<1>5. ASSUME NEW d \in Dev, NowOwned(d) PROVE IInv'
  BY <1>2, <1>5 DEF NowOwned
<1>6. ASSUME NEW d \in Dev, NoLongerOwned(d) PROVE IInv'
  <2>1. \/ pc' = [pc EXCEPT ![Unit(d)] = "idle"]
        \/ pc' = [pc EXCEPT ![Unit(d)] = "call"]
    BY <1>6 DEF NoLongerOwned
  <2>. QED
    BY <1>2, <1>6, <2>1 DEF NoLongerOwned
<1>3. ASSUME NEW d \in Dev, Call(d) PROVE IInv'
  <2>1. TypeOK'
    BY <1>3 DEF AimFits, Restarting, LoopFits, Call, Starts, NoMore, Begin, Go, stfVars,
                procVars, loopVars
  <2>2. AimFits' /\ LoopFits' /\ WdaFits'
    BY <1>3 DEF AimFits, Restarting, LoopFits, WdaFits, Call, Starts, Begin, Go,
                stfVars, procVars, loopVars
  <2>3. ReservationFits'
    BY <1>3 DEF ReservationFits, Restarting, AimFits, Call, Starts, NoMore, Begin, Go, stfVars,
                procVars, loopVars
  <2>. QED
    BY <2>1, <2>2, <2>3
<1>4. ASSUME NEW d \in Dev, Clear(d) PROVE IInv'
  <2>1. TypeOK'
    BY <1>4 DEF AimFits, Restarting, LoopFits, Clear, Go, stfVars, procVars, loopVars
  <2>2. AimFits' /\ LoopFits' /\ WdaFits'
    BY <1>4 DEF AimFits, Restarting, LoopFits, WdaFits, Clear, Go, stfVars, procVars,
                loopVars
  <2>3. ReservationFits'
    BY <1>4 DEF ReservationFits, Restarting, AimFits, Clear, Go, stfVars, procVars,
                loopVars
  <2>. QED
    BY <2>1, <2>2, <2>3
<1>. QED
  BY <1>1, <1>7, <1>5, <1>6, <1>3, <1>4

(* The periodic goroutines and the web pages.                              *)
LEMMA AskIInv ==
    ASSUME IInv, inputs' \in 0..MaxInputs,
           \/ (\E d \in Dev : Due(d))
           \/ (\E d \in Dev : DuePutOff(d) \/ PageOnRelease(d))
           \/ (\E d \in Dev : PageRestart(d))
    PROVE  IInv'
<1>. USE ConstantAssumption, Threads DEF IInv, TypeOK
<1>1. ASSUME NEW d \in Dev, Due(d) PROVE IInv'
  <2>1. TypeOK'
    BY <1>1 DEF AimFits, Restarting, LoopFits, Due, Starts, NoMore, Begin, Go, stfVars,
                procVars, loopVars
  <2>2. AimFits' /\ LoopFits' /\ WdaFits'
    BY <1>1 DEF AimFits, Restarting, LoopFits, WdaFits, Due, Starts, Begin, Go, stfVars,
                procVars, loopVars
  <2>3. ReservationFits'
    BY <1>1 DEF ReservationFits, Restarting, AimFits, Due, Starts, NoMore, Begin, Go, stfVars,
                procVars, loopVars
  <2>. QED
    BY <2>1, <2>2, <2>3
<1>2. ASSUME NEW d \in Dev, DuePutOff(d) \/ PageOnRelease(d)
      PROVE  IInv'
  <2>1. TypeOK'
    BY <1>2 DEF AimFits, Restarting, LoopFits, DuePutOff, PageOnRelease, PutOff,
                stfVars, threadVars, procVars, loopVars
  <2>2. AimFits' /\ LoopFits' /\ WdaFits'
    BY <1>2 DEF AimFits, Restarting, LoopFits, WdaFits, DuePutOff, PageOnRelease,
                PutOff, stfVars, threadVars, procVars, loopVars
  <2>3. ReservationFits'
    BY <1>2 DEF ReservationFits, Restarting, AimFits, DuePutOff, PageOnRelease, PutOff,
                stfVars, threadVars, procVars, loopVars
  <2>. QED
    BY <2>1, <2>2, <2>3
<1>3. ASSUME NEW d \in Dev, PageRestart(d) PROVE IInv'
  <2>1. TypeOK'
    BY <1>3 DEF AimFits, Restarting, LoopFits, PageRestart, stfVars, threadVars,
                loopVars
  <2>2. AimFits' /\ LoopFits' /\ WdaFits'
    BY <1>3 DEF AimFits, Restarting, LoopFits, WdaFits, PageRestart, stfVars,
                threadVars, loopVars
  <2>3. ReservationFits'
    BY <1>3 DEF ReservationFits, Restarting, AimFits, PageRestart, stfVars, threadVars,
                loopVars
  <2>. QED
    BY <2>1, <2>2, <2>3
<1>. QED
  BY <1>1, <1>2, <1>3

(* do_restart.                                                             *)
LEMMA RestartIInv ==
    ASSUME IInv, inputs' \in 0..MaxInputs,
           \/ (\E t \in Thread : Reserve(t))
           \/ (\E t \in Thread : Restart(t))
           \/ (\E t \in Thread : RestartTaken(t))
           \/ (\E t \in Thread : WdaIsUp(t))
           \/ (\E t \in Thread : StfRelease(t))
    PROVE  IInv'
<1>. USE ConstantAssumption, Threads DEF IInv, TypeOK
<1>1. ASSUME NEW t \in Thread, Reserve(t) PROVE IInv'
  <2>0. aim[t] \in Dev
    BY <1>1 DEF AimFits, Restarting, Reserve, Go
  <2>4. /\ stf' = stf \/ stf' = [stf EXCEPT ![aim[t]] = "admin"]
        /\ lines' = lines \/ lines' = [lines EXCEPT ![aim[t]] = @ + 1]
        /\ mine' = mine \/ \E b \in BOOLEAN : mine' = [mine EXCEPT ![t] = b]
        /\ pc' = [pc EXCEPT ![t] = "restart"]
        /\ UNCHANGED <<owner, onRelease, aim, wda, proxy, told, unit, loop, on, dead>>
    BY <1>1 DEF Reserve, Go, Give, stfVars, procVars, loopVars
  <2>1. TypeOK'
    BY <2>0, <2>4
  <2>2. AimFits' /\ LoopFits' /\ WdaFits'
    BY <1>1 DEF AimFits, Restarting, LoopFits, WdaFits, Reserve, Go, Give, stfVars,
                procVars, loopVars
  <2>3. ReservationFits'
    BY <1>1 DEF ReservationFits, Restarting, AimFits, Reserve, Go, Give, stfVars,
                procVars, loopVars
  <2>. QED
    BY <2>1, <2>2, <2>3
<1>2. ASSUME NEW t \in Thread, Restart(t) PROVE IInv'
  <2>1. TypeOK'
    BY <1>2 DEF AimFits, Restarting, LoopFits, Restart, Go, stfVars, procVars, loopVars
  <2>2. AimFits' /\ LoopFits' /\ WdaFits'
    BY <1>2 DEF AimFits, Restarting, LoopFits, WdaFits, Restart, Go, stfVars, procVars,
                loopVars
  <2>3. ReservationFits'
    BY <1>2 DEF ReservationFits, Restarting, AimFits, Restart, Go, stfVars, procVars,
                loopVars
  <2>. QED
    BY <2>1, <2>2, <2>3
<1>3. ASSUME NEW t \in Thread, RestartTaken(t) PROVE IInv'
  <2>1. TypeOK'
    BY <1>3 DEF AimFits, Restarting, LoopFits, RestartTaken, Go, stfVars, loopVars
  <2>2. AimFits' /\ LoopFits' /\ WdaFits'
    BY <1>3 DEF AimFits, Restarting, LoopFits, WdaFits, RestartTaken, Go, stfVars,
                loopVars
  <2>3. ReservationFits'
    BY <1>3 DEF ReservationFits, Restarting, AimFits, RestartTaken, Go, stfVars,
                loopVars
  <2>. QED
    BY <2>1, <2>2, <2>3
<1>4. ASSUME NEW t \in Thread, WdaIsUp(t) PROVE IInv'
  <2>1. TypeOK'
    BY <1>4 DEF AimFits, Restarting, LoopFits, WdaIsUp, Go, Returns, stfVars, procVars,
                loopVars
  <2>2. AimFits' /\ LoopFits' /\ WdaFits'
    BY <1>4 DEF AimFits, Restarting, LoopFits, WdaFits, WdaIsUp, Go, Returns, stfVars,
                procVars, loopVars
  <2>3. ReservationFits'
    BY <1>4 DEF ReservationFits, Restarting, AimFits, WdaIsUp, Go, Returns, stfVars,
                procVars, loopVars
  <2>. QED
    BY <2>1, <2>2, <2>3
<1>5. ASSUME NEW t \in Thread, StfRelease(t) PROVE IInv'
  <2>1. TypeOK'
    BY <1>5 DEF AimFits, Restarting, LoopFits, StfRelease, Go, Returns, Give, stfVars,
                procVars, loopVars
  <2>2. AimFits' /\ LoopFits' /\ WdaFits'
    BY <1>5 DEF AimFits, Restarting, LoopFits, WdaFits, StfRelease, Go, Returns, Give,
                stfVars, procVars, loopVars
  <2>3. ReservationFits'
    BY <1>5 DEF ReservationFits, Restarting, AimFits, StfRelease, Go, Returns, Give,
                stfVars, procVars, loopVars
  <2>. QED
    BY <2>1, <2>2, <2>3
<1>. QED
  BY <1>1, <1>2, <1>3, <1>4, <1>5

(* The supervisors.                                                        *)
LEMMA SupervisorIInv ==
    ASSUME IInv, inputs' \in 0..MaxInputs,
           \/ (\E d \in Dev : ProxyUp(d) \/ ProxyFails(d) \/ WdaStarts(d) \/ ProxyEnds(d))
           \/ (\E d \in Dev : UnitEnds(d) \/ UnitRestarts(d))
           \/ (\E d \in Dev : UnitUp(d) \/ UnitFails(d))
    PROVE  IInv'
<1>. USE ConstantAssumption, Threads DEF IInv, TypeOK
<1>1. ASSUME NEW d \in Dev, ProxyUp(d) \/ ProxyFails(d) \/ WdaStarts(d) \/ ProxyEnds(d)
      PROVE  IInv'
  <2>0. /\ \E to \in {"down", "up", "busy", "deaf", "gone"} :
              proxy' = [proxy EXCEPT ![d] = to]
        /\ wda' = wda \/ \E b \in BOOLEAN : wda' = [wda EXCEPT ![d] = b]
        /\ told' = told \/ told' = [told EXCEPT ![d] = "nothing"]
        /\ UNCHANGED <<stf, lines, owner, onRelease, pc, aim, mine, unit, loop, on, dead>>
    BY <1>1 DEF ProxyUp, ProxyFails, WdaStarts, ProxyEnds, Proxy, stfVars, threadVars, loopVars
  <2>1. TypeOK'
    BY <2>0
  <2>2. AimFits' /\ LoopFits' /\ WdaFits'
    BY <1>1 DEF AimFits, Restarting, LoopFits, WdaFits, ProxyUp, ProxyFails, WdaStarts,
                ProxyEnds, Proxy, stfVars, threadVars, loopVars
  <2>3. ReservationFits'
    BY <1>1 DEF ReservationFits, Restarting, AimFits, ProxyUp, ProxyFails, WdaStarts,
                ProxyEnds, Proxy, stfVars, threadVars, loopVars
  <2>. QED
    BY <2>1, <2>2, <2>3
<1>2. ASSUME NEW d \in Dev, UnitEnds(d) \/ UnitRestarts(d) PROVE IInv'
  <2>0. /\ \E to \in {"down", "gone"} : unit' = [unit EXCEPT ![d] = to]
        /\ stf' = [stf EXCEPT ![d] = "free"]
        /\ lines' = [lines EXCEPT ![d] = 0]
        /\ UNCHANGED <<owner, onRelease, pc, aim, wda, proxy, told, loop, on, dead>>
    BY <1>2 DEF UnitEnds, UnitRestarts, UnitStops, UnitPhase, loopVars
  <2>4. mine' \in [Thread -> BOOLEAN]
    BY <1>2, NoMoreTyped DEF UnitEnds, UnitRestarts, UnitStops
  <2>1. TypeOK'
    BY <2>0, <2>4
  <2>2. AimFits' /\ LoopFits' /\ WdaFits'
    BY <1>2 DEF AimFits, Restarting, LoopFits, WdaFits, UnitEnds, UnitRestarts, UnitStops,
                UnitPhase, loopVars
  <2>3. ReservationFits'
    <3>1. /\ \A t \in Thread : mine'[t] => mine[t] /\ aim[t] # d
          /\ stf' = [stf EXCEPT ![d] = "free"]
          /\ UNCHANGED <<pc, aim>>
      BY <1>2 DEF UnitEnds, UnitRestarts, UnitStops, UnitPhase, NoMore
    <3>. QED
      BY <3>1, OthersKept
  <2>. QED
    BY <2>1, <2>2, <2>3
<1>3. ASSUME NEW d \in Dev, UnitUp(d) \/ UnitFails(d) PROVE IInv'
  <2>1. TypeOK'
    BY <1>3 DEF UnitUp, UnitFails, UnitPhase, stfVars, loopVars
  <2>2. AimFits' /\ LoopFits' /\ WdaFits'
    BY <1>3 DEF AimFits, Restarting, LoopFits, WdaFits, UnitUp, UnitFails, UnitPhase,
                stfVars, loopVars
  <2>3. ReservationFits'
    BY <1>3 DEF ReservationFits, Restarting, UnitUp, UnitFails, UnitPhase, stfVars
  <2>. QED
    BY <2>1, <2>2, <2>3
<1>. QED
  BY <1>1, <1>2, <1>3

(* The event loop.                                                         *)
LEMMA LoopIInv ==
    ASSUME IInv, inputs' \in 0..MaxInputs,
           \/ (\E d \in Dev : Receive(d) \/ Disconnect(d) \/ Forget(d))
           \/ (\E d \in Dev : periodic_stop(d))
           \/ (\E d \in Dev : closeRunningDev(d))
    PROVE  IInv'
<1>. USE ConstantAssumption, Threads DEF IInv, TypeOK
<1>1. ASSUME NEW d \in Dev, Receive(d) \/ Disconnect(d) \/ Forget(d)
      PROVE  IInv'
  <2>1. TypeOK'
    BY <1>1 DEF AimFits, Restarting, LoopFits, Receive, Disconnect, Forget, LoopStep,
                stfVars
  <2>2. AimFits' /\ LoopFits' /\ WdaFits'
    BY <1>1 DEF AimFits, Restarting, LoopFits, WdaFits, Receive, Disconnect, Forget,
                LoopStep, stfVars
  <2>3. ReservationFits'
    BY <1>1 DEF ReservationFits, Restarting, AimFits, Receive, Disconnect, Forget,
                LoopStep, stfVars
  <2>. QED
    BY <2>1, <2>2, <2>3
<1>2. ASSUME NEW d \in Dev, periodic_stop(d) PROVE IInv'
  <2>1. TypeOK'
    BY <1>2 DEF AimFits, Restarting, LoopFits, periodic_stop, Go, LoopStep, stfVars
  <2>2. AimFits' /\ LoopFits' /\ WdaFits'
    BY <1>2 DEF AimFits, Restarting, LoopFits, WdaFits, periodic_stop, Go, LoopStep,
                stfVars
  <2>3. ReservationFits'
    BY <1>2 DEF ReservationFits, Restarting, AimFits, periodic_stop, Go, LoopStep,
                stfVars
  <2>. QED
    BY <2>1, <2>2, <2>3
<1>3. ASSUME NEW d \in Dev, closeRunningDev(d) PROVE IInv'
  <2>1. TypeOK'
    BY <1>3 DEF AimFits, Restarting, LoopFits, closeRunningDev, KillProxy, KillUnit,
                LoopStep, stfVars
  <2>2. AimFits' /\ LoopFits' /\ WdaFits'
    BY <1>3 DEF AimFits, Restarting, LoopFits, WdaFits, closeRunningDev, KillProxy,
                KillUnit, LoopStep, stfVars
  <2>3. ReservationFits'
    BY <1>3 DEF ReservationFits, Restarting, AimFits, closeRunningDev, KillProxy,
                KillUnit, LoopStep, stfVars
  <2>. QED
    BY <2>1, <2>2, <2>3
<1>. QED
  BY <1>1, <1>2, <1>3

(* A panic.                                                                *)
LEMMA PanicIInv ==
    ASSUME IInv, inputs' \in 0..MaxInputs,
           \/ Panics
    PROVE  IInv'
<1>. USE ConstantAssumption, Threads DEF IInv, TypeOK
<1>1. CASE Panics
  <2>1. TypeOK'
    BY <1>1 DEF AimFits, Restarting, LoopFits, Panics, CallPanics, StfPanics, PageCrash,
                stfVars, threadVars, procVars, loopVars
  <2>2. AimFits' /\ LoopFits' /\ WdaFits'
    BY <1>1 DEF AimFits, Restarting, LoopFits, WdaFits, Panics, CallPanics, StfPanics,
                PageCrash, stfVars, threadVars, procVars, loopVars
  <2>3. ReservationFits'
    BY <1>1 DEF ReservationFits, Restarting, AimFits, Panics, CallPanics, StfPanics,
                PageCrash, stfVars, threadVars, procVars, loopVars
  <2>. QED
    BY <2>1, <2>2, <2>3
<1>. QED
  BY <1>1

-----------------------------------------------------------------------------
(* The phones have been brought up, and no restart is in progress.         *)
LEMMA InitIInv == Init => IInv
<1>. SUFFICES ASSUME Init PROVE IInv
  OBVIOUS
<1>1. TypeOK
  <2>1. /\ lines \in [Dev -> Nat] /\ owner \in [Dev -> BOOLEAN]
        /\ pc \in [Thread -> {"idle", "call", "reserve", "restart", "asking", "waitup",
                              "release", "clear", "ended"}]
        /\ aim \in [Thread -> Dev \cup {Nil}] /\ mine \in [Thread -> BOOLEAN]
    BY DEF Init
  <2>2. /\ proxy \in [Dev -> {"down", "up", "busy", "deaf", "gone"}]
        /\ told \in [Dev -> {"nothing", "restart", "kill"}]
        /\ unit \in [Dev -> {"down", "up", "told", "deaf", "gone"}]
        /\ stf \in [Dev -> {"free", "user", "admin"}]
        /\ loop.at = "select" /\ loop.dev = Nil
    BY DEF Init, Idle
  <2>3. inputs \in 0..MaxInputs
    BY ConstantAssumption DEF Init
  <2>. QED
    BY <2>1, <2>2, <2>3 DEF Init, TypeOK, Idle
<1>2. AimFits /\ LoopFits /\ WdaFits /\ ReservationFits
  BY DEF Init, Idle, AimFits, Restarting, LoopFits, WdaFits, ReservationFits
<1>. QED
  BY <1>1, <1>2 DEF IInv

(* Every step preserves the invariant.                                     *)
LEMMA NextIInv == IInv /\ [Next]_vars => IInv'
<1>. SUFFICES ASSUME IInv, [Next]_vars PROVE IInv'
  OBVIOUS
<1>1. CASE UNCHANGED vars
  BY <1>1 DEF vars, IInv, TypeOK, AimFits, Restarting, LoopFits, WdaFits, ReservationFits
<1>2. CASE Next
  <2>1. inputs' \in 0..MaxInputs
    BY <1>2, ConstantAssumption DEF Next, IInv, TypeOK
  <2>. QED
    BY <1>2, <2>1, HandlerIInv, AskIInv, RestartIInv, SupervisorIInv, LoopIInv, PanicIInv
       DEF Next, Input, People, Step, UnitRuns, Handler, Loop, do_restart
<1>. QED
  BY <1>1, <1>2

(* Who restarts what, and with what right, is accounted for at all times.  *)
THEOREM Invariance == Spec => []IInv
  BY InitIInv, NextIInv, PTL DEF Spec

(* The state keeps its types; no unit reads a line that is not there.      *)
THEOREM TypeCorrect == Spec => []TypeOK
<1>1. IInv => TypeOK
  BY DEF IInv
<1>. QED
  BY Invariance, <1>1, PTL

(* A phone that was reserved for a restart stays so until the release,     *)
(* unless a second restart of it begins, its device unit ends, or somebody *)
(* releases it by hand.                                                    *)
THEOREM ReservationsHold == Spec => []ReservedIsOurs
<1>1. IInv => ReservedIsOurs
  BY DEF IInv, ReservationFits, ReservedIsOurs
<1>. QED
  BY Invariance, <1>1, PTL
-----------------------------------------------------------------------------
(* Only its own supervisor and the event loop move a wdaproxy.             *)
LEMMA ProxyMoves ==
    ASSUME [Next]_vars
    PROVE  \/ UNCHANGED proxy
           \/ \E e \in Dev : ProxyUp(e) \/ ProxyFails(e) \/ WdaStarts(e) \/ ProxyEnds(e)
           \/ \E e \in Dev : Receive(e)
<1>1. CASE UNCHANGED vars
  BY <1>1 DEF vars
<1>2. CASE \E e \in Dev : Input(e)
  BY <1>2 DEF Input, People, TakesPhone, LeavesPhone, CommandReserve, CommandRelease, User,
              UnitRestarts, UnitStops, UnitPhase, Disconnect, Due, Starts, DuePutOff,
              PageOnRelease, PutOff, PageRestart, procVars
<1>3. CASE \E e \in Dev : Handler(e) \/ UnitRuns(e)
  BY <1>3 DEF Handler, NowOwned, NoLongerOwned, Reads, Call, Starts, Clear,
              UnitRuns, UnitEnds, UnitUp, UnitFails, UnitStops, UnitPhase,
              procVars
<1>4. CASE \E e \in Dev : periodic_stop(e) \/ closeRunningDev(e) \/ Forget(e)
  BY <1>4 DEF periodic_stop, closeRunningDev, KillProxy, KillUnit, Forget
<1>5. CASE \E t \in Thread : do_restart(t)
  BY <1>5 DEF do_restart, Reserve, Restart, RestartTaken, WdaIsUp, StfRelease, procVars
<1>6. CASE Panics
  BY <1>6 DEF Panics, CallPanics, StfPanics, PageCrash, procVars
<1>. QED
  BY <1>1, <1>2, <1>3, <1>4, <1>5, <1>6 DEF Next, Step, Loop

(* A supervisor that has returned stays so.                                *)
LEMMA LostStays ==
    ASSUME IInv, [Next]_vars, NEW d \in Dev, Lost(d)
    PROVE  proxy'[d] = proxy[d]
<1>. USE DEF IInv, TypeOK, Lost
<1>1. CASE UNCHANGED proxy
  BY <1>1
<1>2. CASE \E e \in Dev : ProxyUp(e) \/ ProxyFails(e) \/ WdaStarts(e) \/ ProxyEnds(e)
  BY <1>2 DEF ProxyUp, ProxyFails, WdaStarts, ProxyEnds, Proxy
<1>3. CASE \E e \in Dev : Receive(e)
  BY <1>3 DEF Receive
<1>. QED
  BY <1>1, <1>2, <1>3, ProxyMoves

(* What a step does to a thread in do_restart: nothing, unless it is the   *)
(* thread's own.                                                           *)
LEMMA ThreadsWait ==
    ASSUME IInv, [Next]_vars, NEW t \in Thread, Restarting(t)
    PROVE  \/ pc'[t] = pc[t] /\ aim'[t] = aim[t]
           \/ do_restart(t)
<1>. USE DEF IInv, TypeOK, Restarting
<1>. DEFINE Still == pc'[t] = pc[t] /\ aim'[t] = aim[t]
<1>1. CASE UNCHANGED vars
  BY <1>1 DEF vars
<1>2. CASE \E e \in Dev : Input(e)
  <2>1. CASE \E e \in Dev : Due(e)
    <3>1. PICK e \in Dev : Due(e)
      BY <2>1
    <3>2. Periodic(e) \in Thread /\ Periodic(e) # t
      BY <3>1, Threads DEF Due, Starts, Go
    <3>. QED
      BY <3>1, <3>2 DEF Due, Starts, Go
  <2>2. CASE \E e \in Dev : People(e) \/ UnitRestarts(e) \/ Disconnect(e) \/ DuePutOff(e)
                             \/ PageRestart(e) \/ PageOnRelease(e)
    BY <2>2 DEF People, TakesPhone, LeavesPhone, CommandReserve, CommandRelease, User,
                UnitRestarts, UnitStops, UnitPhase, Disconnect, LoopStep, DuePutOff,
                PageOnRelease, PutOff, PageRestart, threadVars
  <2>. QED
    BY <1>2, <2>1, <2>2 DEF Input
<1>3. CASE \E e \in Dev : Handler(e)
  <2>1. PICK e \in Dev : Handler(e)
    BY <1>3
  <2>2. pc[Unit(e)] \in {"idle", "call", "clear"} /\ Unit(e) # t
    BY <2>1 DEF Handler, NowOwned, NoLongerOwned, Reads, InSelect, Call, Starts, Clear, Go
  <2>3. Unit(e) \in Thread
    BY Threads
  <2>. QED
    BY <2>1, <2>2, <2>3 DEF Handler, NowOwned, NoLongerOwned, Reads, Call, Starts, Clear, Go
<1>4. CASE \E e \in Dev : \/ UnitRuns(e) \/ ProxyUp(e) \/ ProxyFails(e) \/ WdaStarts(e)
                          \/ ProxyEnds(e) \/ Receive(e) \/ closeRunningDev(e) \/ Forget(e)
  BY <1>4 DEF UnitRuns, UnitEnds, UnitUp, UnitFails, UnitStops, UnitPhase, ProxyUp,
              ProxyFails, WdaStarts, ProxyEnds, Proxy, Receive, closeRunningDev, KillProxy,
              KillUnit, Forget, LoopStep, threadVars
<1>5. CASE \E e \in Dev : periodic_stop(e)
  BY <1>5, Threads DEF periodic_stop, LoopStep, Go
<1>6. CASE \E x \in Thread : do_restart(x)
  <2>1. PICK x \in Thread : do_restart(x)
    BY <1>6
  <2>2. CASE x # t
    BY <2>1, <2>2 DEF do_restart, Reserve, Restart, RestartTaken, WdaIsUp, StfRelease, Go
  <2>. QED
    BY <2>1, <2>2
<1>7. CASE Panics
  BY <1>7 DEF Panics, CallPanics, StfPanics, PageCrash, threadVars
<1>. QED
  BY <1>1, <1>2, <1>3, <1>4, <1>5, <1>6, <1>7 DEF Next, Step, Loop

(* A thread that restarts a wdaproxy whose supervisor has returned waits   *)
(* for ever.                                                               *)
LEMMA TrappedStays ==
    ASSUME IInv, [Next]_vars, NEW t \in Thread, Trapped(t)
    PROVE  Trapped(t)'
<1>1. /\ aim[t] \in Dev /\ Lost(aim[t]) /\ ~wda[aim[t]]
      /\ Waits(t) /\ Restarting(t)
  BY DEF Trapped, Lost, Waits, IInv, AimFits, Restarting, WdaFits
<1>2. proxy'[aim[t]] = proxy[aim[t]]
  BY <1>1, LostStays
<1>3. aim'[t] = aim[t] /\ Waits(t)'
  <2>1. CASE do_restart(t)
    BY <1>1, <2>1 DEF do_restart, Reserve, Restart, RestartTaken, WdaIsUp, StfRelease,
                      Go, Waits, Lost, IInv, TypeOK
  <2>. QED
    BY <1>1, <2>1, ThreadsWait DEF Waits
<1>. QED
  BY <1>1, <1>2, <1>3 DEF Trapped, Lost

(* The event loop takes up the event of a supervisor only in its select.   *)
LEMMA BusyStays ==
    ASSUME IInv, [Next]_vars, loop.at # "select", NEW d \in Dev, proxy[d] = "busy"
    PROVE  proxy'[d] = "busy"
<1>. USE DEF IInv, TypeOK
<1>1. CASE UNCHANGED proxy
  BY <1>1
<1>2. CASE \E e \in Dev : ProxyUp(e) \/ ProxyFails(e) \/ WdaStarts(e) \/ ProxyEnds(e)
  BY <1>2 DEF ProxyUp, ProxyFails, WdaStarts, ProxyEnds, Proxy
<1>. QED
  BY <1>1, <1>2, ProxyMoves DEF Receive, LoopStep

(* A device unit whose launch has failed stays so.                         *)
LEMMA DeafStays ==
    ASSUME IInv, [Next]_vars, NEW d \in Dev, unit[d] = "deaf"
    PROVE  unit'[d] = "deaf"
<1>. USE DEF IInv, TypeOK
<1>1. CASE UNCHANGED unit
  BY <1>1
<1>2. CASE \E e \in Dev : UnitRuns(e) \/ UnitRestarts(e)
  BY <1>2 DEF UnitRuns, UnitEnds, UnitUp, UnitFails, UnitRestarts, UnitStops, UnitPhase
<1>3. CASE \E e \in Dev : closeRunningDev(e)
  BY <1>3 DEF closeRunningDev, KillProxy, KillUnit
<1>4. CASE \E e \in Dev : People(e) \/ Disconnect(e) \/ Due(e) \/ DuePutOff(e)
                          \/ PageRestart(e) \/ PageOnRelease(e)
  BY <1>1, <1>4 DEF People, TakesPhone, LeavesPhone, CommandReserve, CommandRelease, User,
                    Disconnect, Due, Starts, DuePutOff, PageOnRelease, PutOff, PageRestart,
                    procVars
<1>5. CASE \E e \in Dev : Handler(e)
  BY <1>1, <1>5 DEF Handler, NowOwned, NoLongerOwned, Reads, Call, Starts, Clear, procVars
<1>6. CASE \E e \in Dev : ProxyUp(e) \/ ProxyFails(e) \/ WdaStarts(e) \/ ProxyEnds(e)
                          \/ Receive(e) \/ periodic_stop(e) \/ Forget(e)
  BY <1>1, <1>6 DEF ProxyUp, ProxyFails, WdaStarts, ProxyEnds, Proxy, Receive,
                    periodic_stop, Forget
<1>7. CASE (\E t \in Thread : do_restart(t)) \/ Panics \/ UNCHANGED vars
  BY <1>1, <1>7 DEF do_restart, Reserve, Restart, RestartTaken, WdaIsUp, StfRelease,
                    Panics, CallPanics, StfPanics, PageCrash, procVars, vars
<1>. QED
  BY <1>2, <1>3, <1>4, <1>5, <1>6, <1>7 DEF Next, Input, Step, Loop

(* What the loop waits for when it is not in its select, it waits for as   *)
(* long as that does not come: a thread that is not in do_restart, or a    *)
(* supervisor that takes a Kill.                                           *)
LEMMA LoopWaits ==
    ASSUME IInv, [Next]_vars, loop' # loop, loop.at # "select"
    PROVE  /\ \A t \in Thread : LoopWaitsFor(t) => pc[t] = "idle"
           /\ loop.at \in {"proxyFirst", "proxyLast"} => proxy[loop.dev] \notin {"busy", "deaf"}
           /\ loop.at \in {"unitFirst", "unitLast"} => unit[loop.dev] # "deaf"
<1>. USE DEF IInv, TypeOK
<1>1. \E d \in Dev : periodic_stop(d) \/ closeRunningDev(d) \/ Forget(d)
  <2>1. CASE UNCHANGED vars
    BY <2>1 DEF vars
  <2>2. CASE \E e \in Dev : Input(e)
    BY <2>2 DEF Input, People, TakesPhone, LeavesPhone, CommandReserve, CommandRelease,
                User, UnitRestarts, UnitStops, UnitPhase, Disconnect, LoopStep, Due, Starts,
                DuePutOff, PageOnRelease, PutOff, PageRestart, loopVars
  <2>3. CASE \E e \in Dev : Handler(e) \/ UnitRuns(e)
    BY <2>3 DEF Handler, NowOwned, NoLongerOwned, Reads, Call, Starts, Clear,
              UnitRuns, UnitEnds, UnitUp, UnitFails, UnitStops, UnitPhase,
                loopVars
  <2>4. CASE \E e \in Dev : ProxyUp(e) \/ ProxyFails(e) \/ WdaStarts(e) \/ ProxyEnds(e)
    BY <2>4 DEF ProxyUp, ProxyFails, WdaStarts, ProxyEnds, Proxy, loopVars
  <2>5. CASE \E t \in Thread : do_restart(t)
    BY <2>5 DEF do_restart, Reserve, Restart, RestartTaken, WdaIsUp, StfRelease, loopVars
  <2>6. CASE Panics
    BY <2>6 DEF Panics, CallPanics, StfPanics, PageCrash, loopVars
  <2>7. CASE \E e \in Dev : Receive(e)
    BY <2>7 DEF Receive, LoopStep
  <2>. QED
    BY <2>1, <2>2, <2>3, <2>4, <2>5, <2>6, <2>7 DEF Next, Step, Loop
<1>2. PICK d \in Dev : periodic_stop(d) \/ closeRunningDev(d) \/ Forget(d)
  BY <1>1
<1>3. CASE periodic_stop(d)
  <2>1. loop.at = "stop" /\ loop.dev = d
    BY <1>3 DEF periodic_stop, LoopStep
  <2>2. Periodic(d) \in Thread => d \in Timed
    BY DEF Thread, Periodic, Unit
  <2>. QED
    BY <1>3, <2>1, <2>2 DEF periodic_stop, Go, LoopWaitsFor
<1>4. CASE closeRunningDev(d)
  BY <1>4 DEF closeRunningDev, KillProxy, KillUnit, LoopStep, LoopWaitsFor
<1>5. CASE Forget(d)
  BY <1>5 DEF Forget, LoopStep, LoopWaitsFor
<1>. QED
  BY <1>2, <1>3, <1>4, <1>5

(* Threads that wait for a lost supervisor, and a loop that waits for one  *)
(* of them or for a supervisor that cannot answer it, wait for ever.       *)
THEOREM StuckStays == Spec => StuckForGood
<1>1. ASSUME IInv, [Next]_vars
      PROVE  /\ LoopStuck => LoopStuck'
             /\ \A t \in Thread : Trapped(t) => Trapped(t)'
  <2>1. ASSUME loop.at \in {"proxyFirst", "proxyLast"}, proxy[loop.dev] \in {"busy", "deaf"}
        PROVE  LoopStuck'
    <3>1. loop.dev \in Dev
      BY <1>1, <2>1 DEF IInv, LoopFits
    <3>2. loop' = loop
      BY <1>1, <2>1, LoopWaits
    <3>3. proxy'[loop.dev] \in {"busy", "deaf"}
      BY <1>1, <2>1, <3>1, BusyStays, LostStays DEF Lost
    <3>. QED
      BY <2>1, <3>2, <3>3 DEF LoopStuck
  <2>2. ASSUME NEW t \in Thread, LoopWaitsFor(t),
               Trapped(t) \/ (pc[t] = "asking" /\ proxy[aim[t]] = "busy")
        PROVE  LoopStuck'
    <3>1. pc[t] # "idle" /\ loop.at # "select"
      BY <2>2 DEF Trapped, Waits, LoopWaitsFor
    <3>2. loop' = loop
      BY <1>1, <2>2, <3>1, LoopWaits
    <3>3. LoopWaitsFor(t)'
      BY <2>2, <3>2 DEF LoopWaitsFor
    <3>4. CASE Trapped(t)
      BY <1>1, <3>3, <3>4, TrappedStays DEF LoopStuck
    <3>5. CASE pc[t] = "asking" /\ proxy[aim[t]] = "busy"
      <4>1. Restarting(t) /\ aim[t] \in Dev
        BY <1>1, <3>5 DEF Restarting, IInv, AimFits
      <4>2. ~do_restart(t)
        BY <3>5 DEF do_restart, Reserve, Restart, RestartTaken, WdaIsUp, StfRelease, Go
      <4>3. pc'[t] = pc[t] /\ aim'[t] = aim[t]
        BY <1>1, <4>1, <4>2, ThreadsWait
      <4>4. proxy'[aim[t]] = "busy"
        BY <1>1, <3>1, <3>5, <4>1, BusyStays
      <4>. QED
        BY <3>3, <3>5, <4>3, <4>4 DEF LoopStuck
    <3>. QED
      BY <2>2, <3>4, <3>5
  <2>3. ASSUME loop.at \in {"unitFirst", "unitLast"}, unit[loop.dev] = "deaf"
        PROVE  LoopStuck'
    <3>1. loop' = loop
      BY <1>1, <2>3, LoopWaits
    <3>2. loop.dev \in Dev
      BY <1>1, <2>3 DEF IInv, LoopFits
    <3>. QED
      BY <1>1, <2>3, <3>1, <3>2, DeafStays DEF LoopStuck
  <2>. QED
    BY <1>1, <2>1, <2>2, <2>3, TrappedStays DEF LoopStuck
<1>2. IInv /\ [Next]_vars =>
        [/\ LoopStuck => LoopStuck' \/ dead'
         /\ \A t \in Thread : Trapped(t) => Trapped(t)']_vars
  BY <1>1
<1>. QED
  BY Invariance, <1>2, PTL DEF Spec, StuckForGood

-----------------------------------------------------------------------------
(* A wdaproxy's supervisor as module Requests sees it.                     *)
AnswerOf(d) == CASE proxy[d] \in {"down", "gone"} -> "drops"
                 [] proxy[d] = "up"   -> "takes"
                 [] proxy[d] = "busy" -> "waits"
                 [] proxy[d] = "deaf" -> "never"
StoppedIn(d) == told[d] = "kill" \/ proxy[d] = "gone"
AskingOf(d)  == {t \in Thread : pc[t] = "asking" /\ aim[t] = d}

(* Only a run can have been told to end.                                   *)
ToldFits == \A d \in Dev : told[d] = "kill" => proxy[d] \in {"up", "busy"}

(* A supervisor goes on by itself, or is left alone.                       *)
LEMMA ChangeIsAllowed ==
    ASSUME TypeOK, TypeOK', NEW d \in Dev, AskingOf(d)' = AskingOf(d),
           StoppedIn(d)' = StoppedIn(d),
           \/ proxy'[d] = proxy[d]
           \/ proxy[d] # "deaf" /\ ~(StoppedIn(d) /\ proxy[d] \in {"down", "gone"})
    PROVE  [Asked(d)!Next]_(Asked(d)!vars)
<1>1. {proxy[d], proxy'[d]} \subseteq {"down", "up", "busy", "deaf", "gone"}
  BY DEF TypeOK
<1>2. AnswerOf(d)' \in {"drops", "waits", "takes", "never"}
  BY <1>1 DEF AnswerOf
<1>3. \/ AnswerOf(d)' = AnswerOf(d)
      \/ AnswerOf(d) # "never" /\ ~(StoppedIn(d) /\ AnswerOf(d) = "drops")
  BY <1>1 DEF AnswerOf
<1>. QED
  BY <1>2, <1>3 DEF AnswerOf, AskingOf, StoppedIn, Asked!Next, Asked!Change, Asked!Answer,
                    Asked!vars

(* A restart finds a command and waits.                                    *)
LEMMA AskIsAllowed ==
    ASSUME TypeOK, NEW d \in Dev, NEW t \in Thread, UNCHANGED <<proxy, told>>,
           HasCommand(d), AskingOf(d)' = AskingOf(d) \cup {t}
    PROVE  Asked(d)!Next
<1>1. AnswerOf(d)' = AnswerOf(d) /\ AnswerOf(d) # "drops"
  BY DEF TypeOK, AnswerOf, HasCommand
<1>. QED
  BY <1>1 DEF AnswerOf, AskingOf, StoppedIn, Asked!Next, Asked!Ask

(* A restart is taken, and takes back no Kill.                             *)
LEMMA TakeIsAllowed ==
    ASSUME TypeOK, NEW d \in Dev, NEW t \in AskingOf(d), UNCHANGED proxy,
           proxy[d] = "up", StoppedIn(d)' = StoppedIn(d),
           AskingOf(d)' = AskingOf(d) \ {t}
    PROVE  Asked(d)!Next
<1>1. AnswerOf(d)' = AnswerOf(d) /\ AnswerOf(d) = "takes"
  BY DEF TypeOK, AnswerOf
<1>2. t \in Thread
  BY DEF AskingOf
<1>. QED
  BY <1>1, <1>2 DEF AnswerOf, AskingOf, StoppedIn, Asked!Next, Asked!Take, Asked!Taken

(* A Kill of the event loop finds the supervisor listening.                *)
LEMMA KillIsAllowed ==
    ASSUME TypeOK, NEW d \in Dev, UNCHANGED proxy, proxy[d] = "up", told'[d] = "kill",
           AskingOf(d)' = AskingOf(d)
    PROVE  Asked(d)!Next
<1>1. AnswerOf(d)' = AnswerOf(d) /\ AnswerOf(d) = "takes"
  BY DEF TypeOK, AnswerOf
<1>2. StoppedIn(d)' = TRUE
  BY DEF StoppedIn
<1>. QED
  BY <1>1, <1>2 DEF AnswerOf, AskingOf, StoppedIn, Asked!Next, Asked!AtOnce, Asked!Taken

(* Nobody begins or ceases to ask but in two steps of do_restart.          *)
LEMMA OthersAskNothing ==
    ASSUME IInv, [Next]_vars, NEW d \in Dev,
           ~ \E t \in Thread : Restart(t) \/ RestartTaken(t)
    PROVE  AskingOf(d)' = AskingOf(d)
<1>. SUFFICES ASSUME NEW t \in Thread
              PROVE  (pc'[t] = "asking" /\ aim'[t] = d) <=> (pc[t] = "asking" /\ aim[t] = d)
  BY DEF AskingOf
<1>. USE DEF IInv, TypeOK
<1>1. CASE UNCHANGED <<pc, aim>>
  BY <1>1
<1>2. CASE \E e \in Dev : Due(e) \/ Call(e)
  <2>1. PICK e \in Dev, x \in Thread, from \in {"idle", "call"} : Starts(x, from, e)
    BY <1>2, Threads DEF Due, Call
  <2>2. pc[x] \in {"idle", "call"} /\ pc' = [pc EXCEPT ![x] = Begin]
        /\ aim' = [aim EXCEPT ![x] = e] /\ Begin # "asking"
    BY <2>1 DEF Starts, Go, Begin
  <2>. QED
    BY <2>2
<1>3. CASE \E e \in Dev : NoLongerOwned(e) \/ Clear(e)
  BY <1>3, Threads DEF NoLongerOwned, Reads, InSelect, Clear, Go
<1>4. CASE \E e \in Dev : periodic_stop(e)
  BY <1>4 DEF periodic_stop, LoopStep, Go
<1>5. CASE \E x \in Thread : Reserve(x) \/ WdaIsUp(x) \/ StfRelease(x)
  BY <1>5 DEF Reserve, WdaIsUp, StfRelease, Returns, Go
<1>6. CASE \/ \E e \in Dev : \/ People(e) \/ UnitRestarts(e) \/ Disconnect(e)
                             \/ DuePutOff(e) \/ PageRestart(e) \/ PageOnRelease(e)
                             \/ NowOwned(e) \/ UnitRuns(e)
                             \/ ProxyUp(e) \/ ProxyFails(e) \/ WdaStarts(e) \/ ProxyEnds(e)
                             \/ Receive(e) \/ closeRunningDev(e) \/ Forget(e)
           \/ Panics
           \/ UNCHANGED vars
  <2>1. UNCHANGED <<pc, aim>>
    BY <1>6 DEF People, TakesPhone, LeavesPhone, CommandReserve, CommandRelease, User,
                UnitRestarts, UnitStops, UnitPhase, UnitRuns, UnitEnds, UnitUp, UnitFails,
                Disconnect, DuePutOff, PageOnRelease, PutOff, PageRestart, NowOwned, Reads,
                ProxyUp, ProxyFails, WdaStarts, ProxyEnds, Proxy, Receive, closeRunningDev,
                KillProxy, KillUnit, Forget, LoopStep, Panics, CallPanics, StfPanics,
                PageCrash, threadVars, vars
  <2>. QED
    BY <1>1, <2>1
<1>. QED
  BY <1>2, <1>3, <1>4, <1>5, <1>6 DEF Next, Input, Step, Handler, Loop, do_restart

(* What a step tells a supervisor: nothing, but in these.                  *)
LEMMA OthersTellNothing ==
    ASSUME [Next]_vars,
           ~ \E e \in Dev : \/ PageRestart(e) \/ closeRunningDev(e)
                            \/ ProxyUp(e) \/ ProxyFails(e) \/ WdaStarts(e) \/ ProxyEnds(e)
                            \/ Receive(e),
           ~ \E t \in Thread : RestartTaken(t)
    PROVE  UNCHANGED <<proxy, told>>
<1>1. CASE \E e \in Dev : Input(e)
  BY <1>1 DEF Input, People, TakesPhone, LeavesPhone, CommandReserve, CommandRelease, User,
              UnitRestarts, UnitStops, UnitPhase, Disconnect, Due, Starts, DuePutOff,
              PageOnRelease, PutOff, procVars
<1>2. CASE \E e \in Dev : Handler(e) \/ UnitRuns(e) \/ periodic_stop(e) \/ Forget(e)
  BY <1>2 DEF Handler, NowOwned, NoLongerOwned, Reads, Call, Starts, Clear,
              UnitRuns, UnitEnds, UnitUp, UnitFails, UnitStops, UnitPhase,
              periodic_stop, Forget, procVars
<1>3. CASE \E t \in Thread : Reserve(t) \/ Restart(t) \/ WdaIsUp(t) \/ StfRelease(t)
  BY <1>3 DEF Reserve, Restart, WdaIsUp, StfRelease, procVars
<1>4. CASE Panics \/ UNCHANGED vars
  BY <1>4 DEF Panics, CallPanics, StfPanics, PageCrash, procVars, vars
<1>. QED
  BY <1>1, <1>2, <1>3, <1>4 DEF Next, Step, Loop, do_restart

(* What the other steps do to a supervisor.                                *)
LEMMA SupervisorSteps ==
    ASSUME IInv, ToldFits, NEW e \in Dev, NEW d \in Dev,
           \/ PageRestart(e) \/ closeRunningDev(e)
           \/ ProxyUp(e) \/ ProxyFails(e) \/ WdaStarts(e) \/ ProxyEnds(e)
           \/ Receive(e)
    PROVE  /\ told'[d] = "kill" => proxy'[d] \in {"up", "busy"}
           /\ \/ /\ StoppedIn(d)' = StoppedIn(d)
                 /\ \/ proxy'[d] = proxy[d]
                    \/ proxy[d] # "deaf" /\ ~(StoppedIn(d) /\ proxy[d] \in {"down", "gone"})
              \/ UNCHANGED proxy /\ proxy[d] = "up" /\ told'[d] = "kill"
<1>. USE DEF IInv, TypeOK, ToldFits, StoppedIn
<1>1. CASE PageRestart(e)
  BY <1>1 DEF PageRestart
<1>2. CASE closeRunningDev(e)
  <2>1. CASE \E at, to \in {"proxyFirst", "proxyLast", "unitLast", "delete"} :
                 KillProxy(e, at, to)
    BY <2>1 DEF KillProxy
  <2>2. CASE \E at, to \in {"unitFirst", "unitLast", "proxyLast", "delete"} :
                 KillUnit(e, at, to)
    BY <2>2 DEF KillUnit
  <2>. QED
    BY <1>2, <2>1, <2>2 DEF closeRunningDev
<1>3. CASE ProxyUp(e) \/ ProxyFails(e) \/ WdaStarts(e)
  BY <1>3 DEF ProxyUp, ProxyFails, WdaStarts, Proxy
<1>4. CASE ProxyEnds(e)
  BY <1>4 DEF ProxyEnds, Proxy
<1>5. CASE Receive(e)
  BY <1>5 DEF Receive
<1>. QED
  BY <1>1, <1>2, <1>3, <1>4, <1>5

(* A restart that is taken leaves a Kill in place.                         *)
LEMMA RestartTells ==
    ASSUME IInv, ToldFits, NEW t \in Thread, RestartTaken(t), NEW d \in Dev
    PROVE  /\ told'[d] = "kill" => proxy'[d] \in {"up", "busy"}
           /\ StoppedIn(d)' = StoppedIn(d)
           /\ UNCHANGED proxy
  BY DEF RestartTaken, IInv, TypeOK, ToldFits, StoppedIn

(* Only a run is told to end, at all times.                                *)
LEMMA ToldInvariance == Spec => []ToldFits
<1>1. Init => ToldFits
  BY DEF Init, ToldFits
<1>2. ASSUME IInv, ToldFits, [Next]_vars PROVE ToldFits'
  <2>1. CASE \E t \in Thread : RestartTaken(t)
    BY <1>2, <2>1, RestartTells DEF ToldFits
  <2>2. CASE \E e \in Dev : \/ PageRestart(e) \/ closeRunningDev(e)
                            \/ ProxyUp(e) \/ ProxyFails(e) \/ WdaStarts(e) \/ ProxyEnds(e)
                            \/ Receive(e)
    BY <1>2, <2>2, SupervisorSteps DEF ToldFits
  <2>3. CASE UNCHANGED <<proxy, told>>
    BY <1>2, <2>3 DEF ToldFits
  <2>. QED
    BY <1>2, <2>1, <2>2, <2>3, OthersTellNothing
<1>. QED
  BY <1>1, <1>2, Invariance, PTL DEF Spec

(* What threads that restart each other's phones, the loop and the pages   *)
(* see of each wdaproxy is what module Requests says: a Kill is final,     *)
(* whoever restarts.                                                       *)
THEOREM RestartsAnswered == Spec => RestartsAreAnswered
<1>1. Init => \A d \in Dev : Asked(d)!Init
  BY DEF Init, Asked!Init
<1>2. ASSUME IInv, IInv', ToldFits, [Next]_vars, NEW d \in Dev
      PROVE  [Asked(d)!Next]_(Asked(d)!vars)
  <2>0. TypeOK /\ TypeOK'
    BY <1>2 DEF IInv
  <2>1. CASE \E t \in Thread : RestartTaken(t)
    <3>1. PICK t \in Thread : RestartTaken(t)
      BY <2>1
    <3>2. /\ pc[t] = "asking" /\ pc' = [pc EXCEPT ![t] = "waitup"] /\ UNCHANGED aim
          /\ proxy[aim[t]] = "up"
      BY <3>1 DEF RestartTaken, Go
    <3>3. UNCHANGED proxy /\ StoppedIn(d)' = StoppedIn(d)
      BY <1>2, <3>1, RestartTells
    <3>4. CASE aim[t] = d
      <4>1. t \in AskingOf(d) /\ AskingOf(d)' = AskingOf(d) \ {t}
        BY <2>0, <3>2, <3>4 DEF TypeOK, AskingOf
      <4>. QED
        BY <2>0, <3>2, <3>3, <3>4, <4>1, TakeIsAllowed
    <3>5. CASE aim[t] # d
      <4>1. AskingOf(d)' = AskingOf(d)
        BY <2>0, <3>2, <3>5 DEF TypeOK, AskingOf
      <4>. QED
        BY <2>0, <3>3, <4>1, ChangeIsAllowed
    <3>. QED
      BY <3>4, <3>5
  <2>2. CASE \E t \in Thread : Restart(t)
    <3>1. PICK t \in Thread : Restart(t)
      BY <2>2
    <3>2. /\ pc' = [pc EXCEPT ![t] = IF HasCommand(aim[t]) THEN "asking" ELSE "waitup"]
          /\ pc[t] = "restart" /\ UNCHANGED <<aim, proxy, told>>
      BY <3>1 DEF Restart, Go, procVars
    <3>3. CASE aim[t] = d /\ HasCommand(d)
      <4>1. AskingOf(d)' = AskingOf(d) \cup {t}
        BY <2>0, <3>2, <3>3 DEF TypeOK, AskingOf
      <4>. QED
        BY <2>0, <3>2, <3>3, <4>1, AskIsAllowed
    <3>4. CASE ~(aim[t] = d /\ HasCommand(d))
      <4>1. AskingOf(d)' = AskingOf(d)
        BY <2>0, <3>2, <3>4 DEF TypeOK, AskingOf
      <4>. QED
        BY <2>0, <3>2, <4>1, ChangeIsAllowed DEF StoppedIn
    <3>. QED
      BY <3>3, <3>4
  <2>3. CASE ~ \E t \in Thread : Restart(t) \/ RestartTaken(t)
    <3>1. AskingOf(d)' = AskingOf(d)
      BY <1>2, <2>3, OthersAskNothing
    <3>2. CASE UNCHANGED <<proxy, told>>
      BY <2>0, <3>1, <3>2, ChangeIsAllowed DEF StoppedIn
    <3>3. CASE \E e \in Dev : \/ PageRestart(e) \/ closeRunningDev(e)
                              \/ ProxyUp(e) \/ ProxyFails(e) \/ WdaStarts(e) \/ ProxyEnds(e)
                              \/ Receive(e)
      BY <1>2, <2>0, <3>1, <3>3, SupervisorSteps, ChangeIsAllowed, KillIsAllowed
    <3>. QED
      BY <1>2, <2>3, <3>2, <3>3, OthersTellNothing
  <2>. QED
    BY <2>1, <2>2, <2>3
<1>3. IInv /\ IInv' /\ ToldFits /\ [Next]_vars =>
          \A d \in Dev : [Asked(d)!Next]_(Asked(d)!vars)
  BY <1>2
<1>. QED
  BY <1>1, <1>3, Invariance, ToldInvariance, PTL DEF Spec, RestartsAreAnswered

-----------------------------------------------------------------------------
(***************************************************************************)
(* The runner and its coordinator.                                         *)
(***************************************************************************)

(* Which coordinator goes with each place in the goroutine.                *)
CoordinatorFits ==
    /\ gpc \in {"top", "held", "ended", "wait", "returned"} => child \in {"none", "exited"}
    /\ gpc \in {"select", "cleanup"} => child \in {"running", "exited"}

(* A Stop that has returned is remembered in hold.                         *)
DownIsHeld ==
    /\ down => hold
    /\ gpc = "poll" => ~hold
    /\ gpc = "held" => hold

RunnerIInv == RunnerTypeOK /\ CoordinatorFits /\ DownIsHeld /\ DownIsStopping

(* A runner that has just been started satisfies the invariant.            *)
LEMMA RunnerInitIInv == RunnerInit => RunnerIInv
<1> SUFFICES ASSUME RunnerInit PROVE RunnerIInv
  OBVIOUS
<1>1. {hold, stop, cmd, termed, binary, exited, down} \subseteq BOOLEAN
  BY DEF RunnerInit
<1> QED BY <1>1 DEF RunnerInit, RunnerIInv, RunnerTypeOK, CoordinatorFits, DownIsHeld,
                    DownIsStopping

(* Handing over a message keeps the callers' state in its type.            *)
LEMMA ReceivedTyped ==
    ASSUME RunnerTypeOK, NEW c \in Caller, Received(c)
    PROVE  /\ cpc' \in [Caller -> {"idle", "send", "erase", "fetch", "start", "cleanup"}]
           /\ msg' \in [Caller -> Message \cup {"none"}]
           /\ down' \in BOOLEAN
  BY DEF Received, RunnerTypeOK

(* Every step of the goroutine preserves the invariant.                    *)
LEMMA RunnerGoroutineIInv == RunnerIInv /\ Goroutine => RunnerIInv'
<1> SUFFICES ASSUME RunnerIInv, Goroutine PROVE RunnerIInv'
  OBVIOUS
<1> USE DEF RunnerIInv
<1>1. CASE Top
  BY <1>1 DEF Top, RunnerTypeOK, CoordinatorFits, DownIsHeld, DownIsStopping
<1>2. CASE PollPid
  BY <1>2 DEF PollPid, RunnerTypeOK, CoordinatorFits, DownIsHeld, DownIsStopping
<1>3. CASE StatusArrives
  BY <1>3 DEF StatusArrives, RunnerTypeOK, CoordinatorFits, DownIsHeld, DownIsStopping
<1>4. CASE CleanupReturns
  BY <1>4 DEF CleanupReturns, RunnerTypeOK, CoordinatorFits, DownIsHeld, DownIsStopping
<1>5. CASE RunEnds
  BY <1>5 DEF RunEnds, RunnerTypeOK, CoordinatorFits, DownIsHeld, DownIsStopping
<1>6. CASE WakeUp
  BY <1>6 DEF WakeUp, RunnerTypeOK, CoordinatorFits, DownIsHeld, DownIsStopping
<1>7. ASSUME NEW c \in Caller, TakeHeld(c) PROVE RunnerIInv'
  <2>1. RunnerTypeOK'
    BY <1>7, ReceivedTyped DEF TakeHeld, RunnerTypeOK
  <2>2. (CoordinatorFits /\ DownIsHeld /\ DownIsStopping)'
    BY <1>7 DEF TakeHeld, Received, CoordinatorFits, DownIsHeld, DownIsStopping, RunnerTypeOK
  <2> QED BY <2>1, <2>2
<1>8. ASSUME NEW c \in Caller, TakeMessage(c) PROVE RunnerIInv'
  <2>1. RunnerTypeOK'
    BY <1>8, ReceivedTyped DEF TakeMessage, RunnerTypeOK
  <2>2. (CoordinatorFits /\ DownIsHeld)'
    BY <1>8 DEF TakeMessage, Received, CoordinatorFits, DownIsHeld, RunnerTypeOK
  <2>3. DownIsStopping'
    BY <1>8 DEF TakeMessage, Received, CoordinatorFits, DownIsStopping, RunnerTypeOK, IsStart,
                IsStop
  <2> QED BY <2>1, <2>2, <2>3
<1> QED BY <1>1, <1>2, <1>3, <1>4, <1>5, <1>6, <1>7, <1>8 DEF Goroutine

(* So does every step of the coordinator and of the callers.               *)
LEMMA RunnerOthersIInv == RunnerIInv /\ [RunnerNext]_runnerVars /\ ~Goroutine => RunnerIInv'
<1> SUFFICES ASSUME RunnerIInv, [RunnerNext]_runnerVars, ~Goroutine PROVE RunnerIInv'
  OBVIOUS
<1> USE DEF RunnerIInv
<1>1. CASE ChildStarts \/ ChildFails \/ ChildExits
  <2>2. /\ child \in {"starting", "running"}
        /\ child = "starting" => child' \in {"running", "failed"}
        /\ child = "running" => child' \in {"running", "exited"}
        /\ UNCHANGED <<gpc, hold, stop, cmd, termed, binary, cpc, msg, exited, down>>
    BY <1>1 DEF ChildStarts, ChildFails, ChildExits, Child
  <2>3. RunnerTypeOK'
    BY <2>2 DEF RunnerTypeOK
  <2> QED BY <2>2, <2>3 DEF CoordinatorFits, DownIsHeld, DownIsStopping
<1>2. ASSUME NEW c \in Web, WebRequest(c) PROVE RunnerIInv'
  <2>1. ASSUME NEW m \in Message, Send(c, m) PROVE RunnerIInv'
    BY <2>1 DEF Send, Caller, RunnerTypeOK, CoordinatorFits, DownIsHeld, DownIsStopping
  <2>2. ASSUME NEW from, NEW to \in {"fetch", "idle", "start"},
               UpdateStep(c, from, to), binary' \in BOOLEAN
        PROVE  RunnerIInv'
    BY <2>2 DEF UpdateStep, Caller, RunnerTypeOK, CoordinatorFits, DownIsHeld, DownIsStopping
  <2>3. CASE handleStart(c) \/ handleStop(c) \/ handleRestart(c)
             \/ UpdateStops(c) \/ UpdateStarts(c)
    BY <2>1, <2>3 DEF handleStart, handleStop, handleRestart, UpdateStops,
                      UpdateStarts, Message
  <2>4. CASE UpdateErases(c)
    BY <2>2, <2>4 DEF UpdateErases
  <2>5. CASE UpdateFails(c)
    BY <2>2, <2>5 DEF UpdateFails, RunnerTypeOK
  <2>6. CASE UpdateInstalls(c)
    BY <2>2, <2>6 DEF UpdateInstalls, RunnerTypeOK
  <2> QED BY <1>2, <2>3, <2>4, <2>5, <2>6 DEF WebRequest
<1>3. CASE Sigterm
  BY <1>3 DEF Sigterm, Caller, Message, RunnerTypeOK, CoordinatorFits, DownIsHeld,
              DownIsStopping
<1>4. CASE Exit
  BY <1>4 DEF Exit, RunnerTypeOK, CoordinatorFits, DownIsHeld, DownIsStopping
<1>5. CASE UNCHANGED runnerVars
  BY <1>5 DEF runnerVars, RunnerTypeOK, CoordinatorFits, DownIsHeld, DownIsStopping
<1> QED BY <1>1, <1>2, <1>3, <1>4, <1>5 DEF RunnerNext

(* The invariant that ties the coordinator, the command and the operators' *)
(* wish to the place in the goroutine holds in every behaviour.            *)
THEOREM RunnerInvariance == RunnerSpec => []RunnerIInv
<1>1. RunnerIInv /\ [RunnerNext]_runnerVars => RunnerIInv'
  BY RunnerGoroutineIInv, RunnerOthersIInv
<1> QED BY RunnerInitIInv, <1>1, PTL DEF RunnerSpec

(* The state keeps its types, and a command stands for a run.              *)
THEOREM RunnerTypeCorrect == RunnerSpec => []RunnerTypeOK
<1>1. RunnerIInv => RunnerTypeOK
  BY DEF RunnerIInv
<1> QED BY RunnerInvariance, <1>1, PTL

(* There is at most one coordinator and the goroutine watches it, whatever *)
(* any number of operators do at the same time.                            *)
THEOREM OnlyOneCoordinator == RunnerSpec => []OneCoordinator
<1>1. RunnerIInv => OneCoordinator
  BY DEF RunnerIInv, RunnerTypeOK, CoordinatorFits, OneCoordinator
<1> QED BY RunnerInvariance, <1>1, PTL

(* A coordinator that an operator or an update stopped is not launched     *)
(* before a Start has returned.                                            *)
THEOREM StopsAreObeyed == RunnerSpec => StopObeyed
<1>1. RunnerIInv /\ [RunnerNext]_runnerVars => [down => ~(gpc = "top" /\ gpc' = "poll")]_runnerVars
  <2> SUFFICES ASSUME RunnerIInv, [RunnerNext]_runnerVars, down, gpc = "top", gpc' = "poll" PROVE FALSE
    OBVIOUS
  <2>1. hold
    BY DEF RunnerIInv, DownIsHeld
  <2>2. ~Top
    BY <2>1 DEF Top
  <2>3. UNCHANGED gpc \/ gpc # "top"
    BY <2>2 DEF RunnerNext, runnerVars, Goroutine, PollPid, StatusArrives,
                CleanupReturns, RunEnds,
       WakeUp, TakeHeld, TakeMessage, ChildStarts, ChildFails, ChildExits,
       Child, WebRequest, handleStart, handleStop, handleRestart, UpdateStops,
       UpdateErases, UpdateFails, UpdateInstalls, UpdateStarts, UpdateStep, Send,
       Sigterm, Exit
  <2> QED BY <2>3
<1> QED BY RunnerInvariance, <1>1, PTL DEF RunnerSpec, StopObeyed

(* Nothing that was stopped goes on unasked: while an operator's Stop is   *)
(* in force, a coordinator that still runs has been told to end.           *)
THEOREM StoppedIsStopping == RunnerSpec => []DownIsStopping
<1>1. RunnerIInv => DownIsStopping
  BY DEF RunnerIInv
<1> QED BY RunnerInvariance, <1>1, PTL
=============================================================================
