---------------------------- MODULE ProcLogProofs -----------------------------
(***************************************************************************)
(* A supervised process, for any number of callers and any options (module *)
(* ProcGeneric); and the loggers its lines go to, which freeze after a     *)
(* SIGHUP, for any number of goroutines and signals (module LogHup).       *)
(***************************************************************************)
EXTENDS ProcGeneric, LogHup, SequenceTheorems, TLAPS

(* A goroutine that has just been started satisfies the invariant.         *)
LEMMA ProcInitIInv == ProcInit => ProcIInv
<1>1. LastIndex = 4
  BY DEF LastIndex, sleeps
<1>2. ASSUME ProcInit PROVE ProcTypeOK
  <2>1. /\ cpc \in [Caller -> {"idle", "send"}]
        /\ msg \in [Caller -> {"none", "kill", "restart"}]
    BY <1>2 DEF ProcInit
  <2>2. fails \in 0..LastIndex /\ nap \in Nat
    BY <1>1, <1>2 DEF ProcInit
  <2>. QED
    BY <1>2, <2>1, <2>2 DEF ProcInit, ProcTypeOK
<1>3. ProcInit => ChildFits /\ CmdFits /\ StopFits /\ WdaOnlyDuringRun
  BY DEF ProcInit, ChildFits, CmdFits, StopFits, WdaOnlyDuringRun, Returned
<1>. QED
  BY <1>2, <1>3 DEF ProcIInv

(* backoff.wait keeps its counters in their ranges. *)
LEMMA WaitTyped ==
    ASSUME fails \in 0..LastIndex, NEW quick \in BOOLEAN, wait(quick)
    PROVE  fails' \in 0..LastIndex /\ nap' \in Nat
<1>1. /\ sleeps \in Seq(Nat) /\ Len(sleeps) = 5 /\ LastIndex = 4
      /\ \A i \in 1..5 : sleeps[i] \in Nat
  BY DEF sleeps, LastIndex
<1>. HIDE DEF sleeps, LastIndex
<1>. QED
  BY <1>1 DEF wait

(* Every step of the goroutine, its child and its callers preserves it.    *)
LEMMA ProcNextIInv == ProcIInv /\ [ProcNext]_procVars => ProcIInv'
<1>. SUFFICES ASSUME ProcIInv, [ProcNext]_procVars PROVE ProcIInv'
  OBVIOUS
<1>. USE DEF ProcIInv, ProcTypeOK, ChildFits, CmdFits, StopFits, WdaOnlyDuringRun,
             Returned
<1>1. CASE NewCommand
  BY <1>1 DEF NewCommand
<1>2. CASE StartCommand
  BY <1>2 DEF StartCommand
<1>3. CASE PollPid
  BY <1>3 DEF PollPid
<1>4. CASE StatusArrives
  BY <1>4 DEF StatusArrives
<1>5. ASSUME NEW s \in BOOLEAN, OutputLine(s) PROVE ProcIInv'
  BY <1>5 DEF OutputLine
<1>6. CASE HandlerReturns
  BY <1>6 DEF HandlerReturns
<1>7. CASE RunEnds
  BY <1>7 DEF RunEnds
<1>8. CASE AfterRun
  <2>1. fails' \in 0..LastIndex /\ nap' \in Nat
    BY <1>8, WaitTyped DEF AfterRun, backVars
  <2>2. gpc' \in {"returned", "top", "wait"} /\ (stop => gpc' = "returned")
    BY <1>8 DEF AfterRun
  <2>. QED
    BY <1>8, <2>1, <2>2 DEF AfterRun
<1>9. CASE WakeUp
  BY <1>9 DEF WakeUp
<1>10. CASE ChildStarts \/ ChildFails \/ ChildExits
  BY <1>10 DEF ChildStarts, ChildFails, ChildExits, Child
<1>11. ASSUME NEW c \in Caller, Kill(c) \/ Restart(c) PROVE ProcIInv'
  BY <1>11 DEF Kill, Restart, Call
<1>12. ASSUME NEW c \in Caller, TakeMessage(c) PROVE ProcIInv'
  BY <1>12 DEF TakeMessage
<1>13. CASE UNCHANGED procVars
  BY <1>13 DEF procVars
<1>. QED
  BY <1>1, <1>2, <1>3, <1>4, <1>5, <1>6, <1>7, <1>8, <1>9, <1>10, <1>11, <1>12, <1>13
    DEF ProcNext, Goroutine

(* The invariant that ties the child, the command and the flags to the     *)
(* place in the goroutine holds in every behaviour.                        *)
THEOREM ProcInvariance == ProcSpec => []ProcIInv
  BY ProcInitIInv, ProcNextIInv, PTL DEF ProcSpec

(* The state keeps its types in every behaviour. *)
THEOREM ProcTypeCorrect == ProcSpec => []ProcTypeOK
<1>1. ProcIInv => ProcTypeOK
  BY DEF ProcIInv
<1>. QED
  BY ProcInvariance, <1>1, PTL

(* No child ever lives without its supervisor: none is left behind by a    *)
(* Kill, a Restart, a failed start or the end of the goroutine.            *)
THEOREM ChildrenSupervised == ProcSpec => []NoUnsupervisedChild
<1>1. ProcIInv => NoUnsupervisedChild
  BY DEF ProcIInv, ProcTypeOK, ChildFits, NoUnsupervisedChild, Live
<1>. QED
  BY ProcInvariance, <1>1, PTL

(* devd.wda is never stale when a run begins. *)
THEOREM WdaFresh == ProcSpec => []WdaOnlyDuringRun
<1>1. ProcIInv => WdaOnlyDuringRun
  BY DEF ProcIInv
<1>. QED
  BY ProcInvariance, <1>1, PTL

(* Only a supervisor nobody managed to stop can be left deaf. *)
THEOREM DeafUntold == ProcSpec => []AbandonedUntold
<1>1. ProcIInv => AbandonedUntold
  BY DEF ProcIInv, ProcTypeOK, ChildFits, StopFits, WdaOnlyDuringRun, AbandonedUntold,
         Returned
<1>. QED
  BY ProcInvariance, <1>1, PTL

(* A Kill that was taken is final. *)
THEOREM KillFinal == ProcSpec => KilledStaysDown
<1>1. ProcIInv /\ [ProcNext]_procVars => [stop => ~(gpc = "start" /\ gpc' = "poll")]_procVars
  BY DEF ProcIInv, StopFits
<1>. QED
  BY ProcInvariance, <1>1, PTL DEF ProcSpec, KilledStaysDown

(* Every step of the goroutine, its child and its callers is a step of the *)
(* supervisor that Supervisor describes, or invisible to callers.          *)
LEMMA ProcStep ==
    ASSUME ProcIInv, [ProcNext]_procVars
    PROVE  [Abstract!Next]_Abstract!vars
<1>. USE DEF ProcIInv, ProcTypeOK, ChildFits, CmdFits, StopFits, WdaOnlyDuringRun,
             Returned,
             AbstractPhase, Abstract!Move, Abstract!vars
<1>1. CASE NewCommand
  BY <1>1 DEF NewCommand, Abstract!Next, Abstract!Launch
<1>2. CASE StartCommand
  BY <1>2 DEF StartCommand
<1>3. CASE PollPid
  BY <1>3 DEF PollPid, Abstract!Next, Abstract!Listen, Abstract!GiveUp
<1>4. CASE StatusArrives
  BY <1>4 DEF StatusArrives, Abstract!Next, Abstract!ChildGone
<1>5. ASSUME NEW s \in BOOLEAN, OutputLine(s) PROVE Abstract!Next
  BY <1>5 DEF OutputLine, Abstract!Next, Abstract!Handle
<1>6. CASE HandlerReturns
  BY <1>6 DEF HandlerReturns, Abstract!Next, Abstract!Handled
<1>7. CASE RunEnds
  BY <1>7 DEF RunEnds, Abstract!Next, Abstract!Close
<1>8. CASE AfterRun
  BY <1>8 DEF AfterRun, Abstract!Next, Abstract!Retire
<1>9. CASE WakeUp
  BY <1>9 DEF WakeUp
<1>10. CASE ChildStarts \/ ChildFails \/ ChildExits
  BY <1>10 DEF ChildStarts, ChildFails, ChildExits, Child
<1>11. ASSUME NEW c \in Caller, Kill(c) \/ Restart(c) PROVE [Abstract!Next]_Abstract!vars
  BY <1>11 DEF Kill, Restart, Call, Abstract!Next, Abstract!Ask, Abstract!Silent
<1>12. ASSUME NEW c \in Caller, TakeMessage(c) PROVE Abstract!Next
  BY <1>12 DEF TakeMessage, Abstract!Next, Abstract!Take
<1>13. CASE UNCHANGED procVars
  BY <1>13 DEF procVars
<1>. QED
  BY <1>1, <1>2, <1>3, <1>4, <1>5, <1>6, <1>7, <1>8, <1>9, <1>10, <1>11, <1>12, <1>13
    DEF ProcNext, Goroutine

(* proc_generic implements the supervisor its callers rely on. *)
THEOREM ProcImplementsSupervisor == ProcSpec => ImplementsSupervisor
<1>1. ProcInit => Abstract!Init
  BY DEF ProcInit, Abstract!Init, AbstractPhase
<1>. QED
  BY ProcInvariance, ProcStep, <1>1, PTL DEF ProcSpec, ImplementsSupervisor,
                                             Abstract!Spec

(* Each step of module Supervisor is one that module Requests allows, or   *)
(* cannot be told by who asks.                                             *)
LEMMA SupervisorStep ==
    ASSUME ProcIInv, ProcIInv', [Abstract!Next]_Abstract!vars
    PROVE  [Abstract!Asked!Next]_Abstract!Asked!vars
<1>. DEFINE ph == AbstractPhase
            askers == {c \in Caller : cpc[c] = "send"}
<1>1. ph \in Abstract!Phase /\ ph' \in Abstract!Phase
  BY DEF AbstractPhase, Abstract!Phase, ProcIInv, ProcTypeOK
<1>2. /\ Abstract!AnswerIn[ph] \in {"drops", "waits", "takes", "never"}
      /\ Abstract!AnswerIn[ph'] \in {"drops", "waits", "takes", "never"}
      /\ Abstract!AnswerIn[ph] = "drops" <=> ph \in {"down", "gone"}
      /\ Abstract!AnswerIn[ph] = "takes" <=> ph = "up"
      /\ Abstract!AnswerIn[ph] = "never" <=> ph = "deaf"
      /\ ph \in {"down", "gone"} /\ ph' \in {"down", "gone"} =>
            Abstract!AnswerIn[ph'] = Abstract!AnswerIn[ph]
  BY <1>1 DEF Abstract!AnswerIn, Abstract!Phase, Abstract!Silent
<1>. HIDE DEF ph, askers
<1>. USE DEF Abstract!Asked!Next, Abstract!Asked!vars
<1>3. ASSUME ph # "deaf", ~(stop /\ ph \in {"down", "gone"}), UNCHANGED <<stop, askers>>
      PROVE  Abstract!Asked!Next
  BY <1>2, <1>3 DEF Abstract!Asked!Change, Abstract!Asked!Answer, ph, askers
<1>4. ASSUME UNCHANGED <<ph, stop, askers>> PROVE UNCHANGED Abstract!Asked!vars
  BY <1>4 DEF ph, askers
<1>5. CASE Abstract!Launch
  BY <1>3, <1>5 DEF Abstract!Launch, Abstract!Move, ph, askers
<1>6. CASE \/ Abstract!Listen \/ Abstract!GiveUp \/ Abstract!Handle \/ Abstract!Handled
           \/ Abstract!ChildGone \/ Abstract!Close
  BY <1>3, <1>6 DEF Abstract!Listen, Abstract!GiveUp, Abstract!Handle, Abstract!Handled,
                    Abstract!ChildGone, Abstract!Close, Abstract!Move, ph, askers
<1>7. CASE Abstract!Retire
  BY <1>2, <1>7 DEF Abstract!Retire, Abstract!Move, ph, askers
<1>8. ASSUME NEW c \in Caller, Abstract!Ask(c) PROVE Abstract!Asked!Next
  BY <1>1, <1>2, <1>8 DEF Abstract!Ask, Abstract!Silent, Abstract!Asked!Ask, ph, askers
<1>9. ASSUME NEW c \in Caller, Abstract!Take(c) PROVE Abstract!Asked!Next
  BY <1>1, <1>2, <1>9 DEF Abstract!Take, Abstract!Asked!Take, Abstract!Asked!Taken, ph, askers
<1>10. CASE UNCHANGED Abstract!vars
  BY <1>4, <1>10 DEF Abstract!vars, ph, askers
<1>. QED
  BY <1>5, <1>6, <1>7, <1>8, <1>9, <1>10 DEF Abstract!Next

(* So those who ask may rely on no more than module Requests says, which   *)
(* is what the models with many supervisors assume of each (see            *)
(* KillsAnswered and RestartsAnswered).                                    *)
THEOREM ProcAnswersRequests == ProcSpec => Abstract!Asked!Spec
<1>1. ProcInit => Abstract!Asked!Init
  BY DEF ProcInit, Abstract!Asked!Init, AbstractPhase, Abstract!AnswerIn, Abstract!Phase,
         Abstract!Silent
<1>2. ProcIInv /\ ProcIInv' /\ [ProcNext]_procVars =>
          [Abstract!Asked!Next]_Abstract!Asked!vars
  BY ProcStep, SupervisorStep
<1>. QED
  BY <1>1, <1>2, ProcInvariance, PTL DEF ProcSpec, Abstract!Asked!Spec

-----------------------------------------------------------------------------
(***************************************************************************)
(* The loggers and the signal that reopens their files.                    *)
(***************************************************************************)

Place == {"lock", "check", "write", "out"}
F(l, p) == [logger |-> l, at |-> p]

(* The entries a goroutine can be in: one; one of Main, logged while the   *)
(* lines' file is reopened; and those of a goroutine that has frozen.      *)
Single(l, p) == <<F(l, p)>>
Above(p) == <<F("Main", p), F("Lines", "write")>>
Frozen2 == <<F("Main", "lock"), F("Main", "write")>>
Frozen3 == <<F("Main", "lock"), F("Main", "write"), F("Lines", "write")>>

Shape == {<<>>} \cup {Single(l, p) : l \in Logger, p \in Place}
                \cup {Above(p) : p \in Place} \cup {Frozen2, Frozen3}

(* A goroutine with these entries is in the hook of logger l.              *)
In(s, l) ==
    \/ s \in {Single(l, "check"), Single(l, "write")}
    \/ l = "Main" /\ s \in {Above("check"), Above("write"), Frozen2, Frozen3}
    \/ l = "Lines" /\ (s = Frozen3 \/ \E p \in Place : s = Above(p))

(* Sequences of two and of three entries.                                  *)
LEMMA TwoFrames ==
  ASSUME NEW a \in Frame, NEW b \in Frame
  PROVE  <<a>> \o <<b>> = <<a, b>>
<1>1. <<a>> \in Seq(Frame) /\ <<b>> \in Seq(Frame) /\ <<a, b>> \in Seq(Frame)
  OBVIOUS
<1>2. Len(<<a>>) = 1 /\ Len(<<b>>) = 1 /\ Len(<<a, b>>) = 2
  OBVIOUS
<1>3. <<a>> \o <<b>> \in Seq(Frame) /\ Len(<<a>> \o <<b>>) = 2
  BY <1>1, <1>2, ConcatProperties
<1>4. (<<a>> \o <<b>>)[1] = a /\ (<<a>> \o <<b>>)[2] = b
  BY <1>1, <1>2, ConcatProperties
<1>5. \A i \in 1..Len(<<a>> \o <<b>>) : (<<a>> \o <<b>>)[i] = <<a, b>>[i]
  BY <1>3, <1>4
<1> QED BY <1>1, <1>2, <1>3, <1>5, SeqEqual

(* A frame put on two makes a stack of three.                              *)
LEMMA ThreeFrames ==
  ASSUME NEW a \in Frame, NEW b \in Frame, NEW c \in Frame
  PROVE  <<a>> \o <<b, c>> = <<a, b, c>>
<1>1. <<a>> \in Seq(Frame) /\ <<b, c>> \in Seq(Frame) /\ <<a, b, c>> \in Seq(Frame)
  OBVIOUS
<1>2. Len(<<a>>) = 1 /\ Len(<<b, c>>) = 2 /\ Len(<<a, b, c>>) = 3
  OBVIOUS
<1>3. <<a>> \o <<b, c>> \in Seq(Frame) /\ Len(<<a>> \o <<b, c>>) = 3
  BY <1>1, <1>2, ConcatProperties
<1>4. /\ (<<a>> \o <<b, c>>)[1] = a
      /\ (<<a>> \o <<b, c>>)[2] = b
      /\ (<<a>> \o <<b, c>>)[3] = c
  BY <1>1, <1>2, ConcatProperties
<1>5. \A i \in 1..Len(<<a>> \o <<b, c>>) : (<<a>> \o <<b, c>>)[i] = <<a, b, c>>[i]
  BY <1>3, <1>4
<1> QED BY <1>1, <1>2, <1>3, <1>5, SeqEqual

(* A frame is one of the frames of Frame, and says what it is.             *)
LEMMA Frames ==
  /\ \A l \in Logger, p \in Place : F(l, p) \in Frame
  /\ \A l, m, p, q : F(l, p) = F(m, q) => l = m /\ p = q
  BY DEF F, Frame, Place

(* The top of each shape, and what is below.                               *)
LEMMA Tops ==
  /\ \A l, p : /\ Single(l, p) # <<>> /\ Head(Single(l, p)) = F(l, p)
               /\ Tail(Single(l, p)) = <<>> /\ Len(Single(l, p)) = 1
  /\ \A p : /\ Above(p) # <<>> /\ Head(Above(p)) = F("Main", p)
            /\ Tail(Above(p)) = Single("Lines", "write") /\ Len(Above(p)) = 2
  /\ Frozen2 # <<>> /\ Head(Frozen2) = F("Main", "lock") /\ Len(Frozen2) = 2
  /\ Frozen3 # <<>> /\ Head(Frozen3) = F("Main", "lock") /\ Len(Frozen3) = 3
  BY DEF Single, Above, Frozen2, Frozen3

(* No two shapes are the same.                                             *)
LEMMA ShapesDiffer ==
  /\ \A l, p, m, q : Single(l, p) = Single(m, q) => l = m /\ p = q
  /\ \A p, q : Above(p) = Above(q) => p = q
  /\ \A l, p, q : Single(l, p) # Above(q)
  /\ \A l, p : Single(l, p) # Frozen2 /\ Single(l, p) # Frozen3
  /\ \A p : Above(p) # Frozen2 /\ Above(p) # Frozen3
  /\ Frozen2 # Frozen3
<1>1. \A l, p, m, q : Single(l, p) = Single(m, q) => l = m /\ p = q
  BY Tops, Frames
<1>2. \A p, q : Above(p) = Above(q) => p = q
  BY Tops, Frames
<1>3. \A p : Above(p) # Frozen2
  <2>1. \A p : Above(p)[2] = F("Lines", "write") /\ Frozen2[2] = F("Main", "write")
    BY DEF Above, Frozen2
  <2> QED BY <2>1, Frames
<1>4. \A l, p, q : Len(Single(l, p)) = 1 /\ Len(Above(q)) = 2
  BY Tops
<1>5. Len(Frozen2) = 2 /\ Len(Frozen3) = 3
  BY Tops
<1>6. \A l, p, q : Single(l, p) # Above(q) /\ Single(l, p) # Frozen2 /\ Single(l, p) # Frozen3
  BY <1>4, <1>5
<1>7. \A p : Above(p) # Frozen3
  BY <1>4, <1>5
<1>8. Frozen2 # Frozen3
  BY <1>5
<1> QED BY <1>1, <1>2, <1>3, <1>6, <1>7, <1>8

(* The shapes.                                                             *)
LEMMA InShape ==
  /\ \A l \in Logger, p \in Place : Single(l, p) \in Shape
  /\ \A p \in Place : Above(p) \in Shape
  /\ <<>> \in Shape /\ Frozen2 \in Shape /\ Frozen3 \in Shape
  BY DEF Shape

(* What the top frame of a shape makes of it, when it is replaced, when    *)
(* it is dropped, and when an entry of Main is begun above it.             *)
LEMMA Shapes ==
  ASSUME NEW s \in Shape, s # <<>>, NEW l \in Logger, NEW p \in Place,
         Head(s) = [logger |-> l, at |-> p]
  PROVE  \/ /\ s = Single(l, p)
            /\ Tail(s) = <<>>
            /\ \A q \in Place : <<F(l, q)>> \o Tail(s) = Single(l, q)
         \/ /\ l = "Main"
            /\ s = Above(p)
            /\ Tail(s) = Single("Lines", "write")
            /\ \A q \in Place : <<F(l, q)>> \o Tail(s) = Above(q)
         \/ l = "Main" /\ p = "lock" /\ s \in {Frozen2, Frozen3}
<1>0. Head(s) = F(l, p)
  BY DEF F
<1>1. CASE \E m \in Logger, q \in Place : s = Single(m, q)
  <2>1. s = Single(l, p)
    BY <1>0, <1>1, Tops, Frames
  <2>2. \A x \in Place : <<F(l, x)>> \o <<>> = <<F(l, x)>>
    OBVIOUS
  <2> QED BY <2>1, <2>2, Tops DEF Single
<1>2. CASE \E q \in Place : s = Above(q)
  <2>1. s = Above(p) /\ l = "Main"
    BY <1>0, <1>2, Tops, Frames
  <2>2. \A x \in Place : <<F(l, x)>> \o <<F("Lines", "write")>> = <<F(l, x), F("Lines", "write")>>
    BY Frames, TwoFrames DEF Logger, Place
  <2> QED BY <2>1, <2>2, Tops DEF Above, Single
<1>3. CASE s \in {Frozen2, Frozen3}
  BY <1>0, <1>3, Tops, Frames
<1> QED BY <1>1, <1>2, <1>3 DEF Shape

(* Who is in the hook of which logger.                                     *)
LEMMA InHook ==
  ASSUME NEW m \in Logger
  PROVE  /\ ~In(<<>>, m)
         /\ \A l \in Logger, p \in Place : In(Single(l, p), m) <=> m = l /\ p \in {"check", "write"}
         /\ \A p \in Place : In(Above(p), m) <=> m = "Lines" \/ p \in {"check", "write"}
         /\ In(Frozen2, m) <=> m = "Main"
         /\ In(Frozen3, m)
<1>1. ~In(<<>>, m)
  BY Tops DEF In
<1>2. \A l \in Logger, p \in Place : In(Single(l, p), m) <=> m = l /\ p \in {"check", "write"}
  BY ShapesDiffer DEF In
<1>3. \A p \in Place : In(Above(p), m) <=> m = "Lines" \/ p \in {"check", "write"}
  BY ShapesDiffer DEF In, Logger
<1>4. (In(Frozen2, m) <=> m = "Main") /\ In(Frozen3, m)
  BY ShapesDiffer DEF In, Logger
<1> QED BY <1>1, <1>2, <1>3, <1>4

(* Some goroutine waits for the mutex of Main in the hook of Main.         *)
Froze == \E t \in Thread : stack[t] \in {Frozen2, Frozen3}

(* The lines' hook is held by a goroutine that logs on Main from within.   *)
Reopening == \E t \in Thread : stack[t] = Frozen3 \/ \E p \in Place : stack[t] = Above(p)

(* The stacks have one of the shapes, and the mutexes go with them; a file *)
(* is reopened only after a HUP was noted, and an entry about that gets    *)
(* past the hook of Main only if this hook has failed.                     *)
Nested == \A t \in Thread :
    /\ stack[t] \in Shape
    /\ stack[t] # Above("write")
    /\ stack[t] = Above("out") => failed["Main"]
Mutexes == \A t \in Thread, l \in Logger : In(stack[t], l) <=> mu[l] = t
Waiting == hpc = "receive" => stack[Hup] = <<>>
BeforeHup == ~seen => /\ \A l \in Logger : ~hup[l] /\ late[l] = 0
                      /\ ~Reopening

(* After it, what may still be written is what was about to be.            *)
NoMain == seen => hup["Main"] \/ failed["Main"] \/ Froze
NoLines == seen => failed["Main"] \/ hup["Lines"] \/ failed["Lines"] \/ Reopening
LateMain ==
    /\ late["Main"] <= 1
    /\ \A t \in Thread : stack[t] = Single("Main", "write") => late["Main"] = 0
LateLines == failed["Main"] \/
    /\ late["Lines"] <= 1
    /\ \A t \in Thread : stack[t] = Single("Lines", "write") => late["Lines"] = 0

Simple == /\ mu \in [Logger -> Thread \cup {Free}]
          /\ stack \in [Thread -> Seq(Frame)]
          /\ hup \in [Logger -> BOOLEAN]
          /\ file \in [Logger -> {"old", "new", "none"}]
          /\ failed \in [Logger -> BOOLEAN]
          /\ hpc \in {"receive", "set"}
          /\ signals \in 0..2
          /\ sent \in 0..MaxSignals
          /\ seen \in BOOLEAN
          /\ late \in [Logger -> 0..2]

IInv == /\ Simple /\ Nested /\ Mutexes /\ Waiting
        /\ BeforeHup /\ NoMain /\ NoLines /\ LateMain /\ LateLines

(* All shapes are stacks of at most three frames.                          *)
LEMMA ShapesAreStacks == \A s \in Shape : s \in Seq(Frame) /\ Len(s) <= 3
<1>1. \A l \in Logger, p \in Place : Single(l, p) \in Seq(Frame)
  BY Frames DEF Single
<1>2. \A p \in Place : Above(p) \in Seq(Frame)
  <2> SUFFICES ASSUME NEW p \in Place PROVE Above(p) \in Seq(Frame)
    OBVIOUS
  <2>1. F("Main", p) \in Frame /\ F("Lines", "write") \in Frame
    BY Frames DEF Logger, Place
  <2> QED BY <2>1 DEF Above
<1>3. Frozen2 \in Seq(Frame) /\ Frozen3 \in Seq(Frame)
  <2>1. F("Main", "lock") \in Frame /\ F("Main", "write") \in Frame /\ F("Lines", "write") \in Frame
    BY Frames DEF Logger, Place
  <2> QED BY <2>1 DEF Frozen2, Frozen3
<1>4. <<>> \in Seq(Frame)
  OBVIOUS
<1>5. \A l, p : Len(Single(l, p)) <= 3 /\ Len(Above(p)) <= 3
  <2> TAKE l, p
  <2>1. Len(Single(l, p)) = 1 /\ Len(Above(p)) = 2 /\ 1 <= 3 /\ 2 <= 3
    BY Tops
  <2> QED BY <2>1
<1>6. Len(<<>>) <= 3 /\ Len(Frozen2) <= 3 /\ Len(Frozen3) <= 3
  <2>1. Len(Frozen2) = 2 /\ Len(Frozen3) = 3
    BY Tops
  <2> QED BY <2>1
<1> SUFFICES ASSUME NEW s \in Shape PROVE s \in Seq(Frame) /\ Len(s) <= 3
  OBVIOUS
<1>7. CASE \E l \in Logger, p \in Place : s = Single(l, p)
  BY <1>1, <1>5, <1>7
<1>8. CASE \E p \in Place : s = Above(p)
  BY <1>2, <1>5, <1>8
<1>9. CASE s \in {<<>>, Frozen2, Frozen3}
  BY <1>3, <1>4, <1>6, <1>9
<1> QED BY <1>7, <1>8, <1>9 DEF Shape

(* Nobody logs, and no HUP has come, to begin with.                        *)
LEMMA InitIInv == Init => IInv
<1> SUFFICES ASSUME Init PROVE IInv
  OBVIOUS
<1>1. Simple
  <2>1. stack \in [Thread -> Seq(Frame)]
    BY DEF Init
  <2>2. mu \in [Logger -> Thread \cup {Free}]
    BY DEF Init
  <2>3. hup \in [Logger -> BOOLEAN] /\ failed \in [Logger -> BOOLEAN]
    BY DEF Init
  <2>4. file \in [Logger -> {"old", "new", "none"}]
    BY DEF Init
  <2>5. late \in [Logger -> 0..2] /\ sent \in 0..MaxSignals /\ signals \in 0..2
    BY LogHupAssumption DEF Init
  <2> QED BY <2>1, <2>2, <2>3, <2>4, <2>5 DEF Init, Simple
<1>2. \A t \in Thread : stack[t] = <<>>
  BY DEF Init
<1>3. Nested
  <2>1. <<>> \in Shape
    BY DEF Shape
  <2>2. \A p : Above(p) # <<>>
    BY Tops
  <2> QED BY <1>2, <2>1, <2>2 DEF Nested
<1>4. Mutexes
  BY <1>2, InHook, LogHupAssumption DEF Init, Mutexes
<1>5. Waiting
  BY <1>2, LogHupAssumption DEF Waiting
<1>6. ~Reopening
  BY <1>2, Tops DEF Reopening
<1>7. BeforeHup /\ NoMain /\ NoLines /\ LateMain /\ LateLines
  BY <1>2, <1>6, Tops DEF Init, BeforeHup, NoMain, NoLines, LateMain, LateLines, Logger
<1> QED BY <1>1, <1>3, <1>4, <1>5, <1>7 DEF IInv

(* A mutex has one holder.                                                 *)
LEMMA OneHolder ==
  ASSUME IInv, NEW t \in Thread, NEW x \in Thread, NEW l \in Logger,
         In(stack[t], l), In(stack[x], l)
  PROVE  t = x
  BY DEF IInv, Mutexes

(* A goroutine in the hook of Main is not frozen, unless all that are      *)
(* frozen are itself.                                                      *)
LEMMA NotFroze ==
  ASSUME IInv, NEW t \in Thread, In(stack[t], "Main"), stack[t] \notin {Frozen2, Frozen3}
  PROVE  ~Froze
<1>1. ASSUME NEW x \in Thread, stack[x] \in {Frozen2, Frozen3} PROVE FALSE
  BY <1>1, OneHolder, InHook DEF Logger
<1> QED BY <1>1 DEF Froze

(* The same for the hook of the lines.                                     *)
LEMMA NotReopening ==
  ASSUME IInv, NEW t \in Thread, stack[t] = Single("Lines", "check")
  PROVE  ~Reopening
<1>1. In(stack[t], "Lines")
  BY InHook DEF Logger, Place
<1>2. ASSUME NEW x \in Thread, stack[x] = Frozen3 \/ \E p \in Place : stack[x] = Above(p)
      PROVE  FALSE
  <2>1. In(stack[x], "Lines")
    BY <1>2, InHook DEF Logger
  <2>2. x = t
    BY <1>1, <2>1, OneHolder DEF Logger
  <2> QED BY <1>2, <2>2, ShapesDiffer
<1> QED BY <1>2 DEF Reopening

(* The moves of one goroutine: where it was, and where it is.              *)
Moves(t, from, to) == stack[t] = from /\ stack' = [stack EXCEPT ![t] = to]

(* What can be said of any move that keeps the mutexes and the flags in    *)
(* step: who else is where does not change.                                *)
LEMMA MoveKeeps ==
  ASSUME IInv, NEW t \in Thread, NEW from \in Shape, NEW to \in Shape, Moves(t, from, to)
  PROVE  /\ stack' \in [Thread -> Seq(Frame)]
         /\ stack'[t] = to
         /\ \A x \in Thread \ {t} : stack'[x] = stack[x]
  BY ShapesAreStacks DEF Moves, IInv, Simple

(* The moves of the hooks.                                                 *)
LEMMA LockMoves ==
  ASSUME IInv, NEW t \in Thread, NEW l \in Logger, Lock(t, l)
  PROVE  \/ Moves(t, Single(l, "lock"), Single(l, "check"))
         \/ l = "Main" /\ Moves(t, Above("lock"), Above("check"))
<1>1. stack[t] \in Shape /\ stack[t] # <<>> /\ Head(stack[t]) = [logger |-> l, at |-> "lock"]
  BY DEF IInv, Nested, Lock, At
<1>2. stack' = [stack EXCEPT ![t] = <<F(l, "check")>> \o Tail(stack[t])]
  BY DEF Lock, Goto, F
<1>3. ~In(stack[t], l)
  BY LogHupAssumption DEF IInv, Mutexes, Lock
<1>4. l = "Main" => stack[t] \notin {Frozen2, Frozen3}
  BY <1>3, InHook
<1> QED BY <1>1, <1>2, <1>4, Shapes DEF Moves, Place

(* The stacks of a goroutine whose hook is to look at its flags.           *)
LEMMA FireMoves ==
  ASSUME IInv, NEW t \in Thread, NEW l \in Logger, At(t, l, "check")
  PROVE  \/ /\ stack[t] = Single(l, "check")
            /\ \A q \in Place : Goto(t, l, q) = Single(l, q)
         \/ /\ l = "Main" /\ stack[t] = Above("check")
            /\ \A q \in Place : Goto(t, l, q) = Above(q)
<1>1. stack[t] \in Shape /\ stack[t] # <<>> /\ Head(stack[t]) = [logger |-> l, at |-> "check"]
  BY DEF IInv, Nested, At
<1>2. \A q : Goto(t, l, q) = <<F(l, q)>> \o Tail(stack[t])
  BY DEF Goto, F
<1> QED BY <1>1, <1>2, Shapes DEF Place

(* An entry is written only when it is alone on its stack.                 *)
LEMMA WriteMoves ==
  ASSUME IInv, NEW t \in Thread, NEW l \in Logger, Write(t, l)
  PROVE  Moves(t, Single(l, "write"), Single(l, "out"))
<1>1. stack[t] \in Shape /\ stack[t] # <<>> /\ Head(stack[t]) = [logger |-> l, at |-> "write"]
  BY DEF IInv, Nested, Write, At
<1>2. stack' = [stack EXCEPT ![t] = <<F(l, "out")>> \o Tail(stack[t])]
  BY DEF Write, Goto, F
<1>3. stack[t] # Above("write")
  BY DEF IInv, Nested
<1> QED BY <1>1, <1>2, <1>3, Shapes DEF Moves, Place

(* Printing an entry leaves the stack empty, or the entry it came from.    *)
LEMMA OutMoves ==
  ASSUME IInv, NEW t \in Thread, NEW l \in Logger, Out(t, l)
  PROVE  \/ Moves(t, Single(l, "out"), <<>>)
         \/ failed["Main"] /\ Moves(t, Above("out"), Single("Lines", "write"))
<1>1. stack[t] \in Shape /\ stack[t] # <<>> /\ Head(stack[t]) = [logger |-> l, at |-> "out"]
  BY DEF IInv, Nested, Out, At
<1>2. stack' = [stack EXCEPT ![t] = Tail(stack[t])]
  BY DEF Out
<1>3. stack[t] = Above("out") => failed["Main"]
  BY DEF IInv, Nested
<1> QED BY <1>1, <1>2, <1>3, Shapes DEF Moves, Place

(* Serving a HUP freezes the goroutine, or puts an entry of Main on top.   *)
LEMMA HupMoves ==
  ASSUME IInv, NEW t \in Thread, NEW l \in Logger, FireHup(t, l)
  PROVE  \/ l = "Main" /\ Moves(t, Single("Main", "check"), Frozen2)
         \/ l = "Main" /\ Moves(t, Above("check"), Frozen3)
         \/ l = "Lines" /\ Moves(t, Single("Lines", "check"), Above("lock"))
<1>1. stack' = [stack EXCEPT ![t] = <<F("Main", "lock")>> \o Goto(t, l, "write")]
  BY DEF FireHup, F
<1>2. \/ stack[t] = Single(l, "check") /\ Goto(t, l, "write") = Single(l, "write")
      \/ l = "Main" /\ stack[t] = Above("check") /\ Goto(t, l, "write") = Above("write")
  BY FireMoves DEF FireHup, Place
<1>3. F("Main", "lock") \in Frame /\ F("Main", "write") \in Frame /\ F("Lines", "write") \in Frame
  BY Frames DEF Logger, Place
<1>4. <<F("Main", "lock")>> \o Single("Main", "write") = Frozen2
  BY <1>3, TwoFrames DEF Single, Frozen2
<1>5. <<F("Main", "lock")>> \o Single("Lines", "write") = Above("lock")
  BY <1>3, TwoFrames DEF Single, Above
<1>6. <<F("Main", "lock")>> \o Above("write") = Frozen3
  BY <1>3, ThreeFrames DEF Above, Frozen3
<1> QED BY <1>1, <1>2, <1>4, <1>5, <1>6 DEF Moves, Logger

(* A goroutine enters a hook: it takes the mutex.                          *)
LEMMA LockIInv == ASSUME IInv, NEW t \in Thread, NEW l \in Logger, Lock(t, l) PROVE IInv'
<1>0. /\ mu[l] = Free /\ mu' = [mu EXCEPT ![l] = t]
      /\ UNCHANGED <<hup, file, failed, hpc, signals, sent, seen, late>>
  BY DEF Lock
<1>1. PICK from \in Shape, to \in Shape :
        /\ Moves(t, from, to)
        /\ \/ from = Single(l, "lock") /\ to = Single(l, "check")
           \/ l = "Main" /\ from = Above("lock") /\ to = Above("check")
  BY LockMoves, InShape DEF Place, Logger
<1>2. /\ stack' \in [Thread -> Seq(Frame)]
      /\ stack[t] = from /\ stack'[t] = to
      /\ \A x \in Thread \ {t} : stack'[x] = stack[x]
  BY <1>1, MoveKeeps DEF Moves
<1>3. Simple'
  BY <1>0, <1>2 DEF IInv, Simple
<1>4. Nested'
  BY <1>0, <1>1, <1>2, ShapesDiffer DEF IInv, Nested
<1>5. Mutexes'
  <2>1. \A m \in Logger : In(to, m) <=> m = l \/ In(from, m)
    BY <1>1, InHook DEF Place, Logger
  <2>2. ~In(from, l)
    BY <1>1, InHook DEF Place, Logger
  <2> QED BY <1>0, <1>2, <2>1, <2>2, LogHupAssumption DEF IInv, Simple, Mutexes
<1>6. Waiting'
  <2>1. from # <<>>
    BY <1>1, Tops
  <2> QED BY <1>0, <1>2, <2>1, LogHupAssumption DEF IInv, Waiting
<1>7. Froze' <=> Froze
  BY <1>1, <1>2, ShapesDiffer DEF Froze
<1>8. Reopening' <=> Reopening
  <2>1. (to = Frozen3 \/ \E p \in Place : to = Above(p))
          <=> (from = Frozen3 \/ \E p \in Place : from = Above(p))
    BY <1>1, ShapesDiffer DEF Place
  <2> QED BY <1>2, <2>1 DEF Reopening
<1>9. BeforeHup' /\ NoMain' /\ NoLines'
  BY <1>0, <1>7, <1>8 DEF IInv, BeforeHup, NoMain, NoLines
<1>10. LateMain' /\ LateLines'
  BY <1>0, <1>1, <1>2, ShapesDiffer DEF IInv, LateMain, LateLines
<1> QED BY <1>3, <1>4, <1>5, <1>6, <1>9, <1>10 DEF IInv

(* A hook that has failed lets the mutex go.                               *)
LEMMA FailedIInv == ASSUME IInv, NEW t \in Thread, NEW l \in Logger, FireFailed(t, l) PROVE IInv'
<1>0. /\ failed[l] /\ mu' = [mu EXCEPT ![l] = Free] /\ At(t, l, "check")
      /\ stack' = [stack EXCEPT ![t] = Goto(t, l, "out")]
      /\ UNCHANGED <<hup, file, failed, hpc, signals, sent, seen, late>>
  BY DEF FireFailed
<1>1. PICK from \in Shape, to \in Shape :
        /\ Moves(t, from, to)
        /\ \/ from = Single(l, "check") /\ to = Single(l, "out")
           \/ l = "Main" /\ from = Above("check") /\ to = Above("out")
  <2>1. \/ Moves(t, Single(l, "check"), Single(l, "out"))
        \/ l = "Main" /\ Moves(t, Above("check"), Above("out"))
    BY <1>0, FireMoves DEF Place, Moves
  <2> QED BY <2>1, InShape DEF Place
<1>2. /\ stack' \in [Thread -> Seq(Frame)]
      /\ stack[t] = from /\ stack'[t] = to
      /\ \A x \in Thread \ {t} : stack'[x] = stack[x]
  BY <1>1, MoveKeeps DEF Moves
<1>3. Simple'
  BY <1>0, <1>2 DEF IInv, Simple
<1>4. Nested'
  BY <1>0, <1>1, <1>2, ShapesDiffer DEF IInv, Nested
<1>5. Mutexes'
  <2>1. \A m \in Logger : In(to, m) <=> m # l /\ In(from, m)
    BY <1>1, InHook DEF Place, Logger
  <2>2. In(from, l)
    BY <1>1, InHook DEF Place, Logger
  <2> QED BY <1>0, <1>2, <2>1, <2>2, LogHupAssumption DEF IInv, Simple, Mutexes
<1>6. Waiting'
  <2>1. from # <<>>
    BY <1>1, Tops
  <2> QED BY <1>0, <1>2, <2>1, LogHupAssumption DEF IInv, Waiting
<1>7. Froze' <=> Froze
  BY <1>1, <1>2, ShapesDiffer DEF Froze
<1>8. Reopening' <=> Reopening
  <2>1. (to = Frozen3 \/ \E p \in Place : to = Above(p))
          <=> (from = Frozen3 \/ \E p \in Place : from = Above(p))
    BY <1>1, ShapesDiffer DEF Place
  <2> QED BY <1>2, <2>1 DEF Reopening
<1>9. BeforeHup' /\ NoMain' /\ NoLines'
  BY <1>0, <1>7, <1>8 DEF IInv, BeforeHup, NoMain, NoLines
<1>10. LateMain' /\ LateLines'
  BY <1>0, <1>1, <1>2, ShapesDiffer DEF IInv, LateMain, LateLines
<1> QED BY <1>3, <1>4, <1>5, <1>6, <1>9, <1>10 DEF IInv

(* A hook without a HUP to serve writes: the HUP has not been noted yet,   *)
(* or this is the file of the lines and the hook of Main has failed.       *)
LEMMA PlainIInv == ASSUME IInv, NEW t \in Thread, NEW l \in Logger, FirePlain(t, l) PROVE IInv'
<1>0. /\ ~failed[l] /\ ~hup[l] /\ At(t, l, "check")
      /\ stack' = [stack EXCEPT ![t] = Goto(t, l, "write")]
      /\ UNCHANGED <<mu, hup, file, failed, hpc, signals, sent, seen, late>>
  BY DEF FirePlain
<1>a. l = "Main" => ~seen
  <2>1. l = "Main" => In(stack[t], "Main") /\ stack[t] \notin {Frozen2, Frozen3}
    BY <1>0, FireMoves, InHook, ShapesDiffer DEF Logger, Place
  <2>2. l = "Main" => ~Froze
    BY <2>1, NotFroze
  <2> QED BY <1>0, <2>2 DEF IInv, NoMain
<1>b. stack[t] = Single(l, "check") /\ stack' = [stack EXCEPT ![t] = Single(l, "write")]
  <2>1. stack[t] # Above("check") \/ l # "Main"
    BY <1>a DEF IInv, BeforeHup, Reopening, Place
  <2> QED BY <1>0, <2>1, FireMoves DEF Place
<1>1. PICK from \in Shape, to \in Shape :
        Moves(t, from, to) /\ from = Single(l, "check") /\ to = Single(l, "write")
  <2>1. Single(l, "check") \in Shape /\ Single(l, "write") \in Shape
    BY InShape DEF Place
  <2> QED BY <1>b, <2>1 DEF Moves
<1>2. /\ stack' \in [Thread -> Seq(Frame)]
      /\ stack[t] = from /\ stack'[t] = to
      /\ \A x \in Thread \ {t} : stack'[x] = stack[x]
  BY <1>1, MoveKeeps DEF Moves
<1>3. Simple'
  BY <1>0, <1>2 DEF IInv, Simple
<1>4. Nested'
  BY <1>0, <1>1, <1>2, ShapesDiffer DEF IInv, Nested
<1>5. Mutexes'
  <2>1. \A m \in Logger : In(to, m) <=> In(from, m)
    BY <1>1, InHook DEF Place, Logger
  <2> QED BY <1>0, <1>2, <2>1 DEF IInv, Simple, Mutexes
<1>6. Waiting'
  <2>1. from # <<>>
    BY <1>1, Tops
  <2> QED BY <1>0, <1>2, <2>1, LogHupAssumption DEF IInv, Waiting
<1>7. Froze' <=> Froze
  BY <1>1, <1>2, ShapesDiffer DEF Froze
<1>8. Reopening' <=> Reopening
  <2>1. (to = Frozen3 \/ \E p \in Place : to = Above(p))
          <=> (from = Frozen3 \/ \E p \in Place : from = Above(p))
    BY <1>1, ShapesDiffer DEF Place
  <2> QED BY <1>2, <2>1 DEF Reopening
<1>9. BeforeHup' /\ NoMain' /\ NoLines'
  BY <1>0, <1>7, <1>8 DEF IInv, BeforeHup, NoMain, NoLines
<1>10. LateMain'
  <2>1. ~seen => late["Main"] = 0
    BY DEF IInv, BeforeHup, Logger
  <2>2. to = Single("Main", "write") => l = "Main"
    BY <1>1, ShapesDiffer
  <2> QED BY <1>0, <1>a, <1>2, <2>1, <2>2 DEF IInv, LateMain
<1>11. LateLines'
  <2>1. ~seen => late["Lines"] = 0
    BY DEF IInv, BeforeHup, Logger
  <2>2. l = "Lines" => ~seen \/ failed["Main"]
    BY <1>0, <1>b, NotReopening DEF IInv, NoLines
  <2>3. to = Single("Lines", "write") => l = "Lines"
    BY <1>1, ShapesDiffer
  <2> QED BY <1>0, <1>2, <2>1, <2>2, <2>3 DEF IInv, LateLines
<1> QED BY <1>3, <1>4, <1>5, <1>6, <1>9, <1>10, <1>11 DEF IInv

(* A HUP is served: in the hook of Main this is the freeze.                *)
LEMMA HupIInv == ASSUME IInv, NEW t \in Thread, NEW l \in Logger, FireHup(t, l) PROVE IInv'
<1>0. /\ hup[l] /\ hup' = [hup EXCEPT ![l] = FALSE]
      /\ UNCHANGED <<mu, failed, hpc, signals, sent, seen, late>>
  BY DEF FireHup
<1>a. seen
  BY <1>0 DEF IInv, BeforeHup
<1>1. PICK from \in Shape, to \in Shape :
        /\ Moves(t, from, to)
        /\ \/ l = "Main" /\ from = Single("Main", "check") /\ to = Frozen2
           \/ l = "Main" /\ from = Above("check") /\ to = Frozen3
           \/ l = "Lines" /\ from = Single("Lines", "check") /\ to = Above("lock")
  BY HupMoves, InShape DEF Place, Logger
<1>2. /\ stack' \in [Thread -> Seq(Frame)]
      /\ stack[t] = from /\ stack'[t] = to
      /\ \A x \in Thread \ {t} : stack'[x] = stack[x]
  BY <1>1, MoveKeeps DEF Moves
<1>3. Simple'
  <2>1. file' \in [Logger -> {"old", "new", "none"}]
    BY DEF FireHup, IInv, Simple
  <2> QED BY <1>0, <1>2, <2>1 DEF IInv, Simple
<1>4. Nested'
  BY <1>0, <1>1, <1>2, ShapesDiffer DEF IInv, Nested
<1>5. Mutexes'
  <2>1. \A m \in Logger : In(to, m) <=> In(from, m)
    BY <1>1, InHook DEF Place, Logger
  <2> QED BY <1>0, <1>2, <2>1 DEF IInv, Simple, Mutexes
<1>6. Waiting'
  <2>1. from # <<>>
    BY <1>1, Tops
  <2> QED BY <1>0, <1>2, <2>1, LogHupAssumption DEF IInv, Waiting
<1>7. /\ l = "Main" => Froze'
      /\ Froze => Froze'
  BY <1>1, <1>2, ShapesDiffer DEF Froze
<1>8. /\ l = "Lines" => Reopening'
      /\ Reopening => Reopening'
  BY <1>1, <1>2, ShapesDiffer DEF Reopening, Place
<1>9. BeforeHup' /\ NoMain' /\ NoLines'
  BY <1>0, <1>a, <1>7, <1>8 DEF IInv, Simple, BeforeHup, NoMain, NoLines, Logger
<1>10. LateMain' /\ LateLines'
  BY <1>0, <1>1, <1>2, ShapesDiffer DEF IInv, LateMain, LateLines
<1> QED BY <1>3, <1>4, <1>5, <1>6, <1>9, <1>10 DEF IInv

(* An entry is written, or the hook fails.                                 *)
LEMMA WriteIInv == ASSUME IInv, NEW t \in Thread, NEW l \in Logger, Write(t, l) PROVE IInv'
<1>0. /\ mu' = [mu EXCEPT ![l] = Free]
      /\ UNCHANGED <<hup, file, hpc, signals, sent, seen>>
      /\ \/ UNCHANGED failed /\ late' = Written(l)
         \/ failed' = [failed EXCEPT ![l] = TRUE] /\ UNCHANGED late
  BY DEF Write
<1>1. PICK from \in Shape, to \in Shape :
        Moves(t, from, to) /\ from = Single(l, "write") /\ to = Single(l, "out")
  BY WriteMoves, InShape DEF Place
<1>2. /\ stack' \in [Thread -> Seq(Frame)]
      /\ stack[t] = from /\ stack'[t] = to
      /\ \A x \in Thread \ {t} : stack'[x] = stack[x]
  BY <1>1, MoveKeeps DEF Moves
<1>a. \A m \in Logger : failed[m] => failed'[m]
  BY <1>0 DEF IInv, Simple
<1>b. /\ \A m \in Logger \ {l} : late'[m] = late[m]
      /\ late'[l] \in 0..2
      /\ late[l] = 0 => late'[l] \in 0..1
      /\ ~seen => late' = late
      /\ late' \in [Logger -> 0..2]
  <2>0. late \in [Logger -> 0..2]
    BY DEF IInv, Simple
  <2>1. late' = late \/ (seen /\ late[l] < 2 /\ late' = [late EXCEPT ![l] = late[l] + 1])
    BY <1>0 DEF Written
  <2>2. CASE late' = late
    BY <2>0, <2>2
  <2>3. CASE seen /\ late[l] < 2 /\ late' = [late EXCEPT ![l] = late[l] + 1]
    <3>1. late[l] \in 0..1 /\ late[l] + 1 \in 0..2
      BY <2>0, <2>3
    <3>2. late'[l] = late[l] + 1
      BY <2>0, <2>3
    <3> QED BY <2>0, <2>3, <3>1, <3>2
  <2> QED BY <2>1, <2>2, <2>3
<1>c. ASSUME NEW x \in Thread, stack'[x] = Single(l, "write") PROVE FALSE
  <2>1. x # t
    BY <1>c, <1>1, <1>2, ShapesDiffer
  <2>2. In(stack[x], l) /\ In(stack[t], l)
    BY <1>c, <1>1, <1>2, <2>1, InHook DEF Place
  <2> QED BY <2>1, <2>2, OneHolder
<1>3. Simple'
  <2>1. failed' \in [Logger -> BOOLEAN] /\ mu' \in [Logger -> Thread \cup {Free}]
    BY <1>0 DEF IInv, Simple
  <2> QED BY <1>0, <1>2, <1>b, <2>1 DEF IInv, Simple
<1>4. Nested'
  <2>1. to # Above("write") /\ to # Above("out")
    BY <1>1, ShapesDiffer
  <2>2. failed["Main"] => failed'["Main"]
    BY <1>a DEF Logger
  <2> QED BY <1>2, <2>1, <2>2 DEF IInv, Nested
<1>5. Mutexes'
  <2>1. \A m \in Logger : In(to, m) <=> m # l /\ In(from, m)
    BY <1>1, InHook DEF Place, Logger
  <2>2. In(from, l)
    BY <1>1, InHook DEF Place, Logger
  <2>3. mu'[l] = Free /\ \A m \in Logger \ {l} : mu'[m] = mu[m]
    BY <1>0 DEF IInv, Simple
  <2>4. mu[l] = t
    BY <1>2, <2>2 DEF IInv, Mutexes
  <2> QED BY <1>2, <2>1, <2>2, <2>3, <2>4, LogHupAssumption DEF IInv, Mutexes
<1>6. Waiting'
  <2>1. from # <<>>
    BY <1>1, Tops
  <2> QED BY <1>0, <1>2, <2>1, LogHupAssumption DEF IInv, Waiting
<1>7. Froze' <=> Froze
  BY <1>1, <1>2, ShapesDiffer DEF Froze
<1>8. Reopening' <=> Reopening
  BY <1>1, <1>2, ShapesDiffer DEF Reopening
<1>9. BeforeHup' /\ NoMain' /\ NoLines'
  BY <1>0, <1>a, <1>b, <1>7, <1>8 DEF IInv, BeforeHup, NoMain, NoLines, Logger
<1>10. LateMain'
  <2>1. CASE l = "Main"
    <3>1. late["Main"] = 0
      BY <1>1, <1>2, <2>1 DEF IInv, LateMain
    <3> QED BY <1>b, <1>c, <2>1, <3>1 DEF LateMain
  <2>2. CASE l = "Lines"
    <3>1. late'["Main"] = late["Main"]
      BY <1>b, <2>2 DEF Logger
    <3>2. to # Single("Main", "write")
      BY <1>1, ShapesDiffer
    <3> QED BY <1>2, <3>1, <3>2 DEF IInv, LateMain
  <2> QED BY <2>1, <2>2 DEF Logger
<1>11. LateLines'
  <2>0. failed["Main"] => failed'["Main"]
    BY <1>a DEF Logger
  <2>1. CASE l = "Lines" /\ ~failed["Main"]
    <3>1. late["Lines"] = 0
      BY <1>1, <1>2, <2>1 DEF IInv, LateLines
    <3> QED BY <1>b, <1>c, <2>1, <3>1 DEF LateLines
  <2>2. CASE l = "Main" /\ ~failed["Main"]
    <3>1. late'["Lines"] = late["Lines"]
      BY <1>b, <2>2 DEF Logger
    <3>2. to # Single("Lines", "write")
      BY <1>1, ShapesDiffer
    <3> QED BY <1>2, <2>2, <3>1, <3>2 DEF IInv, LateLines
  <2> QED BY <2>0, <2>1, <2>2 DEF Logger, LateLines
<1> QED BY <1>3, <1>4, <1>5, <1>6, <1>9, <1>10, <1>11 DEF IInv

(* An entry is printed and done.                                           *)
LEMMA OutIInv == ASSUME IInv, NEW t \in Thread, NEW l \in Logger, Out(t, l) PROVE IInv'
<1>0. UNCHANGED <<mu, hup, file, failed, hpc, signals, sent, seen, late>>
  BY DEF Out
<1>1. PICK from \in Shape, to \in Shape :
        /\ Moves(t, from, to)
        /\ \/ from = Single(l, "out") /\ to = <<>>
           \/ failed["Main"] /\ from = Above("out") /\ to = Single("Lines", "write")
  BY OutMoves, InShape DEF Place, Logger
<1>2. /\ stack' \in [Thread -> Seq(Frame)]
      /\ stack[t] = from /\ stack'[t] = to
      /\ \A x \in Thread \ {t} : stack'[x] = stack[x]
  BY <1>1, MoveKeeps DEF Moves
<1>3. Simple'
  BY <1>0, <1>2 DEF IInv, Simple
<1>4. Nested'
  BY <1>0, <1>1, <1>2, ShapesDiffer, Tops DEF IInv, Nested
<1>5. Mutexes'
  <2>1. \A m \in Logger : In(to, m) <=> In(from, m)
    BY <1>1, InHook DEF Place, Logger
  <2> QED BY <1>0, <1>2, <2>1 DEF IInv, Simple, Mutexes
<1>6. Waiting'
  <2>1. from # <<>>
    BY <1>1, Tops
  <2> QED BY <1>0, <1>2, <2>1, LogHupAssumption DEF IInv, Waiting
<1>7. Froze' <=> Froze
  <2>1. from \notin {Frozen2, Frozen3} /\ to \notin {Frozen2, Frozen3}
    <3>1. <<>> \notin {Frozen2, Frozen3}
      BY Tops
    <3> QED BY <1>1, <3>1, ShapesDiffer
  <2> QED BY <1>2, <2>1 DEF Froze
<1>8. /\ Reopening' => Reopening
      /\ ~failed["Main"] => (Reopening' <=> Reopening)
  BY <1>1, <1>2, ShapesDiffer, Tops DEF Reopening
<1>9. BeforeHup' /\ NoMain' /\ NoLines'
  BY <1>0, <1>7, <1>8 DEF IInv, BeforeHup, NoMain, NoLines
<1>10. LateMain' /\ LateLines'
  <2>1. /\ to # Single("Main", "write")
        /\ to = Single("Lines", "write") => failed["Main"]
    <3>1. \A m, p : <<>> # Single(m, p)
      BY Tops
    <3> QED BY <1>1, <3>1, ShapesDiffer
  <2> QED BY <1>0, <1>2, <2>1 DEF IInv, LateMain, LateLines
<1> QED BY <1>3, <1>4, <1>5, <1>6, <1>9, <1>10 DEF IInv

(* An entry is begun, also that of a signal's receipt.                     *)
LEMMA BeginIInv ==
  ASSUME IInv, NEW t \in Thread, NEW l \in Logger, stack[t] = <<>>,
         stack' = [stack EXCEPT ![t] = <<[logger |-> l, at |-> "lock"]>>],
         UNCHANGED <<mu, hup, file, failed, sent, seen, late>>,
         hpc' \in {"receive", "set"}, signals' \in 0..2,
         hpc' = "receive" => hpc = "receive" /\ t # Hup
  PROVE  IInv'
<1>1. /\ Single(l, "lock") \in Shape /\ <<>> \in Shape
      /\ Moves(t, <<>>, Single(l, "lock"))
  BY InShape DEF Moves, Single, F, Place
<1>2. /\ stack' \in [Thread -> Seq(Frame)]
      /\ stack'[t] = Single(l, "lock")
      /\ \A x \in Thread \ {t} : stack'[x] = stack[x]
  BY <1>1, MoveKeeps
<1>3. Simple'
  BY <1>2 DEF IInv, Simple
<1>4. Nested'
  BY <1>1, <1>2, ShapesDiffer DEF IInv, Nested
<1>5. Mutexes'
  <2>1. \A m \in Logger : ~In(Single(l, "lock"), m) /\ ~In(<<>>, m)
    BY InHook DEF Place
  <2> QED BY <1>2, <2>1 DEF IInv, Mutexes
<1>6. Waiting'
  BY <1>2, LogHupAssumption DEF IInv, Waiting
<1>7. Froze' <=> Froze
  <2>1. <<>> \notin {Frozen2, Frozen3} /\ Single(l, "lock") \notin {Frozen2, Frozen3}
    BY Tops, ShapesDiffer
  <2> QED BY <1>2, <2>1 DEF Froze
<1>8. Reopening' <=> Reopening
  <2>1. \A p : <<>> # Above(p) /\ <<>> # Frozen3
    BY Tops
  <2> QED BY <1>2, <2>1, ShapesDiffer DEF Reopening
<1>9. BeforeHup' /\ NoMain' /\ NoLines'
  BY <1>7, <1>8 DEF IInv, BeforeHup, NoMain, NoLines
<1>10. LateMain' /\ LateLines'
  BY <1>2, ShapesDiffer DEF IInv, LateMain, LateLines
<1> QED BY <1>3, <1>4, <1>5, <1>6, <1>9, <1>10 DEF IInv

(* A HUP is noted for both files.                                          *)
LEMMA SetFlagsIInv == IInv /\ SetFlags => IInv'
<1> SUFFICES ASSUME IInv, SetFlags PROVE IInv'
  OBVIOUS
<1>0. /\ hup' = [l \in Logger |-> TRUE] /\ seen' = TRUE /\ hpc' = "receive"
      /\ stack[Hup] = <<>>
      /\ UNCHANGED <<stack, mu, file, failed, signals, sent, late>>
  BY DEF SetFlags
<1>1. Simple'
  <2>1. hup' \in [Logger -> BOOLEAN]
    BY <1>0
  <2> QED BY <1>0, <2>1 DEF IInv, Simple
<1>2. Nested' /\ Mutexes' /\ Waiting' /\ LateMain' /\ LateLines'
  BY <1>0 DEF IInv, Nested, Mutexes, Waiting, LateMain, LateLines
<1>3. BeforeHup' /\ NoMain' /\ NoLines'
  BY <1>0 DEF BeforeHup, NoMain, NoLines, Logger
<1> QED BY <1>1, <1>2, <1>3 DEF IInv

(* Every step keeps the invariant.                                         *)
LEMMA NextIInv == IInv /\ [Next]_vars => IInv'
<1> SUFFICES ASSUME IInv, [Next]_vars PROVE IInv'
  OBVIOUS
<1>1. ASSUME NEW t \in Thread, Step(t) PROVE IInv'
  BY <1>1, LockIInv, FailedIInv, PlainIInv, HupIInv, WriteIInv, OutIInv DEF Step
<1>2. ASSUME NEW t \in Thread, NEW l \in Logger, Log(t, l) PROVE IInv'
  <2>1. /\ stack[t] = <<>> /\ t # Hup
        /\ stack' = [stack EXCEPT ![t] = <<[logger |-> l, at |-> "lock"]>>]
        /\ UNCHANGED <<mu, hup, file, failed, hpc, signals, sent, seen, late>>
    BY <1>2 DEF Log
  <2>2. hpc \in {"receive", "set"} /\ signals \in 0..2
    BY DEF IInv, Simple
  <2> QED BY <2>1, <2>2, BeginIInv
<1>3. CASE ReceiveSignal
  <2>1. /\ hpc = "receive" /\ hpc' = "set" /\ signals > 0 /\ signals' = signals - 1
        /\ stack' = [stack EXCEPT ![Hup] = <<[logger |-> "Main", at |-> "lock"]>>]
        /\ UNCHANGED <<mu, hup, file, failed, sent, seen, late>>
    BY <1>3 DEF ReceiveSignal
  <2>2. stack[Hup] = <<>> /\ signals' \in 0..2
    BY <2>1 DEF IInv, Simple, Waiting
  <2>3. Hup \in Thread /\ "Main" \in Logger
    BY LogHupAssumption DEF Logger
  <2> QED BY <2>1, <2>2, <2>3, BeginIInv
<1>4. CASE Signal
  <2>1. Simple'
    BY <1>4, LogHupAssumption DEF Signal, IInv, Simple
  <2>2. UNCHANGED <<stack, mu, hup, file, failed, hpc, seen, late>>
    BY <1>4 DEF Signal
  <2> QED BY <2>1, <2>2 DEF IInv, Nested, Mutexes, Waiting, BeforeHup, NoMain, NoLines,
                            LateMain, LateLines, Froze, Reopening
<1>5. CASE UNCHANGED vars
  BY <1>5 DEF vars, IInv, Simple, Nested, Mutexes, Waiting, BeforeHup, NoMain, NoLines,
              LateMain, LateLines, Froze, Reopening
<1> QED BY <1>1, <1>2, <1>3, <1>4, <1>5, SetFlagsIInv DEF Next

(* The invariant holds in every state of every behaviour.                  *)
THEOREM Invariance == Spec => []IInv
<1>1. Init /\ [][Next]_vars => []IInv
  BY InitIInv, NextIInv, PTL
<1> QED BY <1>1, PTL DEF Spec

(* The loggers keep their types: entries nest three deep at most, a hook   *)
(* in a hook in a hook.                                                    *)
THEOREM TypeCorrect == Spec => []TypeOK
<1>1. IInv => TypeOK
  BY ShapesAreStacks DEF IInv, Simple, Nested, TypeOK
<1> QED BY <1>1, Invariance, PTL

(* After a HUP was noted at most one more entry reaches the main log, and  *)
(* at most one more line the other (log.go:71).                            *)
THEOREM SilentAfterwards == Spec => []SilentAfterHup
<1>1. IInv => SilentAfterHup
  BY DEF IInv, LateMain, LateLines, SilentAfterHup
<1> QED BY <1>1, Invariance, PTL

(* The wait for a mutex its own goroutine holds is that of the hook of     *)
(* Main that logs on Main.                                                 *)
LEMMA FrozenIsFroze == IInv => (Frozen <=> Froze)
<1> SUFFICES ASSUME IInv PROVE Frozen <=> Froze
  OBVIOUS
<1>1. ASSUME NEW t \in Thread, mu["Main"] = t, At(t, "Main", "lock")
      PROVE  stack[t] \in {Frozen2, Frozen3}
  <2>1. In(stack[t], "Main")
    BY <1>1 DEF IInv, Mutexes, Logger
  <2>2. stack[t] \in Shape /\ stack[t] # <<>> /\ Head(stack[t]) = [logger |-> "Main", at |-> "lock"]
    BY <1>1 DEF At, IInv, Nested
  <2>3. stack[t] # Single("Main", "lock") /\ stack[t] # Above("lock")
    BY <2>1, InHook DEF Logger, Place
  <2>4. "Main" \in Logger /\ "lock" \in Place
    BY DEF Logger, Place
  <2> QED BY <2>2, <2>3, <2>4, Shapes
<1>2. ASSUME NEW t \in Thread, stack[t] \in {Frozen2, Frozen3}
      PROVE  mu["Main"] = t /\ At(t, "Main", "lock")
  <2>1. In(stack[t], "Main")
    BY <1>2, InHook DEF Logger
  <2>2. mu["Main"] = t
    BY <2>1 DEF IInv, Mutexes, Logger
  <2>3. At(t, "Main", "lock")
    BY <1>2, Tops DEF At, F
  <2> QED BY <2>2, <2>3
<1> QED BY <1>1, <1>2 DEF Frozen, Froze

(* Every goroutine that is in an entry of Main has it on top.              *)
LEMMA MainOnTop ==
  ASSUME IInv, NEW t \in Thread, InMain(t)
  PROVE  \/ \E p \in Place : stack[t] = Single("Main", p) \/ stack[t] = Above(p)
         \/ stack[t] \in {Frozen2, Frozen3}
<1>1. stack[t] \in Shape
  BY DEF IInv, Nested
<1>2. stack[t] # <<>>
  BY DEF InMain
<1>3. ASSUME NEW p \in Place, stack[t] = Single("Lines", p) PROVE FALSE
  BY <1>3 DEF InMain, Single, F
<1> QED BY <1>1, <1>2, <1>3 DEF Shape, Logger

(* Those entries are entries of Main.                                      *)
LEMMA TopIsMain ==
  ASSUME NEW t \in Thread, \/ \E p \in Place : stack[t] = Single("Main", p) \/ stack[t] = Above(p)
                          \/ stack[t] \in {Frozen2, Frozen3}
  PROVE  InMain(t)
<1>1. CASE \E p \in Place : stack[t] = Single("Main", p) \/ stack[t] = Above(p)
  <2>1. PICK p \in Place : stack[t] = Single("Main", p) \/ stack[t] = Above(p)
    BY <1>1
  <2>2. CASE stack[t] = Single("Main", p)
    <3>1. 1 \in DOMAIN stack[t] /\ stack[t][1] = F("Main", p)
      BY <2>2 DEF Single
    <3> QED BY <3>1 DEF InMain, F
  <2>3. CASE stack[t] = Above(p)
    <3>1. 1 \in DOMAIN stack[t] /\ stack[t][1] = F("Main", p)
      BY <2>3 DEF Above
    <3> QED BY <3>1 DEF InMain, F
  <2> QED BY <2>1, <2>2, <2>3
<1>2. CASE stack[t] = Frozen2
  <2>1. 1 \in DOMAIN stack[t] /\ stack[t][1] = F("Main", "lock")
    BY <1>2 DEF Frozen2
  <2> QED BY <2>1 DEF InMain, F
<1>3. CASE stack[t] = Frozen3
  <2>1. 1 \in DOMAIN stack[t] /\ stack[t][1] = F("Main", "lock")
    BY <1>3 DEF Frozen3
  <2> QED BY <2>1 DEF InMain, F
<1> QED BY <1>1, <1>2, <1>3

(* Once frozen, the coordinator stays so, and nobody who logs on Main gets *)
(* out (log.go:71).                                                        *)
THEOREM FreezeIsFinal == Spec => FrozenForGood
<1>1. ASSUME IInv, IInv', [Next]_vars, Frozen
      PROVE  Frozen' /\ \A t \in Thread : InMain(t) => InMain(t)'
  <2> USE <1>1
  <2>1. PICK z \in Thread : stack[z] \in {Frozen2, Frozen3}
    BY FrozenIsFroze DEF Froze
  <2>2. In(stack[z], "Main") /\ mu["Main"] = z
    BY <2>1, InHook DEF IInv, Mutexes, Logger
  <2>3. ASSUME NEW t \in Thread, InMain(t) PROVE stack'[t] = stack[t]
    <3>1. PICK q \in Place : stack[t] # <<>> /\ Head(stack[t]) = F("Main", q)
                             /\ (q \in {"check", "write"} => t = z)
      <4>1. CASE stack[t] \in {Frozen2, Frozen3}
        BY <4>1, Tops DEF Place
      <4>2. ASSUME NEW p \in Place, stack[t] = Single("Main", p) \/ stack[t] = Above(p)
            PROVE  /\ stack[t] # <<>> /\ Head(stack[t]) = F("Main", p)
                   /\ (p \in {"check", "write"} => t = z)
        <5>1. p \in {"check", "write"} => In(stack[t], "Main")
          BY <4>2, InHook DEF Logger
        <5>2. p \in {"check", "write"} => t = z
          BY <2>2, <5>1 DEF IInv, Mutexes, Logger
        <5> QED BY <4>2, <5>2, Tops
      <4> QED BY <2>3, <4>1, <4>2, MainOnTop
    <3>2. q \in {"lock", "out"}
      BY <2>1, <3>1, Tops, Frames DEF Place
    <3>3. ~Step(t)
      <4>1. \A l \in Logger : \A p : At(t, l, p) => l = "Main" /\ p = q
        BY <3>1, Frames DEF At, F
      <4>2. mu["Main"] # Free
        BY <2>2, LogHupAssumption
      <4> QED BY <3>2, <4>1, <4>2 DEF Step, Lock, FireFailed, FirePlain, FireHup, Write, Out
    <3>4. ASSUME NEW x \in Thread, Step(x) PROVE stack'[t] = stack[t]
      <4>1. x # t
        BY <3>3, <3>4
      <4>2. \E v : stack' = [stack EXCEPT ![x] = v]
        BY <3>4 DEF Step, Lock, FireFailed, FirePlain, FireHup, Write, Out
      <4> QED BY <4>1, <4>2 DEF IInv, Simple
    <3>5. ASSUME NEW x \in Thread, NEW l \in Logger, Log(x, l) PROVE stack'[t] = stack[t]
      BY <3>1, <3>5 DEF Log, IInv, Simple
    <3>6. ReceiveSignal => stack'[t] = stack[t]
      BY <3>1 DEF ReceiveSignal, IInv, Simple, Waiting
    <3>7. Signal \/ SetFlags \/ UNCHANGED vars => stack'[t] = stack[t]
      BY DEF Signal, SetFlags, vars
    <3> QED BY <3>4, <3>5, <3>6, <3>7 DEF Next
  <2>4. InMain(z)
    BY <2>1, TopIsMain
  <2>5. Froze'
    BY <2>1, <2>3, <2>4 DEF Froze
  <2>6. Frozen'
    <3>1. Frozen' <=> Froze'
      BY FrozenIsFroze, PTL
    <3> QED BY <2>5, <3>1
  <2>7. \A t \in Thread : InMain(t) => InMain(t)'
    BY <2>3 DEF InMain
  <2> QED BY <2>6, <2>7
<1>2. IInv /\ IInv' /\ [Next]_vars
        => [Frozen => Frozen' /\ \A t \in Thread : InMain(t) => InMain(t)']_vars
  BY <1>1
<1> QED BY <1>2, Invariance, PTL DEF Spec, FrozenForGood
=============================================================================
