-------------------------------- MODULE LogHup --------------------------------
(***************************************************************************)
(* The two log files of the coordinator and their reopening on SIGHUP      *)
(* (src/coordinator/log.go).  A hook on each logger writes the file.       *)
(* logrus 1.4, an external library, calls a hook with the mutex of its     *)
(* logger held, and takes the mutex once more to print the entry.  A hook  *)
(* that reopens its file logs that fact on the Main logger, from within.   *)
(***************************************************************************)
EXTENDS Naturals, Sequences

CONSTANTS Thread,      \* the goroutines that log
          Hup,         \* the goroutine of coro_sighup
          MaxSignals   \* a bound on the SIGHUPs that are sent


(* The logger of logrus itself (hook id 1) and that of the lines that the  *)
(* processes print (hook id 2).                                            *)
Logger == {"Main", "Lines"}

Free == "free"

ASSUME LogHupAssumption ==
    Hup \in Thread /\ Free \notin Thread /\ MaxSignals \in Nat

VARIABLES stack,    \* the entries each goroutine is logging, innermost first
          mu,       \* the holder of each logger's mutex
          hup,      \* hupA and hupB
          file,     \* hook.file
          failed,   \* hook.failed
          hpc,      \* where coro_sighup is
          signals,  \* the signals in its channel
          sent,     \* the signals sent
          seen,     \* the flags have been set once
          late      \* the entries written to each file since then, at most 2

vars == <<stack, mu, hup, file, failed, hpc, signals, sent, seen, late>>

(* "lock": waits for the mutex; "check" and "write": in Fire, which holds  *)
(* it; "out": waits for the mutex again, to print the entry.               *)
Frame == [logger : Logger, at : {"lock", "check", "write", "out"}]

At(t, l, place) == stack[t] # <<>> /\ Head(stack[t]) = [logger |-> l, at |-> place]
Goto(t, l, place) == <<[logger |-> l, at |-> place]>> \o Tail(stack[t])

(* AddJSONLog for both files: opening one may fail. *)
Init == /\ stack = [t \in Thread |-> <<>>]
        /\ mu = [l \in Logger |-> Free]
        /\ hup = [l \in Logger |-> FALSE]
        /\ file \in [Logger -> {"old", "none"}]
        /\ failed = [l \in Logger |-> FALSE]
        /\ hpc = "receive"
        /\ signals = 0
        /\ sent = 0
        /\ seen = FALSE
        /\ late = [l \in Logger |-> 0]
-----------------------------------------------------------------------------
(* log.WithFields( ... ).Info( ... ) or the like *)
Log(t, l) ==
    /\ t # Hup
    /\ stack[t] = <<>>
    /\ stack' = [stack EXCEPT ![t] = <<[logger |-> l, at |-> "lock"]>>]
    /\ UNCHANGED <<mu, hup, file, failed, hpc, signals, sent, seen, late>>

(* entry.fireHooks() *)
Lock(t, l) ==
    /\ At(t, l, "lock")
    /\ mu[l] = Free
    /\ mu' = [mu EXCEPT ![l] = t]
    /\ stack' = [stack EXCEPT ![t] = Goto(t, l, "check")]
    /\ UNCHANGED <<hup, file, failed, hpc, signals, sent, seen, late>>

(* Fire of a hook that could not write once: nothing. *)
FireFailed(t, l) ==
    /\ At(t, l, "check")
    /\ failed[l]
    /\ mu' = [mu EXCEPT ![l] = Free]
    /\ stack' = [stack EXCEPT ![t] = Goto(t, l, "out")]
    /\ UNCHANGED <<hup, file, failed, hpc, signals, sent, seen, late>>

(* Fire with no HUP to serve *)
FirePlain(t, l) ==
    /\ At(t, l, "check")
    /\ ~failed[l]
    /\ ~hup[l]
    /\ stack' = [stack EXCEPT ![t] = Goto(t, l, "write")]
    /\ UNCHANGED <<mu, hup, file, failed, hpc, signals, sent, seen, late>>

(* Fire with a HUP to serve: the flag is reset, the file closed and opened *)
(* again, and an entry logged on Main before this one is written.          *)
FireHup(t, l) ==
    /\ At(t, l, "check")
    /\ ~failed[l]
    /\ hup[l]
    /\ hup' = [hup EXCEPT ![l] = FALSE]
    /\ \E f \in {"new", "none"} : file' = [file EXCEPT ![l] = f]
    /\ stack' = [stack EXCEPT ![t] =
                   <<[logger |-> "Main", at |-> "lock"]>> \o Goto(t, l, "write")]
    /\ UNCHANGED <<mu, failed, hpc, signals, sent, seen, late>>

(* Another entry in the file of l since the first HUP was noted *)
Written(l) == IF seen /\ late[l] < 2 THEN [late EXCEPT ![l] = @ + 1] ELSE late

(* The bug of a write that fails and leaves the mutex locked. *)
Write_KeepsLock(t, l) ==
    /\ At(t, l, "write")
    /\ \/ file[l] # "none" /\ UNCHANGED failed /\ late' = Written(l)
          /\ mu' = [mu EXCEPT ![l] = Free]
       \/ failed' = [failed EXCEPT ![l] = TRUE] /\ UNCHANGED <<late, mu>>
    /\ stack' = [stack EXCEPT ![t] = Goto(t, l, "out")]
    /\ UNCHANGED <<hup, file, hpc, signals, sent, seen>>

(* The rest of Fire: the write fails if the file is nil, and may fail in   *)
(* any case.                                                               *)
Write(t, l) ==
    /\ At(t, l, "write")
    /\ \/ file[l] # "none" /\ UNCHANGED failed /\ late' = Written(l)
       \/ failed' = [failed EXCEPT ![l] = TRUE] /\ UNCHANGED late
    /\ mu' = [mu EXCEPT ![l] = Free]
    /\ stack' = [stack EXCEPT ![t] = Goto(t, l, "out")]
    /\ UNCHANGED <<hup, file, hpc, signals, sent, seen>>

(* The bug of an entry printed without the mutex. *)
Out_NoLock(t, l) ==
    /\ At(t, l, "out")
    /\ stack' = [stack EXCEPT ![t] = Tail(@)]
    /\ UNCHANGED <<mu, hup, file, failed, hpc, signals, sent, seen, late>>

(* entry.write() *)
Out(t, l) ==
    /\ At(t, l, "out")
    /\ mu[l] = Free
    /\ stack' = [stack EXCEPT ![t] = Tail(@)]
    /\ UNCHANGED <<mu, hup, file, failed, hpc, signals, sent, seen, late>>
-----------------------------------------------------------------------------
(* A SIGHUP: the channel has room for two, a third is dropped. *)
Signal ==
    /\ sent < MaxSignals
    /\ sent' = sent + 1
    /\ signals' = IF signals < 2 THEN signals + 1 ELSE signals
    /\ UNCHANGED <<stack, mu, hup, file, failed, hpc, seen, late>>

(* <- c, and the entry that says so *)
ReceiveSignal ==
    /\ hpc = "receive"
    /\ signals > 0
    /\ signals' = signals - 1
    /\ hpc' = "set"
    /\ stack' = [stack EXCEPT ![Hup] = <<[logger |-> "Main", at |-> "lock"]>>]
    /\ UNCHANGED <<mu, hup, file, failed, sent, seen, late>>

(* The bug of a flag that is forgotten. *)
SetFlags_OnlyLines ==
    /\ hpc = "set"
    /\ stack[Hup] = <<>>
    /\ hup' = [hup EXCEPT !["Lines"] = TRUE]
    /\ seen' = TRUE
    /\ hpc' = "receive"
    /\ UNCHANGED <<stack, mu, file, failed, signals, sent, late>>

SetFlags ==
    /\ hpc = "set"
    /\ stack[Hup] = <<>>
    /\ hup' = [l \in Logger |-> TRUE]
    /\ seen' = TRUE
    /\ hpc' = "receive"
    /\ UNCHANGED <<stack, mu, file, failed, signals, sent, late>>
-----------------------------------------------------------------------------
(* What a goroutine does once it has begun to log. *)
Step(t) == \E l \in Logger : \/ Lock(t, l) \/ FireFailed(t, l) \/ FirePlain(t, l)
                             \/ FireHup(t, l) \/ Write(t, l) \/ Out(t, l)

Next == \/ \E t \in Thread : Step(t)
        \/ \E t \in Thread, l \in Logger : Log(t, l)
        \/ Signal
        \/ ReceiveSignal
        \/ SetFlags

(* A goroutine that can run runs, and a mutex of Go is handed over to the  *)
(* one that has waited longest.  Nothing makes the program log.            *)
Spec == /\ Init /\ [][Next]_vars
        /\ \A t \in Thread : SF_vars(Step(t))
        /\ WF_vars(ReceiveSignal)
        /\ WF_vars(SetFlags)
-----------------------------------------------------------------------------
(* Every variable has its type, and the hooks nest three deep at most.     *)
TypeOK == /\ stack \in [Thread -> Seq(Frame)]
          /\ \A t \in Thread : Len(stack[t]) <= 3
          /\ mu \in [Logger -> Thread \cup {Free}]
          /\ hup \in [Logger -> BOOLEAN]
          /\ file \in [Logger -> {"old", "new", "none"}]
          /\ failed \in [Logger -> BOOLEAN]
          /\ hpc \in {"receive", "set"}
          /\ signals \in 0..2
          /\ sent \in 0..MaxSignals
          /\ seen \in BOOLEAN
          /\ late \in [Logger -> 0..2]

(* The hook of Main logs on Main: its goroutine waits for a mutex it holds.*)
Frozen == \E t \in Thread : mu["Main"] = t /\ At(t, "Main", "lock")

(* Once a HUP was noted, at most the entry that was being written still    *)
(* reaches the main log, and the same holds for the lines of the processes *)
(* unless the main log had failed before: whoever reopens a file freezes   *)
(* (log.go:71, from within Fire).                                          *)
SilentAfterHup == /\ late["Main"] <= 1
                  /\ failed["Main"] \/ late["Lines"] <= 1

(* A goroutine is in the middle of an entry of Main. *)
InMain(t) == \E i \in DOMAIN stack[t] : stack[t][i].logger = "Main"

(* Once frozen, the coordinator stays so: no goroutine that is logging on  *)
(* Main, or begins to, ever gets out (log.go:71).                          *)
FrozenForGood ==
    [][Frozen => Frozen' /\ \A t \in Thread : InMain(t) => InMain(t)']_vars

(* Nothing else can hold up an entry: a goroutine that logs comes back     *)
(* from it, whatever fails, unless the hook of Main has frozen (log.go:41, *)
(* with the mutexes of both loggers and hupData).                          *)
EntriesEnd ==
    \A t \in Thread : stack[t] # <<>> ~> (stack[t] = <<>> \/ Frozen)
=============================================================================
