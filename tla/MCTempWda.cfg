SPECIFICATION Spec
CONSTANTS
    user = user
    signal = signal
    User = user
    Signal = signal
INVARIANTS
    TempWdaIsOver
PROPERTIES
    StuckForGood
    TaskEnds
\* a program that has exited, or is stuck, does nothing
CHECK_DEADLOCK FALSE
