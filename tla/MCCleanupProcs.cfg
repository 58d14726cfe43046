SPECIFICATION CleanupSpec
CONSTANTS
    p1 = p1
    p2 = p2
    p3 = p3
    p4 = p4
    Pid = {p1, p2, p3, p4}
    Kind <- MCKind
    Immortal = {p2}
INVARIANTS
    NoneLeft
    OthersSurvive
PROPERTY
    EndsWhenGone
\* the processes need not do anything once cleanup_procs has returned
CHECK_DEADLOCK FALSE
