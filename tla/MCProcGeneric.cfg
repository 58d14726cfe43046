SPECIFICATION ProcSpec
CONSTANTS
    c1 = c1
    c2 = c2
    Caller = {c1, c2}
    noRestart = FALSE
    noWait = FALSE
INVARIANTS
    WdaOnlyDuringRun
PROPERTIES
    RequestsTaken
    KillTakesEffect
    RestartRuns
    ImplementsSupervisor
\* a supervisor that has returned, with every caller waiting, is at rest
CHECK_DEADLOCK FALSE
