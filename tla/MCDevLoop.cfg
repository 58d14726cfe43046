SPECIFICATION Spec
CONSTANTS
    d1 = d1
    Device = {d1}
    NeedsVideo = TRUE
    Ivp = TRUE
    MaxObj = 2
    MaxQ = 2
INVARIANTS
    TypeOK
    PeriodicEndsFirst
    OneLiveProxy
    ViewSettles
PROPERTIES
    DeadlockIsForever
    ProxiesAreSupervised
    
\* the loop may deadlock, and a coordinator that has panicked does nothing
CHECK_DEADLOCK FALSE
