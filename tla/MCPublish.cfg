SPECIFICATION Spec
CONSTANTS
    u1 = u1
    Phone = {u1}
    MaxObjects = 2
    MaxQueue = 1
    Ivp = TRUE
INVARIANTS
    ViewMatches
PROPERTIES
    OrphansBeatForGood
    StuckForGood
    GoneComesBack
    
\* a program that has panicked does nothing
CHECK_DEADLOCK FALSE
