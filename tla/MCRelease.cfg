SPECIFICATION Spec
CONSTANTS
    d1 = d1
    d2 = d2
    Dev = {d1, d2}
    Timed = {d1}
    AdminToken = TRUE
    MaxInputs = 3
    Nil = Nil
    NoDev = NoDev
INVARIANTS
    ReservedIsOurs
PROPERTIES
    StuckForGood
    RestartsAreAnswered
CHECK_DEADLOCK FALSE
