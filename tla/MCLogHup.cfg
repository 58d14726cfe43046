SPECIFICATION Spec
CONSTANTS
    a = a
    b = b
    h = h
    Thread = {a, b, h}
    Hup = h
    MaxSignals = 3
INVARIANTS
    SilentAfterHup
PROPERTIES
    FrozenForGood
    EntriesEnd
CHECK_DEADLOCK FALSE
