SPECIFICATION Spec
CONSTANTS
    Device = {d1, d2, d3}
    PortRange <- MCPortRange
    MaxCreated = 6
INVARIANTS
    DecodePoolDrains
    PanicNeedsOversubscription
PROPERTIES
    ImplementsLease
\* unplugged phones need never come back: the system may rest
CHECK_DEADLOCK FALSE
