SPECIFICATION Spec
CONSTANTS
    d1 = d1
    base = base
    provider = provider
    wda = wda
    unit = unit
    vnc1 = vnc1
    vnc2 = vnc2
    Nil = Nil
    Dev = {d1}
    Base = base
    Proc = {provider, wda, unit, vnc1, vnc2}
    Of <- MCOf
    Provider = provider
    Known = {provider, wda, unit}
    Posts = {wda}
    Restarts = {unit}
    MaxMade = 2
    Former <- MCFormer
INVARIANTS
    ExitLeavesOnly
PROPERTIES
    KillsAreAnswered
    StuckForGood
    
\* a coordinator that has exited, or hangs, does nothing
CHECK_DEADLOCK FALSE
