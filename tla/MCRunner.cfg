SPECIFICATION RunnerSpec
CONSTANTS
    w1 = w1
    w2 = w2
    sig = sig
    Web = {w1, w2}
    Sig = sig
PROPERTIES
    StopObeyed
    RequestsServed
\* a runner that has exited does nothing
CHECK_DEADLOCK FALSE
