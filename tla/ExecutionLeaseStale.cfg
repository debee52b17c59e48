CONSTANTS
    Procs = {p1, p2}
    Ttl = 3
    Local = 2
    Untouched = 1
    MaxTime = 4
    MaxTroubles = 0
    MaxFrames = 0
    Nil = Nil
SPECIFICATION Spec
CHECK_DEADLOCK FALSE
INVARIANT StaleSocketsStopFirst
