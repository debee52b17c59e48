CONSTANTS
    Procs = {p1, p2}
    Ttl = 3
    Local = 2
    Untouched = 1
    MaxTime = 3
    MaxTroubles = 1
    MaxFrames = 1
    Nil = Nil
SPECIFICATION Spec
CHECK_DEADLOCK FALSE
INVARIANTS LeaseIsExclusive
PROPERTIES TakeoverFences ValidateIsExclusive
