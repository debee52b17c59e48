CONSTANTS
    Workers = {w1, w2}
    Scanners = {}
    Procs = {p1}
    p1 = p1
    p2 = p2
    ProcOf <- OneProc
    Stamps = {1, 2, 3}
    Kinds = {"property"}
    Jobs = {"message"}
    Tolerance = 0
    MaxTime = 0
    MaxStateJobs = 3
    NoState = NoState
SPECIFICATION StateSafety
CHECK_DEADLOCK FALSE
PROPERTY LateDoesNotRollBack
