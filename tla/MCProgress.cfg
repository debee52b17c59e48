CONSTANTS
    p1 = p1
    p2 = p2
    AlarmIds = {a1, a2}
    Sources = {Video, Fire}
    Video = Video
    Fire = Fire
    Triggers = {e1, e2}
    VideoEvents = {e1, e2}
    External = {e1}
    VideoCalls = {c1}
    MediaJobs = {j1, retry}
    RetryLoop = retry
    MaxVideoCrashes = 1
    Nil = Nil
    Raws = {w1, w2, w3}
    Pinned = {w1}
    PageSize = 2
    RNone = RNone
    Sessions = {s1}
    LDevices = {d1}
    Commands = {q1}
    MaxSessions = 1
    LNil = LNil
    MaxKeys = 2
    Revokers = {k1, loop}
    RevokeLoop = loop
    Profiles = {f1}
    Probes = {t1}
    EndpointOf <- MCEndpointOf
    MaxReads = 2
    Tries = 2
    NBlocks = 2
    MaxEdits = 1
    Nobody = Nobody
    Alarms = {b1}
    Tenants = {n1}
    JobWorkers = {g1, g2}
    MaxJobs = 2
    JNone = JNone
    Workers = {u1, u2}
    Scanners = {x1}
    Procs = {p1, p2}
    ProcOf <- MCProcOf
    Stamps = {1, 2}
    Kinds = {"alarm"}
    Jobs = {"message", "session", "external", "operator"}
    Tolerance = 0
    MaxTime = 3
    MaxStateJobs = 2
    NoState = NoState
    Topics = {c1}
    Msgs = {m1}
    MaxAttempts = 2
    MaxLog = 2
    MaxCrashes = 2
SPECIFICATION Spec
CHECK_DEADLOCK FALSE
INVARIANTS WorkIsSound CommittedIsSettled
PROPERTIES MediaIsStored ReplayEnds RequestsTakeEffect CollectionIsSound JobsEnd
    QuietIsDetected PublishedIsSettled
