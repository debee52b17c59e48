CONSTANTS
    d1 = d1
    d2 = d2
    r1 = r1
    s2 = s2
    q2 = q2
    u2 = u2
    y3 = y3
    Sessions = {s1, s2}
    LDevices = {d1}
    Commands = {q1, q2}
    MaxSessions = 2
    LNil = LNil
    MaxKeys = 2
    Revokers = {k1, loop}
    RevokeLoop = loop
    CommandIds = {c1, c2}
    Bodies = {b1, b2}
    SendCalls = {h1, h2}
    CNil = CNil
    Uploads = {u1, u2}
    Contents = {x1, x2}
    Reviewers = {n1, n2}
    Reviewing = {w1, w2}
    PNil = PNil
    Rels = {r1, r2}
    ListenerRels = {r1, r2}
    StdRel = StdRel
    ODevices = {d1, d2}
    ManualIds = {m1}
    Ports = {4000}
    Wizard <- MCWizard
    OCalls = {c1, c2}
    BCalls = {b1}
    ACalls = {a1}
    ANil = ANil
    Tables <- MCTables
    MaxClock = 3
    MaxBackups = 2
    MaxStops = 1
    BNone = BNone
    Garbage = Garbage
    Settings = {g1, g2}
    EnvSetting = g0
    MaxUpdates = 2
    MaxRestarts = 1
    Runs = {r1}
    MaxDeltas = 1
    Links = {l1, udp}
    UdpLink = udp
    Syncs = {y1, y2, y3}
    SeqMax = 2
    MaxFrames = 2
    GNone = GNone
    GbSamples <- MCGbSamples
    GbPrefixes <- MCGbPrefixes
    PointShapes <- MCPointShapes
    Memories <- MCMemories
    HexSamples <- MCHexSamples
    DamageValues = {0, 35, 64, 255}
    Mains = {m1, m2}
    KidMain = m1
    Kid = k
    KidProducts = {p1, p2}
    MainProduct = mp
    MaxProfiles = 2
    DNone = DNone
    Nodes = {n1, n2}
    Gateway = n1
    MaxHops = 2
    FirstHops <- MCFirstHops
    MaxMoves = 4
    NoNode = NoNode
    WCalls = {w1}
    OutLimit = 1
    MaxOut = 2
    Builds = {b1, b2}
    Targets = {t1, t2}
    MaxDeaths = 1
    StdDevices = {d1, d2, d3}
    Window = 2
    PerWindow = 2
    MaxRates = 2
    IdleAfter = 2
    MaxTime = 5
    TableRows <- MCTableRows
    MaxRows = 3
    RegisterLimit = 4
    BitLimit = 2
    StdMsgs = {1, 2}
    MaxDeliveries = 3
    Handlers = {h1, h2}
SPECIFICATION Spec
CHECK_DEADLOCK FALSE
INVARIANTS SessionsAreSound DevicesAreControlled ReleaseIsSound BackupIsSound AiIsSound
    GatewayIsSound FieldDataIsRight LimitsHold TelemetryIsKept AccessIsSound
PROPERTIES RegistrationsFit
