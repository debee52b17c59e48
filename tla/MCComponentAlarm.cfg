CONSTANTS
    Keys = {1}
    Msgs = {m1, m2, m3}
    Stamps = {1, 2, 3}
    AlarmIds = {a1, a2}
    Handlers = {h1}
    Operators = {o1, o2}
    MaxTroubles = 1
    Nil = Nil
SPECIFICATION Spec
SYMMETRY Sym
CHECK_DEADLOCK FALSE
INVARIANTS ReportsDecide CurrentTransitionIsAnnounced
PROPERTIES ReplayIsIdempotent
