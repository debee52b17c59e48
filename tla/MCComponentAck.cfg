CONSTANTS
    Keys = {1}
    Msgs = {m1, m2, m3}
    Stamps = {1, 2}
    AlarmIds = {a1, a2}
    Handlers = {h1, h2}
    Operators = {o1}
    MaxTroubles = 0
    Nil = Nil
SPECIFICATION Spec
SYMMETRY Sym
CHECK_DEADLOCK FALSE
PROPERTY OnlyActiveIsAcknowledged
