CONSTANTS
    Ids = {i1}
    Bodies = {b1, b2}
    Metas = {v1, v2}
    Callers = {c1, c2}
    Retriers = {r1}
    MaxTroubles = 2
    Nil = Nil
SPECIFICATION Spec
CHECK_DEADLOCK FALSE
INVARIANTS AnswersAreHonest
PROPERTIES RefinesArchive PublicationIsSettled
