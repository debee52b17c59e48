CONSTANTS
    Ids = {1, 2, 3, 4}
    Data = {d1, d2}
    Times = {0, 1}
    Size <- MCSize
    MaxBytes = 6
    MaxItems = 2
    MaxFaults = 2
    NoFile = NoFile
    Damaged = Damaged
SPECIFICATION Spec
CHECK_DEADLOCK FALSE
INVARIANTS DirectoryIsSound AcceptedSurvives
PROPERTIES CapacityRespected
