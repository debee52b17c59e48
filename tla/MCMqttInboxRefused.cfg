CONSTANTS
    Ids = {1, 2}
    Unroutable = {}
    Data = {d1}
    Times = {0, 1}
    Size <- MCSize
    MaxBytes = 2
    MaxItems = 2
    MaxFaults = 0
    NoFile = NoFile
    Damaged = Damaged
    MaxPublishes = 2
    MaxTroubles = 0
SPECIFICATION InboxSpec
CHECK_DEADLOCK FALSE
PROPERTY RefusedIsRequestedAgain
