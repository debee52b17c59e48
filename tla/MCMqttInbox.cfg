CONSTANTS
    Ids = {1, 2, 3}
    Unroutable = {3}
    Data = {d1}
    Times = {0, 1}
    Size <- MCSize
    MaxBytes = 2
    MaxItems = 2
    MaxFaults = 1
    NoFile = NoFile
    Damaged = Damaged
    MaxPublishes = 2
    MaxTroubles = 1
SPECIFICATION InboxSpec
CHECK_DEADLOCK FALSE
INVARIANTS InboxTypeOK AckedIsKept
PROPERTIES AckedIsProcessed BrokerIsRelieved
