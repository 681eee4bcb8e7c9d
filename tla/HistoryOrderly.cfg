\* No faults: orderly stops and restarts, three targets of which the table holds two.
SPECIFICATION FairSpec
CONSTANTS
    a = a
    b = b
    long = long
    Bad = Bad
    NoHeader = NoHeader
    Target <- Three
    Tables <- CutTables
    Stored <- StoredMap
    MaxNames = 2
    Capacity = 2
    QueueCap = 1
    MaxTime = 2
    MaxFaults = 0
    MaxStarts = 3
    PowerLoss = FALSE
    WriteErrors = FALSE
INVARIANT ReplayInOrder
PROPERTIES CancelledRunCloses AcceptedIsReceived
CHECK_DEADLOCK FALSE
