\* Losses of power with page write-back in any order.
SPECIFICATION Spec
CONSTANTS
    a = a
    b = b
    long = long
    Bad = Bad
    NoHeader = NoHeader
    Target <- Targets
    Tables <- AllTables
    Stored <- StoredMap
    MaxNames = 2
    Capacity = 2
    QueueCap = 1
    MaxTime = 2
    MaxFaults = 1
    MaxStarts = 2
    PowerLoss = TRUE
    WriteErrors = FALSE
INVARIANT StopIsDurable
CHECK_DEADLOCK FALSE
