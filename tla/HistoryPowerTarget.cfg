\* A loss of power after a change of the name table.
SPECIFICATION Spec
CONSTANTS
    a = a
    b = b
    long = long
    Bad = Bad
    NoHeader = NoHeader
    Target <- Targets
    Tables <- AllTables
    Stored <- StoredMap
    MaxNames = 2
    Capacity = 2
    QueueCap = 1
    MaxTime = 2
    MaxFaults = 1
    MaxStarts = 3
    PowerLoss = TRUE
    WriteErrors = FALSE
INVARIANT RightTarget
CHECK_DEADLOCK FALSE
