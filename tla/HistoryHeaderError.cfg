\* A failed header write at a flush tick.
SPECIFICATION Spec
CONSTANTS
    a = a
    b = b
    long = long
    Bad = Bad
    NoHeader = NoHeader
    Target <- Targets
    Tables <- OneTable
    Stored <- StoredMap
    MaxNames = 2
    Capacity = 2
    QueueCap = 1
    MaxTime = 2
    MaxFaults = 1
    MaxStarts = 2
    PowerLoss = FALSE
    WriteErrors = TRUE
INVARIANT UnsavedIsDirty
CHECK_DEADLOCK FALSE
