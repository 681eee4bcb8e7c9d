\* A full channel.
SPECIFICATION Spec
CONSTANTS
    a = a
    b = b
    long = long
    Bad = Bad
    NoHeader = NoHeader
    Target <- Targets
    Tables <- OneTable
    Stored <- StoredMap
    MaxNames = 2
    Capacity = 2
    QueueCap = 1
    MaxTime = 2
    MaxFaults = 0
    MaxStarts = 2
    PowerLoss = FALSE
    WriteErrors = FALSE
PROPERTY DropsOldest
CHECK_DEADLOCK FALSE
