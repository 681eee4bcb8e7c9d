\* A target name of more than 64 bytes.
SPECIFICATION Spec
CONSTANTS
    a = a
    b = b
    long = long
    Bad = Bad
    NoHeader = NoHeader
    Target <- JustLong
    Tables <- LongTables
    Stored <- StoredMap
    MaxNames = 2
    Capacity = 2
    QueueCap = 1
    MaxTime = 2
    MaxFaults = 0
    MaxStarts = 2
    PowerLoss = FALSE
    WriteErrors = FALSE
PROPERTY SameTableKeepsRing
CHECK_DEADLOCK FALSE
