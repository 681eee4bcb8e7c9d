\* A kill after the ring is full: the order of Replay, and what the next
\* write overwrites (the tool's -continue shows both).
SPECIFICATION Spec
CONSTANTS
    a = a
    b = b
    long = long
    Bad = Bad
    NoHeader = NoHeader
    Target <- Targets
    Tables <- OneTable
    Stored <- StoredMap
    MaxNames = 2
    Capacity = 2
    QueueCap = 1
    MaxTime = 3
    MaxFaults = 1
    MaxStarts = 2
    PowerLoss = FALSE
    WriteErrors = FALSE
INVARIANT ReplayInOrder
PROPERTY OverwritesOldest
CHECK_DEADLOCK FALSE
