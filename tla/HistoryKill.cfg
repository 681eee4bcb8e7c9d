\* Kills, Close timeouts and failed writes; two tables of one target each.
SPECIFICATION Spec
CONSTANTS
    a = a
    b = b
    long = long
    Bad = Bad
    NoHeader = NoHeader
    Target <- Targets
    Tables <- Singles
    Stored <- StoredMap
    MaxNames = 2
    Capacity = 2
    QueueCap = 1
    MaxTime = 3
    MaxFaults = 2
    MaxStarts = 3
    PowerLoss = FALSE
    WriteErrors = TRUE
INVARIANTS RingShape RightTarget KillLosesOnlyUnflushed
PROPERTIES SameTableKeepsRing ImplementsLog
CHECK_DEADLOCK FALSE
