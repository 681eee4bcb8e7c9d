\* Two targets shown under one name: a router, and a host behind it or another, which
\* never answers.
SPECIFICATION Spec
CONSTANTS
    w1 = w1
    w2 = w2
    d1 = d1
    d2 = d2
    r1 = r1
    r2 = r2
    n1 = n1
    n2 = n2
    t1 = t1
    HopAddr <- Hops
    HostName <- Names
    Ptr <- Ptrs
    Worker <- Two
    Display <- Shown
    DisplayOf <- OneName
    DstOf <- Dst
    Path <- Gateway
    MaxHops = 2
    Queries = 1
    Rtt = {1, 3}
    Lossy = TRUE
    MeanErr = 1
    VarErr = 1
    MaxCycles = 2
INVARIANTS TypeOK RowsAddUp SentFallsAlongPath LookedUpOnce NameFitsHop
CHECK_DEADLOCK FALSE
