\* The first hop moves from one router to another.
SPECIFICATION Spec
CONSTANTS
    w1 = w1
    w2 = w2
    d1 = d1
    d2 = d2
    r1 = r1
    r2 = r2
    n1 = n1
    n2 = n2
    t1 = t1
    HopAddr <- Hops
    HostName <- Names
    Ptr <- Ptrs
    Worker <- One
    Display <- Shown
    DisplayOf <- OneName1
    DstOf <- Dst1
    Path <- Moving
    MaxHops = 2
    Queries = 1
    Rtt = {1}
    Lossy = TRUE
    MeanErr = 1
    VarErr = 1
    MaxCycles = 3
INVARIANT NameFitsAddress
CHECK_DEADLOCK FALSE
