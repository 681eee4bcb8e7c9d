\* A lookup that fails once.
SPECIFICATION FairDnsSpec
CONSTANTS
    h1 = h1
    h2 = h2
    h3 = h3
    h4 = h4
    n1 = n1
    n2 = n2
    HopAddr <- Hops
    HostName <- Names
    Ptr <- Ptrs
PROPERTY NameIsLearned
