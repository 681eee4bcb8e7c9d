\* A host with two addresses.
SPECIFICATION Spec
CONSTANTS
    w1 = w1
    w2 = w2
    a = a
    b = b
    ip1 = ip1
    ip2 = ip2
    Worker <- One
    Name <- A
    NameOf <- OneA
    First <- FirstA
    Addr <- Ip12
    Rtt = {1}
    Window = 2
    RingCap = 3
    LogCap = 2
    Interval = 1
    Timeout = 1
    ResolveFails = {}
    OpenFails = {}
    Drops = {}
    Kills = FALSE
    Prompt = TRUE
INVARIANT ShownIsProbed
CHECK_DEADLOCK FALSE
