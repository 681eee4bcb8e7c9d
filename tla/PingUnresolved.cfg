\* Lookups that fail.
SPECIFICATION Spec
CONSTANTS
    w1 = w1
    w2 = w2
    a = a
    b = b
    ip1 = ip1
    ip2 = ip2
    Worker <- One
    Name <- A
    NameOf <- OneA
    First <- FirstA
    Addr <- Ip1
    Rtt = {1}
    Window = 2
    RingCap = 3
    LogCap = 2
    Interval = 1
    Timeout = 1
    ResolveFails = {w1}
    OpenFails = {}
    Drops = {}
    Kills = FALSE
    Prompt = TRUE
INVARIANT EverySampleIsKept
CHECK_DEADLOCK FALSE
