\* Two targets with the same name.
SPECIFICATION Spec
CONSTANTS
    w1 = w1
    w2 = w2
    a = a
    b = b
    ip1 = ip1
    ip2 = ip2
    Worker <- Two
    Name <- A
    NameOf <- TwoA
    First <- FirstA
    Addr <- Ip1
    Rtt = {1}
    Window = 2
    RingCap = 3
    LogCap = 2
    Interval = 1
    Timeout = 1
    ResolveFails = {}
    OpenFails = {}
    Drops = {}
    Kills = FALSE
    Prompt = TRUE
INVARIANT SeriesIsOfTarget
CHECK_DEADLOCK FALSE
