\* Two targets with names of their own; lookups of the second fail, sockets of it do not
\* open and the history drops samples of it; workers that keep up with their tickers.
SPECIFICATION FairSpec
CONSTANTS
    w1 = w1
    w2 = w2
    a = a
    b = b
    ip1 = ip1
    ip2 = ip2
    Worker <- Two
    Name <- AB
    NameOf <- TwoAB
    First <- FirstAB
    Addr <- Ip1
    Rtt = {1}
    Window = 2
    RingCap = 2
    LogCap = 2
    Interval = 1
    Timeout = 1
    ResolveFails = {w2}
    OpenFails = {w2}
    Drops = {w2}
    Kills = FALSE
    Prompt = TRUE
INVARIANT SinkFollowsStore
PROPERTIES GoesDownByLoss SilentIsDown
CHECK_DEADLOCK FALSE
