\* The score of a target with no sample in the window.
SPECIFICATION ScrapeSpec
CONSTANTS
    w1 = w1
    a = a
    ip1 = ip1
    None = None
    Worker <- One
    Name <- A
    NameOf <- OneA
    First <- FirstA
    Addr <- Ip1
    Rtt = {1, 2}
    Window = 1
    RingCap = 3
    LogCap = 1
    Interval = 1
    Timeout = 1
    ResolveFails = {w1}
    OpenFails = {}
    Drops = {}
    Kills = FALSE
    Prompt = FALSE
    MaxSent = 3
INVARIANT DownScoresLow
CHECK_DEADLOCK FALSE
