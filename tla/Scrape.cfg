\* Delays between all steps, orderly restarts, lookups that fail, and scrapes.
SPECIFICATION ScrapeSpec
CONSTANTS
    w1 = w1
    a = a
    ip1 = ip1
    None = None
    Worker <- One
    Name <- A
    NameOf <- OneA
    First <- FirstA
    Addr <- Ip1
    Rtt = {1, 2}
    Window = 1
    RingCap = 3
    LogCap = 1
    Interval = 1
    Timeout = 1
    ResolveFails = {w1}
    OpenFails = {w1}
    Drops = {}
    Kills = FALSE
    Prompt = FALSE
    MaxSent = 3
INVARIANTS ScrapeTypeOK RollupIsWindow RollupInOrder SessionAddsUp PageHoldsTogether ScoreFalls
PROPERTY CountersRunForward
CHECK_DEADLOCK FALSE
