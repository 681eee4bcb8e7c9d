\* One client, slow, stalled or gone at any moment.
SPECIFICATION FairSpec
CONSTANTS
    Client = {c1}
    ChanCap = 2
    MaxVersion = 4
INVARIANTS NeverSendsOnClosed IdleIsCurrent QueueRunsForward
PROPERTIES CatchesUp LeaverIsRemoved
CHECK_DEADLOCK FALSE
