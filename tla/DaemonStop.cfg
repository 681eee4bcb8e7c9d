\* Two signals and two quit requests; the gateway and the disk answer, or hang.
SPECIFICATION FairSpec
CONSTANTS
    MaxValue = 2
    MaxQuits = 2
    MaxSignals = 2
INVARIANT ExitsComplete
PROPERTY StopEnds
CHECK_DEADLOCK FALSE
