\* One interface that flaps, goes and comes back; an iowait counter that may go down.
SPECIFICATION Spec
CONSTANTS
    None = None
    Iface = {eth}
    MaxTime = 3
    MaxBytes = 2
    MaxCpu = 2
    IowaitFalls = TRUE
INVARIANTS RateIsReal LoadRecovers
PROPERTY LinkHistory
CHECK_DEADLOCK FALSE
