\* A kernel whose iowait counter may go down.
SPECIFICATION Spec
CONSTANTS
    None = None
    Iface = {eth}
    MaxTime = 1
    MaxBytes = 1
    MaxCpu = 2
    IowaitFalls = TRUE
INVARIANT LoadIsShare
CHECK_DEADLOCK FALSE
