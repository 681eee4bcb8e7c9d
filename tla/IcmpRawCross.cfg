\* Raw sockets: the reply to the echo of another worker.
SPECIFICATION Spec
CONSTANTS
    ping = ping
    trace = trace
    d1 = d1
    d2 = d2
    r = r
    Conn <- Conns
    Dst <- Dsts
    DstOf <- Dests
    Router = r
    Raw = TRUE
    SeqMod = 2
    MaxProbes = 2
    MaxInbox = 2
    MaxAnswers = 1
    ErrorKind = {"time-exceeded"}
INVARIANT ReplyIsOwn
CHECK_DEADLOCK FALSE
