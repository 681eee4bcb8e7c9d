\* Datagram sockets: each is given the answers to its own echoes; more probes than
\* sequence numbers.  An error of a router ends a probe as its deadline does, the
\* worker going on to the next one, and is left to IcmpRawCross.cfg and the proof.
SPECIFICATION Spec
CONSTANTS
    ping = ping
    trace = trace
    d1 = d1
    d2 = d2
    r = r
    Conn <- Conns
    Dst <- Dsts
    DstOf <- Dests
    Router = r
    Raw = FALSE
    SeqMod = 2
    MaxProbes = 3
    MaxInbox = 2
    MaxAnswers = 2
    ErrorKind = {}
INVARIANT ReplyIsOwn
CHECK_DEADLOCK FALSE
