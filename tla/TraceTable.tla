---------------------------- MODULE TraceTable ----------------------------
(***************************************************************************)
(* The trace workers: a cycle of icmp.Trace (internal/icmp/traceroute.go), *)
(* the names of its hops from the cache they share (DnsCache), and the     *)
(* merge into the hop table of the store (internal/store/store.go).        *)
(*                                                                         *)
(* A probe of a TTL is answered from one of the addresses Path gives for   *)
(* it, or not at all.  A router answers with an error; the destination     *)
(* with an echo reply or, as one that rejects probes does, with an error   *)
(* too.  Targets with the same display name share a hop table.             *)
(***************************************************************************)
EXTENDS DnsCache, Sequences, FiniteSetsExt

CONSTANTS
    Worker,       \* targets, each with one trace worker
    Display,      \* names that are shown of targets
    DisplayOf,    \* DisplayOf[w]: the name shown of the target
    DstOf,        \* DstOf[w]: the address of the target
    Path,         \* Path[w][ttl]: who may answer a probe with that TTL
    MaxHops,
    Queries,      \* probes for each TTL
    Rtt,          \* round-trip times
    Lossy,        \* are probes lost?
    MeanErr,      \* how far floats may put the mean from its value
    VarErr,       \* and the variance
    MaxCycles     \* bound: no cycle starts when as many are merged

NoAddr == "no address"

ASSUME TraceAssumption ==
    /\ NoAddr \notin HopAddr
    /\ DisplayOf \in [Worker -> Display] /\ DstOf \in [Worker -> HopAddr]
    /\ Path \in [Worker -> [1 .. MaxHops -> SUBSET HopAddr]]
    /\ {MaxHops, Queries} \subseteq Nat \ {0} /\ Rtt \subseteq Nat \ {0} /\ Lossy \in BOOLEAN
    /\ {MeanErr, VarErr, MaxCycles} \subseteq Nat

VARIABLES
    pc,        \* pc[w]: where runTrace is
    hops,      \* hops[w]: the hops of the cycle
    host,      \* host[w]: the names of the first of them
    table,     \* table[d]: ts.hops of the target shown as d
    cycles     \* cycles[d]: cycles merged into it

trace == <<pc, hops, host, table, cycles>>
vars  == <<names, pending, flying, works, pc, hops, host, table, cycles>>

----------------------------------------------------------------------------
(* icmp.Trace.                                                             *)

\* What one probe may come to: lost, or an answer, an echo reply or an error.
Outcome(w, ttl) ==
    {o \in [from : Path[w][ttl], reply : BOOLEAN, rtt : Rtt] : o.reply => o.from = DstOf[w]}
        \cup (IF Lossy THEN {[from |-> NoAddr, reply |-> FALSE, rtt |-> 0]} ELSE {})

\* The hop that the outcomes q of its probes make up: the first responder, the
\* mean of the times, and whether there was an echo reply.
HopOf(q) ==
    LET got == {i \in 1 .. Queries : q[i].from # NoAddr}
        total[i \in 0 .. Queries] == IF i = 0 THEN 0 ELSE total[i - 1] + q[i].rtt
    IN  IF got = {} THEN [addr |-> NoAddr, recv |-> 0, rtt |-> 0, reached |-> FALSE]
        ELSE [addr    |-> q[Min(got)].from,
              recv    |-> Cardinality(got),
              rtt     |-> total[Queries] \div Cardinality(got),
              reached |-> \E i \in got : q[i].reply]

HopsAt(w, ttl) == {HopOf(q) : q \in [1 .. Queries -> Outcome(w, ttl)]}

\* A cycle starts.  (If the host does not resolve there is none.)
Begin(w) ==
    /\ pc[w] = "idle" /\ cycles[DisplayOf[w]] < MaxCycles
    /\ pc' = [pc EXCEPT ![w] = "tracing"]
    /\ hops' = [hops EXCEPT ![w] = <<>>]
    /\ host' = [host EXCEPT ![w] = <<>>]
    /\ UNCHANGED <<dns, table, cycles>>

Finished(h) == Len(h) = MaxHops \/ h[Len(h)].reached

\* The probes of the next TTL.
Step(w) ==
    /\ pc[w] = "tracing"
    /\ \E h \in HopsAt(w, Len(hops[w]) + 1) : hops' = [hops EXCEPT ![w] = Append(@, h)]
    /\ pc' = [pc EXCEPT ![w] = IF Finished(hops'[w]) THEN "naming" ELSE "tracing"]
    /\ UNCHANGED <<dns, host, table, cycles>>

----------------------------------------------------------------------------
(* runTrace.                                                               *)

\* Mutant of Hop: the name of the hop before.
HopBefore(w) == hops[w][IF host[w] = <<>> THEN 1 ELSE Len(host[w])]

\* The hop whose name is due.
Hop(w) == hops[w][Len(host[w]) + 1]

\* A hop that answered is looked up.
Name(w) ==
    /\ pc[w] = "naming" /\ Len(host[w]) < Len(hops[w])
    /\ LET a == Hop(w).addr
       IN  IF a = NoAddr
           THEN /\ host' = [host EXCEPT ![w] = Append(@, NoName)]
                /\ UNCHANGED dns
           ELSE /\ host' = [host EXCEPT ![w] = Append(@, NameOf(a))]
                /\ Lookup(a)
    /\ UNCHANGED <<pc, hops, table, cycles>>

Blank == [addr |-> NoAddr, host |-> NoName, sent |-> 0, recv |-> 0,
          last |-> 0, best |-> 0, worst |-> 0, sum |-> 0, sumSq |-> 0]

\* Mutant of Best: the sentinel 0 is taken for a time.
BestZero(best, rtt) == IF rtt < best THEN rtt ELSE best

Best(best, rtt)   == IF best = 0 \/ rtt < best THEN rtt ELSE best
Worst(worst, rtt) == IF rtt > worst THEN rtt ELSE worst

\* A row and the hop of the cycle that is merged into it.
Merged(acc, h, name) ==
    LET kept == [acc EXCEPT !.addr = IF h.addr = NoAddr THEN @ ELSE h.addr,
                            !.host = IF name = NoName THEN @ ELSE name,
                            !.sent = @ + Queries]
    IN  IF h.recv = 0 THEN kept
        ELSE [kept EXCEPT !.recv = @ + h.recv, !.last = h.rtt,
                          !.sum = @ + h.rtt * h.recv, !.sumSq = @ + h.rtt * h.rtt * h.recv,
                          !.best = Best(@, h.rtt), !.worst = Worst(@, h.rtt)]

\* Mutants of Rows: the table starts anew when the path has grown; one row more.
RowsAnew(t, n) == IF Len(t) < n THEN [i \in 1 .. n |-> Blank] ELSE t
RowsMore(t, n) == IF Len(t) <= n THEN t \o [i \in 1 .. n + 1 - Len(t) |-> Blank] ELSE t

\* The table grows to n rows; it does not shrink.
Rows(t, n) == [i \in 1 .. (IF Len(t) < n THEN n ELSE Len(t)) |-> IF i <= Len(t) THEN t[i] ELSE Blank]

\* deriveHops: what is shown of a row.  The sums of the model are exact; e and f
\* stand for what the floats of the code have lost by the time there is a mean and
\* a variance.  square is that of the deviation, times that of recv.
HopStats(acc, e, f) ==
    LET variance == acc.sumSq * acc.recv - acc.sum * acc.sum + f
    IN  [addr |-> acc.addr, host |-> acc.host, sent |-> acc.sent, recv |-> acc.recv,
         lost |-> acc.sent - acc.recv, last |-> acc.last, best |-> acc.best, worst |-> acc.worst,
         avg |-> IF acc.recv > 0 THEN acc.sum \div acc.recv + e ELSE 0,
         square |-> IF acc.recv > 0 /\ variance > 0 THEN variance ELSE 0]

\* UpdateTraceroute.
Update(w) ==
    /\ pc[w] = "naming" /\ Len(host[w]) = Len(hops[w])
    /\ LET d == DisplayOf[w]
           rows == Rows(table[d], Len(hops[w]))
       IN  /\ table' = [table EXCEPT ![d] =
                [i \in DOMAIN rows |->
                    IF i <= Len(hops[w]) THEN Merged(rows[i], hops[w][i], host[w][i]) ELSE rows[i]]]
           /\ cycles' = [cycles EXCEPT ![d] = @ + 1]
    /\ pc' = [pc EXCEPT ![w] = "idle"]
    /\ UNCHANGED <<dns, hops, host>>

----------------------------------------------------------------------------

Init ==
    /\ DnsInit
    /\ pc = [w \in Worker |-> "idle"]
    /\ hops = [w \in Worker |-> <<>>] /\ host = [w \in Worker |-> <<>>]
    /\ table = [d \in Display |-> <<>>] /\ cycles = [d \in Display |-> 0]

Next ==
    \/ \E w \in Worker : Begin(w) \/ Step(w) \/ Name(w) \/ Update(w)
    \/ (Toggle \/ \E a \in HopAddr : Resolve(a)) /\ UNCHANGED trace

Spec == Init /\ [][Next]_vars

----------------------------------------------------------------------------
(* Properties.                                                             *)

HopType == [addr : HopAddr \cup {NoAddr}, recv : 0 .. Queries, rtt : Nat, reached : BOOLEAN]
RowType == [addr : HopAddr \cup {NoAddr}, host : HostName \cup {NoName}, sent : Nat, recv : Nat,
            last : Nat, best : Nat, worst : Nat, sum : Nat, sumSq : Nat]

TypeOK ==
    /\ DnsTypeOK
    /\ pc \in [Worker -> {"idle", "tracing", "naming"}]
    /\ hops \in [Worker -> Seq(HopType)] /\ \A w \in Worker : Len(hops[w]) <= MaxHops
    /\ host \in [Worker -> Seq(HostName \cup {NoName})]
    /\ table \in [Display -> Seq(RowType)] /\ \A d \in Display : Len(table[d]) <= MaxHops
    /\ cycles \in [Display -> Nat]

\* The figures shown of a hop belong together, whatever the floats lose: no more
\* answers than probes; the last time between the best and the worst, the mean too
\* but for its error; the deviation no more than half of what lies between the best
\* and the worst, but for its error, and the root of no negative number; and a hop
\* that never answered shows neither a time nor an address (store.go:196-217, 321-348).
RowsAddUp ==
    \A d \in Display : \A i \in DOMAIN table[d] :
        \A e \in -MeanErr .. MeanErr, f \in -VarErr .. VarErr :
            LET h == HopStats(table[d][i], e, f)
                spread == h.recv * (h.worst - h.best)
            IN  /\ h.lost \in 0 .. h.sent
                /\ h.square >= 0 /\ 4 * h.square <= spread * spread + 4 * VarErr
                /\ h.recv = 0 =>
                     h.addr = NoAddr /\ h.host = NoName /\ {h.best, h.last, h.avg, h.worst} = {0}
                /\ h.recv > 0 =>
                     /\ h.addr # NoAddr
                     /\ 0 < h.best /\ h.best <= h.last /\ h.last <= h.worst
                     /\ h.best - MeanErr <= h.avg /\ h.avg <= h.worst + MeanErr

\* Every cycle probes the path from its start: no row has been sent more probes
\* than the row before it, and the first has all of every cycle, so the losses
\* of two rows can be compared (traceroute.go:30-61, store.go:190-204).
SentFallsAlongPath ==
    \A d \in Display :
        LET t == table[d]
        IN  /\ t # <<>> => t[1].sent = Queries * cycles[d]
            /\ \A i \in 2 .. Len(t) : t[i].sent <= t[i - 1].sent

\* The addresses that may answer at a TTL, on the path to a target shown as d.
OnPath(d, ttl) == UNION {Path[w][ttl] : w \in {v \in Worker : DisplayOf[v] = d}}

\* An address and a name are those of the hop they are shown at, wherever the path
\* leads, whoever asked for the name and whenever it came: a row has an address on
\* the path at its distance, and a name only with an address, the name of one that
\* is on the path at its distance too (prober.go:129-136, store.go:196-203).
NameFitsHop ==
    \A d \in Display : \A i \in DOMAIN table[d] :
        LET r == table[d][i]
        IN  /\ r.addr # NoAddr => r.addr \in OnPath(d, i)
            /\ r.host # NoName => r.addr # NoAddr /\ \E a \in OnPath(d, i) : r.host = Ptr[a]

\* The name in a row is the name of the address in it
\* (prober.go:131-134, store.go:198-203).
NameFitsAddress ==
    \A d \in Display : \A i \in DOMAIN table[d] :
        LET r == table[d][i] IN r.host # NoName => r.addr # NoAddr /\ r.host = Ptr[r.addr]

\* The table is the one of the last cycle: once the destination has answered it
\* has as many rows as it took to get there (store.go:190-195).
TableIsCurrent ==
    \A w \in Worker :
        pc[w] = "idle" /\ hops[w] # <<>> /\ hops[w][Len(hops[w])].reached
            => Len(table[DisplayOf[w]]) = Len(hops[w])
=============================================================================
