----------------------------- MODULE PingStore -----------------------------
(***************************************************************************)
(* The ping workers of internal/prober/prober.go, the series of samples    *)
(* they keep in internal/store/store.go, the rollups derived from it, and  *)
(* the history log a restart replays into it.                              *)
(*                                                                         *)
(* Time is discrete and relative: a sample carries its age, which stops at *)
(* Old, beyond the window of the rollups.  Tick lets one unit pass.  The   *)
(* log is what HistoryRing keeps, seen through HistoryLog: a bounded       *)
(* sequence, of which a kill may lose the end, and which a kill leaves     *)
(* turned round when it was full (see HistoryRing).                        *)
(*                                                                         *)
(* Append drops the sample that finds the channel of the history full, and *)
(* without a history there is no sink: which samples that happens to is    *)
(* chosen with the sample, kept, and only Persist reads it.                *)
(*                                                                         *)
(* Left out: what a worker only counts or smooths (sent, received, jitter, *)
(* the last round-trip time, updated).                                     *)
(***************************************************************************)
EXTENDS Integers, FiniteSets, SequencesExt

CONSTANTS
    Worker,         \* configured targets, each with one ping worker
    Name,
    NameOf,         \* NameOf[w]: the display name of w's target
    First,          \* First[n]: the worker whose host and DSCP are shown for n
    Addr,           \* addresses its host may resolve to
    Rtt,            \* round-trip times
    Window,         \* rollupWindow
    RingCap,        \* ringCap
    LogCap,         \* records the history file holds
    Interval,       \* ping.interval
    Timeout,        \* ping.timeout
    ResolveFails,   \* the workers whose lookups may fail
    OpenFails,      \* the workers whose sockets may not open
    Drops,          \* the workers whose samples the history may drop
    Kills,          \* may the process be killed?
    Prompt          \* do workers that can run do so before time passes?

ASSUME PingAssumption ==
    /\ NameOf \in [Worker -> Name] /\ First \in [Name -> Worker] /\ Rtt \subseteq Nat
    /\ \A n \in Name : NameOf[First[n]] = n
    /\ {Window, RingCap, LogCap, Interval} \subseteq Nat \ {0} /\ Timeout \in Nat
    /\ {ResolveFails, OpenFails, Drops} \subseteq SUBSET Worker /\ {Kills, Prompt} \subseteq BOOLEAN

Old    == Window + 1
NoAddr == "none"
NoRtt  == -1

VARIABLES
    up,        \* the process runs
    samples,   \* samples[n]: ts.samples, oldest first
    ip,        \* ip[n]: ts.ip
    log,       \* the history, oldest first
    pc,        \* pc[w]: where pingWorker is
    smp,       \* smp[w]: the sample it has taken
    addr,      \* addr[w]: the address it probes
    next,      \* next[w]: time to the next tick of its ticker
    fired,     \* fired[w]: a tick waits in the channel of the ticker
    left       \* left[w]: time to the deadline of its probe

worker == <<pc, smp, addr, fired, left>>
vars   == <<up, samples, ip, log, worker, next>>

Age    == 0 .. Old
Sample == [by : Worker, age : Age, rtt : Rtt \cup {NoRtt}, live : BOOLEAN, kept : BOOLEAN]
Ok(s)  == s.rtt # NoRtt

\* A sample stamped now: live tells it from a replayed one, for the properties, and
\* kept whether it reaches the history.
Taken(w, r, k) == [by |-> w, age |-> 0, rtt |-> r, live |-> TRUE, kept |-> k]

\* What smp[w] is while w has none.
NoSample(w) == Taken(w, NoRtt, FALSE)

----------------------------------------------------------------------------
(* The store.                                                              *)

\* Mutant of Trim: one sample too late.
TrimLate(s) == IF Len(s) > RingCap + 1 THEN SubSeq(s, Len(s) - RingCap + 1, Len(s)) ELSE s

Trim(s) == IF Len(s) > RingCap THEN SubSeq(s, Len(s) - RingCap + 1, Len(s)) ELSE s

\* AddPing and LoadHistorical: append, and trim the front.
Added(s, x) == Trim(Append(s, x))

\* Mutants of Recent: everything is recent; the window is too short.
RecentAlways(s) == TRUE
RecentShort(s)  == s.age < Window

\* The sample is not before the cutoff.
Recent(s) == s.age <= Window

\* Mutant of WindowOf: the walk starts at the oldest sample.
WindowOfForward(s) == {i \in DOMAIN s : \A j \in 1 .. i : Recent(s[j])}

\* deriveLocked walks back from the newest sample and stops at the first one that
\* is before the cutoff: the indexes it counts.
WindowOf(s) == {i \in DOMAIN s : \A j \in i .. Len(s) : Recent(s[j])}

OkOf(s) == {i \in WindowOf(s) : Ok(s[i])}
Up(s)   == OkOf(s) # {}

\* The round-trip times the rollups are computed from, in the order of the walk,
\* newest first.
Rtts(s) ==
    LET ok == {i \in DOMAIN s : i \in OkOf(s)}
    IN  [k \in 1 .. Cardinality(ok) |->
            s[CHOOSE i \in ok : Cardinality({j \in ok : j >= i}) = k].rtt]

\* Their sum.
Total(rtts) ==
    LET sum[k \in 0 .. Len(rtts)] == IF k = 0 THEN 0 ELSE sum[k - 1] + rtts[k]
    IN  sum[Len(rtts)]

\* The k-th of them from the smallest, however often a time occurs.
Smallest(rtts, k) ==
    CHOOSE r \in Range(rtts) :
        /\ Cardinality({i \in DOMAIN rtts : rtts[i] < r}) < k
        /\ Cardinality({i \in DOMAIN rtts : rtts[i] <= r}) >= k

Sorted(rtts) == [k \in DOMAIN rtts |-> Smallest(rtts, k)]

\* Mutant of Rank: the rank is one too high, and cut off at the end.
RankOver(p, n) == IF (p * n) \div 100 > n - 1 THEN n - 1 ELSE (p * n) \div 100

\* The index, from 0, of the p-th percentile of n sorted values.
Rank(p, n) == (p * (n - 1)) \div 100

Percentile(sorted, p) == sorted[Rank(p, Len(sorted)) + 1]

----------------------------------------------------------------------------
(* The process.                                                            *)

\* The records of recs that are in S, loaded one by one into an empty series.
Loaded(recs, S) ==
    LET loaded[k \in 0 .. Len(recs)] ==
            IF k = 0 THEN <<>>
            ELSE IF recs[k] \in S THEN Added(loaded[k - 1], [recs[k] EXCEPT !.live = FALSE])
            ELSE loaded[k - 1]
    IN  loaded[Len(recs)]

Under(n) == {x \in Sample : NameOf[x.by] = n}

\* What Replay yields for n.
Replayed(n) == Loaded(log, Under(n))

\* startDaemon: New resolves and registers every target (Register keeps the first
\* of a name), the history is replayed, and then the workers start; one whose socket
\* does not open ends at once.
Start ==
    /\ ~up
    /\ up' = TRUE
    /\ ip' \in [Name -> Addr \cup {NoAddr}]
    /\ \A n \in Name : ip'[n] = NoAddr => First[n] \in ResolveFails
    /\ samples' = [n \in Name |-> Replayed(n)]
    /\ pc' \in [Worker -> {"waiting", "off"}]
    /\ \A w \in Worker : pc'[w] = "off" => w \in OpenFails
    /\ next' = [w \in Worker |-> Interval]
    /\ UNCHANGED <<log, smp, addr, fired, left>>

\* The log l as a file that was full when it was opened may hold it, from its first
\* slot: w records have been written over the oldest since.
Turned(l) ==
    {SubSeq(l, Len(l) - w + 1, Len(l)) \o SubSeq(l, 1, Len(l) - w) :
        w \in IF Len(l) < LogCap THEN {0} ELSE 0 .. Len(l)}

\* What a kill may leave of the log l, by the last header written: it counts only the
\* first c slots of the file.
Left(l) == UNION {{SubSeq(t, 1, c) : c \in 0 .. Len(l)} : t \in Turned(l)}

\* The process ends, with its store and whatever its workers were at.
Stop ==
    /\ up
    /\ up' = FALSE
    /\ samples' = [n \in Name |-> <<>>] /\ ip' = [n \in Name |-> NoAddr]
    /\ pc' = [w \in Worker |-> "off"] /\ smp' = [w \in Worker |-> NoSample(w)]
    /\ fired' = [w \in Worker |-> FALSE] /\ left' = [w \in Worker |-> 0]
    /\ log' \in (IF Kills THEN Left(log) ELSE {log})
    /\ UNCHANGED <<addr, next>>

\* One unit of time passes.  A ticker whose channel is full drops its tick.
Tick ==
    /\ \A w \in Worker :
         /\ pc[w] = "probing" => left[w] > 0
         /\ Prompt => pc[w] \in {"off", "probing"} \/ (pc[w] = "waiting" /\ ~fired[w])
    /\ LET older(x) == [x EXCEPT !.age = IF @ = Old THEN Old ELSE @ + 1]
           aged(s)  == [i \in DOMAIN s |-> older(s[i])]
       IN  /\ samples' = [n \in Name |-> aged(samples[n])]
           /\ log' = aged(log)
           /\ smp' = [w \in Worker |->
                        IF pc[w] \in {"stamped", "added"} THEN older(smp[w]) ELSE smp[w]]
    /\ next' = [w \in Worker |-> IF next[w] = 1 THEN Interval ELSE next[w] - 1]
    /\ fired' = [w \in Worker |-> fired[w] \/ (pc[w] # "off" /\ next[w] = 1)]
    /\ left' = [w \in Worker |-> IF pc[w] = "probing" THEN left[w] - 1 ELSE 0]
    /\ UNCHANGED <<up, ip, pc, addr>>

----------------------------------------------------------------------------
(* pingWorker.                                                             *)

\* A tick; the host resolves, and is probed.
Probe(w) ==
    /\ pc[w] = "waiting" /\ fired[w]
    /\ pc' = [pc EXCEPT ![w] = "probing"]
    /\ fired' = [fired EXCEPT ![w] = FALSE]
    /\ \E a \in Addr : addr' = [addr EXCEPT ![w] = a]
    /\ left' = [left EXCEPT ![w] = Timeout]
    /\ UNCHANGED <<up, samples, ip, log, smp, next>>

\* A tick; the host does not resolve: a lost sample goes to the store at once, and
\* never to the sink.
Unresolved(w) ==
    /\ w \in ResolveFails
    /\ pc[w] = "waiting" /\ fired[w]
    /\ fired' = [fired EXCEPT ![w] = FALSE]
    /\ samples' = [samples EXCEPT ![NameOf[w]] = Added(@, Taken(w, NoRtt, FALSE))]
    /\ UNCHANGED <<up, ip, log, pc, smp, addr, next, left>>

\* How a probe may end: an answer, or a loss, by the deadline or an error at any time.
Outcomes == Rtt \cup {NoRtt}

\* May a sample of w be kept, and may it be dropped?
Kept(w) == {TRUE} \cup (IF w \in Drops THEN {FALSE} ELSE {})

\* Probe returns, and the sample is stamped.
Sampled(w) ==
    /\ pc[w] = "probing"
    /\ \E r \in Outcomes, k \in Kept(w) : smp' = [smp EXCEPT ![w] = Taken(w, r, k)]
    /\ pc' = [pc EXCEPT ![w] = "stamped"]
    /\ left' = [left EXCEPT ![w] = 0]
    /\ UNCHANGED <<up, samples, ip, log, addr, next, fired>>

\* store.AddPing.
AddPing(w) ==
    /\ pc[w] = "stamped"
    /\ samples' = [samples EXCEPT ![NameOf[w]] = Added(@, smp[w])]
    /\ pc' = [pc EXCEPT ![w] = "added"]
    /\ UNCHANGED <<up, ip, log, smp, addr, next, fired, left>>

\* Mutant of Logged: a lost sample is not worth a record.
LoggedOk(x) == IF Ok(x) THEN Append(log, x) ELSE log

Logged(x) == Append(log, x)

\* sink.Append drops the sample, or it becomes a record of the log; a full file
\* overwrites its oldest one.
Persist(w) ==
    /\ pc[w] = "added"
    /\ log' = IF ~smp[w].kept THEN log
              ELSE IF Len(Logged(smp[w])) > LogCap THEN Tail(Logged(smp[w])) ELSE Logged(smp[w])
    /\ pc' = [pc EXCEPT ![w] = "waiting"]
    /\ smp' = [smp EXCEPT ![w] = NoSample(w)]
    /\ UNCHANGED <<up, samples, ip, addr, next, fired, left>>

Work(w) == Probe(w) \/ Unresolved(w) \/ Sampled(w) \/ AddPing(w) \/ Persist(w)

----------------------------------------------------------------------------

\* The process is about to be started for the first time.
Init ==
    /\ up = FALSE
    /\ samples = [n \in Name |-> <<>>] /\ ip = [n \in Name |-> NoAddr] /\ log = <<>>
    /\ pc = [w \in Worker |-> "off"] /\ smp = [w \in Worker |-> NoSample(w)]
    /\ addr \in [Worker -> Addr]
    /\ next = [w \in Worker |-> Interval] /\ fired = [w \in Worker |-> FALSE]
    /\ left = [w \in Worker |-> 0]

Next == Start \/ Stop \/ Tick \/ \E w \in Worker : Work(w)

\* Time passes, the workers run and the process is started again.
Fairness == WF_vars(Tick) /\ WF_vars(Start) /\ \A w \in Worker : WF_vars(Work(w))

Spec     == Init /\ [][Next]_vars
FairSpec == Spec /\ Fairness

----------------------------------------------------------------------------
(* Properties.                                                             *)

TypeOK ==
    /\ up \in BOOLEAN /\ ip \in [Name -> Addr \cup {NoAddr}]
    /\ samples \in [Name -> Seq(Sample)] /\ \A n \in Name : Len(samples[n]) <= RingCap
    /\ log \in Seq(Sample) /\ Len(log) <= LogCap
    /\ pc \in [Worker -> {"off", "waiting", "probing", "stamped", "added"}]
    /\ smp \in [Worker -> Sample] /\ addr \in [Worker -> Addr]
    /\ next \in [Worker -> 1 .. Interval] /\ fired \in [Worker -> BOOLEAN]
    /\ left \in [Worker -> 0 .. Timeout]

\* The rollups count exactly the retained samples of the last fifteen seconds,
\* no recent one hidden behind an older one, replayed samples included
\* (store.go:273-291: the walk stops at the first old sample).
RollupIsWindow ==
    \A n \in Name :
        WindowOf(samples[n]) = {i \in DOMAIN samples[n] : samples[n][i].age <= Window}

\* The figures shown for a target are in order, min <= p50 <= p90 <= p95 <= p99
\* <= max and min <= avg <= max, and at most a share p of the samples and one
\* more is below the p-th percentile (store.go:295-305, 382-394).
RollupInOrder ==
    \A n \in Name : Up(samples[n]) =>
        LET rtts == Rtts(samples[n])
            sorted == Sorted(rtts)
            k == Len(sorted)
            avg == Total(rtts) \div k
            P(p) == Percentile(sorted, p)
        IN  /\ \A i \in 1 .. k : sorted[1] <= rtts[i] /\ rtts[i] <= sorted[k]
            /\ sorted[1] <= P(50) /\ P(50) <= P(90) /\ P(90) <= P(95) /\ P(95) <= P(99)
            /\ P(99) <= sorted[k]
            /\ sorted[1] <= avg /\ avg <= sorted[k]
            /\ \A p \in {50, 90, 95, 99} :
                 Cardinality({i \in 1 .. k : rtts[i] < P(p)}) * 100 <= p * (k - 1)

\* A target that is up goes down because a probe failed, not because its worker
\* had no reason to probe it yet (store.go:275-291, 309; prober.go:65-88).
GoesDownByLoss ==
    [][\A n \in Name :
          Up(samples[n]) /\ ~Up(samples'[n]) /\ up' =>
             LET x == samples'[n][Len(samples'[n])] IN ~x.live \/ ~Ok(x)]_vars

\* No probe ends in an answer.
Unanswered == \A w \in Worker : pc[w] = "probing" /\ pc'[w] = "stamped" => ~Ok(smp'[w])

\* Hosts that stay silent are shown down in the end, and stay so through
\* restarts that replay their better days (store.go:275-309).
SilentIsDown ==
    <>[][Unanswered]_vars => <>[](\A n \in Name : ~Up(samples[n]))

\* The series s is what a restart would show of w, once the sample on its way is there,
\* or one is the end of the other: only where the series or the history is full.
Follows(w, s) ==
    LET r     == Replayed(NameOf[w])
        again == IF pc[w] = "added" /\ smp[w].kept THEN Added(r, smp[w]) ELSE r
        data(q) == [i \in DOMAIN q |-> <<q[i].age, q[i].rtt>>]
    IN  \/ data(s) = data(again)
        \/ IsSuffix(data(s), data(again)) /\ Len(samples[NameOf[w]]) = RingCap
        \/ IsSuffix(data(again), data(s)) /\ Len(log) = LogCap

\* What a restart would show of a target is what is shown now but for the samples that
\* never reached the history, a dropped one or one of a lookup that failed: no other
\* is missing, none comes twice or out of its place, and what happens to the samples
\* of one target touches no other (prober.go:17, 76-87; history.go:152-158;
\* store.go:153-170).
SinkFollowsStore ==
    up => \A w \in Worker :
            Follows(w, Loaded(samples[NameOf[w]], {x \in Sample : x.kept}))

\* The sink follows the store in every sample (prober.go:17).  It does not: a lookup
\* that fails is a loss in the store, and nothing in the sink.
EverySampleIsKept == up => \A w \in Worker : Follows(w, samples[NameOf[w]])

\* Every sample of the series of a name is of the target shown under that name,
\* with its host and its DSCP (store.go:1-2, 114-134; load.go:70-71).
SeriesIsOfTarget ==
    \A n \in Name : \A i \in DOMAIN samples[n] : samples[n][i].by = First[n]

\* The address shown for a target is the one being probed
\* (store.go:48, 114-121; prober.go:35-40, 77-82).
ShownIsProbed ==
    \A w \in Worker : pc[w] = "probing" => ip[NameOf[w]] = addr[w]
=============================================================================
