------------------------------- MODULE Scrape -------------------------------
(***************************************************************************)
(* What a scrape shows of the targets: PingStore with the totals of the    *)
(* session that AddPing counts, and the collector of                       *)
(* internal/metrics/collectors.go, which derives all targets under one     *)
(* lock and then reads the histogram of each under another, while samples  *)
(* go on coming.  And the score of internal/store/quality.go.              *)
(*                                                                         *)
(* One reader stands for the handler of /metrics or for the push loop: a   *)
(* collection changes nothing that another one reads.  Of the histogram    *)
(* only the bucket +Inf, the count, is kept: every bucket counts the same  *)
(* way under its own bound.                                                *)
(*                                                                         *)
(* Left out: jitter, but as an argument of the score, and the sums.        *)
(***************************************************************************)
EXTENDS PingStore

CONSTANTS
    MaxSent,    \* bound: samples of each name in one process
    None        \* a model value: not shown yet

ASSUME ScrapeAssumption == MaxSent \in Nat

VARIABLES
    sent,       \* sent[n]: ts.sent
    received,   \* received[n]: ts.received
    last,       \* last[n]: ts.lastRTT, NoRtt if there is none
    todo,       \* names of the snapshot whose series are not yet emitted
    snap,       \* snap[n]: n in the snapshot
    page        \* page[n]: the series of n as last emitted

totals     == <<sent, received, last>>
collector  == <<todo, snap, page>>
scrapeVars == <<vars, sent, received, last, todo, snap, page>>

----------------------------------------------------------------------------
(* The totals.                                                             *)

\* What AddPing counts of a sample; the guard is the bound.
Count(n, x) ==
    /\ sent[n] < MaxSent
    /\ sent' = [sent EXCEPT ![n] = @ + 1]
    /\ received' = [received EXCEPT ![n] = IF Ok(x) THEN @ + 1 ELSE @]
    /\ last' = [last EXCEPT ![n] = IF Ok(x) THEN x.rtt ELSE @]

Counted(w) ==
    /\ \/ AddPing(w) /\ Count(NameOf[w], smp[w])
       \/ Unresolved(w) /\ Count(NameOf[w], Taken(w, NoRtt, FALSE))
    /\ UNCHANGED collector

\* Mutant of SentAtStart: replayed samples are counted.
SentOfReplay(n) == Len(Replayed(n))

\* LoadHistorical counts nothing.
SentAtStart(n) == 0

\* The store of a new process, and that of none.
Fresh ==
    /\ sent' = [n \in Name |-> IF up' THEN SentAtStart(n) ELSE 0]
    /\ received' = [n \in Name |-> 0] /\ last' = [n \in Name |-> NoRtt]
    /\ todo' = {} /\ snap' = [n \in Name |-> None] /\ page' = [n \in Name |-> None]

----------------------------------------------------------------------------
(* The collector.                                                          *)

\* Mutant of SentShown: the length of the series.
SentOfSeries(n) == Len(samples[n])

SentShown(n) == sent[n]

\* deriveLocked: what a scrape shows of the session and of the window.
Derived(n) ==
    [sent |-> SentShown(n), recv |-> received[n],
     ok |-> Cardinality(OkOf(samples[n]))]

\* Snapshot derives all targets under one lock.
Snapshot ==
    /\ up /\ todo = {}
    /\ todo' = Name /\ snap' = [n \in Name |-> Derived(n)]
    /\ UNCHANGED <<vars, totals, page>>

\* Mutant of Answers: only those of the window.
AnswersOfLast(s) == {i \in DOMAIN s : i = Len(s) /\ Ok(s[i])}

\* The samples a histogram counts: the answers of the whole series.
Answers(s) == {i \in DOMAIN s : Ok(s[i])}

\* The series of one target are emitted; its histogram is read now.
\* A count of 0 stands for no histogram at all: an empty one is not emitted.
Emit(n) ==
    /\ n \in todo
    /\ todo' = todo \ {n}
    /\ page' = [page EXCEPT ![n] =
         [figures |-> snap[n], count |-> Cardinality(Answers(samples[n])),
          since |-> sent[n] - snap[n].sent]]
    /\ snap' = [snap EXCEPT ![n] = None]
    /\ UNCHANGED <<vars, totals>>

----------------------------------------------------------------------------
(* The score of a target, in ten-thousandths; loss is in percent.          *)

Unit == 150     \* milliseconds in a unit of Rtt

Clamped(r) == IF r < 0 THEN 0 ELSE IF r > 1000 THEN 1000 ELSE r

\* Mutant of RFactor: the slopes do not meet.
RFactorJump(rtt, jitter, loss) ==
    LET l == rtt \div 2 + 2 * jitter + 10
    IN  Clamped(932 - (IF l < 160 THEN l \div 4 ELSE l - 160) - 25 * loss)

\* The R-factor, in tenths: two slopes of the one-way latency, and the loss.
RFactor(rtt, jitter, loss) ==
    LET l == rtt \div 2 + 2 * jitter + 10
    IN  Clamped(932 - (IF l < 160 THEN l \div 4 ELSE l - 120) - 25 * loss)

\* estimateMOS.
Mos(rtt, jitter, loss) ==
    LET r == RFactor(rtt, jitter, loss)
        m == 10000 + 35 * r + (7 * r * (r - 600) * (1000 - r)) \div 100000
    IN  IF m < 10000 THEN 10000 ELSE IF m > 45000 THEN 45000 ELSE m

\* deriveLocked: the mean time, and the loss if k more probes were lost.
AvgRtt(s)  == IF Up(s) THEN (Unit * Total(Rtts(s))) \div Cardinality(OkOf(s)) ELSE 0
Loss(s, k) ==
    LET total == Cardinality(WindowOf(s)) + k
    IN  IF total = 0 THEN 0 ELSE (100 * (total - Cardinality(OkOf(s)))) \div total

----------------------------------------------------------------------------

ScrapeInit ==
    /\ Init
    /\ sent = [n \in Name |-> 0] /\ received = [n \in Name |-> 0] /\ last = [n \in Name |-> NoRtt]
    /\ todo = {} /\ snap = [n \in Name |-> None] /\ page = [n \in Name |-> None]

\* The steps of PingStore that count nothing.
Quiet ==
    /\ Tick \/ \E w \in Worker : Probe(w) \/ Sampled(w) \/ Persist(w)
    /\ UNCHANGED <<totals, collector>>

ScrapeNext ==
    \/ (Start \/ Stop) /\ Fresh
    \/ Quiet
    \/ \E w \in Worker : Counted(w)
    \/ Snapshot \/ \E n \in Name : Emit(n)

ScrapeSpec == ScrapeInit /\ [][ScrapeNext]_scrapeVars

----------------------------------------------------------------------------
(* Properties.                                                             *)

Figures == [sent : 0 .. MaxSent, recv : 0 .. MaxSent, ok : 0 .. RingCap]
Page    == [figures : Figures, count : 0 .. RingCap, since : 0 .. MaxSent]

ScrapeTypeOK ==
    /\ TypeOK
    /\ sent \in [Name -> 0 .. MaxSent] /\ received \in [Name -> 0 .. MaxSent]
    /\ last \in [Name -> Rtt \cup {NoRtt}]
    /\ todo \subseteq Name /\ snap \in [Name -> Figures \cup {None}]
    /\ page \in [Name -> Page \cup {None}]

\* The totals are those of this session and fit the series, whatever was replayed
\* into it before and has fallen out of it since: the series ends with the samples
\* that were counted, as many as it holds, and the last round-trip time is that of
\* the newest answer among them (store.go:124-170).
SessionAddsUp ==
    \A n \in Name :
        LET s    == samples[n]
            live == {i \in DOMAIN s : s[i].live}
            ok   == live \cap Answers(s)
        IN  /\ Cardinality(live) = (IF sent[n] < RingCap THEN sent[n] ELSE RingCap)
            /\ \A i \in live : (i .. Len(s)) \subseteq live
            /\ sent[n] <= RingCap => received[n] = Cardinality(ok)
            /\ ok # {} => last[n] = s[Max(ok)].rtt
            /\ received[n] = 0 <=> last[n] = NoRtt

\* The series of one target in one scrape hold together, though samples come, and
\* go, between the two locks: no more answers than probes, and every answer of the
\* window is in the histogram, but for one that each later sample may have pushed
\* out (collectors.go:51-77, store.go:261-319, 353-380).
PageHoldsTogether ==
    \A n \in Name : page[n] # None =>
        LET f == page[n].figures
        IN  f.recv <= f.sent /\ f.ok <= page[n].count + page[n].since

\* Counters count: from one scrape of a process to the next no total falls, and no
\* more answers are added than probes; the count of the histogram falls only where
\* the series is full (collectors.go:66-67, 74-77).
CountersRunForward ==
    [][\A n \in Name : page[n] # None /\ page'[n] # None =>
          LET old == page[n].figures
              new == page'[n].figures
          IN  /\ old.sent <= new.sent /\ old.recv <= new.recv
              /\ new.recv - old.recv <= new.sent - old.sent
              /\ page'[n].count < page[n].count => Len(samples[n]) = RingCap]_page

\* The score of a target is never better for one more lost probe, a longer time or
\* more jitter, where the slope changes and where R ends included (quality.go:11-43).
ScoreFalls ==
    \A n \in Name :
        LET t == AvgRtt(samples[n])
            l == Loss(samples[n], 0)
            m == Mos(t, 0, l)
        IN  /\ 10000 <= m /\ m <= 45000
            /\ Mos(t, 0, Loss(samples[n], 1)) <= m
            /\ Mos(t + Unit, 0, l) <= m /\ Mos(t, Unit, l) <= m

\* A target without a recent answer has the lowest score (store.go:292-311).  It has
\* not: with no sample in the window neither time nor loss counts against it.
DownScoresLow ==
    \A n \in Name : up /\ ~Up(samples[n]) =>
        Mos(AvgRtt(samples[n]), 0, Loss(samples[n], 0)) = 10000
=============================================================================
