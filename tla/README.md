# proby in TLA+

proby is a probe that runs for months on a small machine: it pings and traces
targets, keeps a sliding window of samples and a ring of them on disk, shows them
over a WebSocket and pushes metrics. This directory models the parts of it that
keep state and run at the same time, checks them with TLC, and proves the most
important facts with TLAPS. Paths below are relative to the repository; `store.go`
and the like are in `internal/`.

    tlc -workers 2 -config HistoryKill.cfg MCHistoryRing    # a run
    tlapm HistoryRing_proofs.tla                            # a proof

## 1. The system

### Components

| component | state | operations | talks to |
|---|---|---|---|
| history ring (`history/history.go`) | header (head, count, names) and slots in a file; the same in memory; a channel of 256 samples; `dirty` | `Open`, `Replay`, `Append`, `Run` (record, flush tick, cancellation), `Close` | workers append through the sink; the daemon replays at the start and closes at the end |
| ICMP probe (`icmp/socket_posix.go`) | one socket and one sequence number per worker | `Probe`: send, read until it matches, or the deadline | the kernel |
| ping workers (`prober/prober.go`) | a ticker and an address each | resolve, probe, `AddPing`, `Append` | store, history |
| series and rollups (`store/store.go`) | for each name, samples, totals, address, hops | `Register`, `AddPing`, `LoadHistorical`, `Snapshot`, `RTTHistogram` | workers write; hub, API and metrics read |
| trace workers, hop table (`icmp/traceroute.go`, `prober.go`, `store.go`) | the hops of a cycle; the merged table | `Trace`, `runTrace`, `UpdateTraceroute` | DNS cache, store |
| DNS cache (`prober/dns.go`) | names, pending lookups | `lookup` and its goroutine | shared by all trace workers |
| WebSocket hub (`web/ws.go`) | the clients and a channel of 8 updates for each | join, leave, `broadcast` every second, forward | store, browsers |
| daemon (`app/daemon.go`, `app/commands.go`, `web/quit.go`, `metrics/push.go`) | the root context, the push loop | start, signal, quit request, `RunPush`, `Shutdown` | everything |
| host statistics (`hoststat/*.go`) | last link state, counters and CPU figures | `Collect` every few seconds | kernel; API and metrics read |
| start (`app/commands.go`, `app/daemon.go`, `connectivity/`) | the targets, with or without the gateway; the last network snapshot | `setup`, `Check`, `startDaemon`, `envRefresher` | configuration, netinfo, ICMP, history, store |
| network detection (`netinfo/`) | the snapshot it is making | `Collect`, field by field | kernel; daemon, API and metrics read the snapshot |
| metrics collectors (`metrics/collectors.go`) | the snapshot a scrape goes through | `Collect`, for each scrape or push | store, Prometheus |
| configuration (`config/`), web API, report, languages, upload | none that outlives a call | | |

### What is hard

* **Crash and restart.** Records reach the file before the header that counts
  them; the name table may change between two starts while records keep indexes
  into it; pages reach the disk in any order.
* **Orders of concurrent steps.** Workers nobody waits for append during the last
  flush; `Close` may time out under a `Run` that still writes; a client joins
  while a broadcast is under way; two pushers push at a stop; trace workers share
  a cache that gives up its lock while it looks a name up.
* **Late and foreign answers.** A reply that comes after its deadline is read by
  the next probe; raw sockets get everybody's replies; numbers wrap.
* **Time.** Up and down is a question of the last 15 seconds; replayed, delayed
  and missing samples all meet there.
* **Limits.** Full channels (history 256, hub 8), the full ring, 63 names of 64
  bytes, the capacity of a series.
* **Things that change while they are read**: interfaces that vanish, a network that
  is left in the middle of `Collect`, samples that come between the two locks of a
  scrape.
* **One file, many starts.** The configuration is edited, the host is carried to
  another network, the gateway is found by one start and not by the next, while the
  file and its table of names stay.

PROJECT.json lists these hazards line by line, with the properties that guard them.

### What makes each part correct

History: what is replayed is what was recorded, under the right name, in order,
at most the unflushed tail missing. ICMP: a reply counts for the probe it
answers. Store: rollups are those of the window; up follows the probes; totals are those of
the session. A scrape holds together, and its counters only grow. Trace:
rows are comparable and their figures fit, names belong to the hop they are shown at. Hub: no send on a closed channel,
every client that stays and reads is brought up to date, every other removed. Stop: it always ends, flushed, with
fresh metrics. Start: the gate is honest, what is shown is recorded, under the right
name. Network snapshot: nothing in it but of the networks
the host was in meanwhile, and no field missing because another was. Host statistics: no
traffic is invented and no link change lost.

## 2. The modules

| module | models | instance |
|---|---|---|
| `HistoryRing` | the ring, its file on both sides of `fsync`, `Run`, `Close`, restarts | `MCHistoryRing` |
| `HistoryLog` | what the ring promises: a bounded log that may lose its end | (abstract) |
| `IcmpProbe` | `Probe` of several workers, kernel and network | `MCIcmpProbe` |
| `PingStore` | workers, series, rollups, replay | `MCPingStore` |
| `Scrape` | the totals of the session, the collector that reads the store, the score of a call | `MCScrape` |
| `DnsCache` | the cache of names | `MCDnsCache` |
| `TraceTable` | trace workers and hop tables, composed with `DnsCache` | `MCTraceTable` |
| `StreamHub` | hub, broadcaster, connection handlers | itself |
| `DaemonStop` | the causes and the course of a stop | itself |
| `NetSnapshot` | `Collect` of the network snapshot on Linux, and the network | (part of `Startup`) |
| `Startup` | gate, gateway target, opening and replay, refreshes, over several starts | `MCStartup` |
| `HostStat` | collection of host statistics | itself |
| `HistoryRing_proofs`, `IcmpProbe_proofs`, `StreamHub_proofs`, `DaemonStop_proofs`, `HostStat_proofs`, `Startup_proofs` | proofs about the module named | |
| `Scrape_proofs` | proofs about `PingStore` and `Scrape` | |
| `TraceTable_proofs` | proofs about `DnsCache` and `TraceTable` | |

`TraceTable` EXTENDS `DnsCache`, `Scrape` EXTENDS `PingStore`, and `Startup` EXTENDS
`NetSnapshot`: each composes the component with the one it reads. `HistoryRing` is shown to implement `HistoryLog`,
and `PingStore` builds on that promise: its variable `log` is such a log; `Append` may drop
a sample on the way to it, and a kill loses an end of it or turns it round, as `HistoryRing` shows. `DaemonStop` sees of
the history only that `Run` ends after the cancellation, which is the property
`CancelledRunCloses` of `HistoryRing`. `Startup` takes the ring without faults and
queue: a table, and the last records in order.

### Correspondence

**HistoryRing.** `Sample` is `Append` (its `default:` drops the new sample).
`RunReceive`, `RunTick` and `RunCancelled` are the cases of the select of `Run`;
flush and sync are two steps, so that a fault fits between; a record is written
before `head` and `count` move. `Start` is `Open` with `tryLoadHeader` or `reinit`,
and `Replay` is an operator. `Kill` forgets memory; `WriteBack` and `PowerFail` act
on the second copy of the file (`safeHdr`, `safeSlots`). `OpenFails` is a start whose `Open`
fails: it goes on without history, and the file is as it was, for truncating it to the size it
has changes nothing. `tgt` in a record is a
history field, there for `RightTarget` only. Abstracted: a header write is atomic;
a wrong magic or version, or a head out of range, is a table that does not match; the
configured size, and so the capacity, is the same at every start; the time of
samples grows for each target (one worker each); checksums are `Bad` or not.

**IcmpProbe.** `Send`, `SendFails`, `Read`, `Expire` are the course of `Probe`;
`Answer` is the network, which may lose (do nothing), delay, repeat and reorder,
and the kernel, which gives an answer to the socket of the echo or, if `Raw`, to
all. Errors of routers may quote too little to be matched. Sequence
numbers go round at `SeqMod`; how many probes there are is bounded for TLC only.

**PingStore.** A worker is at "waiting", "probing", "stamped" (its `time.Now()`
has been taken), "added" (in the store, not yet in the sink), or "off", which it stays if its
socket does not open. `kept` in a sample says whether it reaches the history: `Append` drops
one that finds the channel full, and one of a failed lookup is never given to it. Time is relative:
samples carry an age that stops beyond the window, so restarts and long runs are a
finite graph. `Tick` makes a ticker with a channel of one.

**Scrape.** `Counted` is `AddPing` with what it counts, for a probe and for a failed
lookup; `Fresh` is the store of a new process, into which `LoadHistorical` replays
samples without counting them. `Snapshot` derives all targets under one lock, `Emit`
reads the histogram of one of them under another and finishes its series; every step
of the workers fits between. The score is computed in integers, R in tenths and the
score in ten-thousandths, with both slopes and all clamps of `estimateMOS`; a unit of
`Rtt` is 150 ms, so that the times of the model meet both slopes. Left out: jitter (but
as an argument of the score), the sum and the inner buckets of the histogram. A histogram
without observations, which the code does not emit, is a count of 0 in the page.

**TraceTable, DnsCache.** `Begin`, `Step` (one TTL), `Name` (one hop), `Update`
(the merge); `HopStats` is what is shown of a row. A probe comes to nothing, to an echo
reply of the destination, or to an error, which the destination may send too; only a reply
ends the path. Hop tables are those of display names (`DisplayOf`), so two targets may share
one. The code sums seconds in floats and cuts a mean to whole nanoseconds: `HopStats` takes
the errors of mean and variance as arguments, anything up to `MeanErr` and `VarErr`, and what
is stated of the figures holds with each of them. `Lookup` and `Resolve` are the two halves of `lookup`; `Toggle` is a
DNS that fails and recovers.

**StreamHub.** A snapshot is the version of the store it shows. The broadcaster
marshals (`Tick`) and sends (`Broadcast`) in two steps; the handler joins, sends
its first snapshot, and then receives, writes or leaves. A client may `Stall` (stop reading,
its buffers full) without leaving: then a write of the loop fails by its deadline, but the immediate one
(`ws.go:87`) has none, and such a client stays until its connection breaks.

**DaemonStop.** The metrics are a value that grows. A push in flight outlives the
client's timeout and even the process, and the gateway keeps what arrives last.
`hangs`, chosen at the start, says whether gateway and disk answer at all; `spoilt` is
a history variable that remembers what excuses old metrics at the gateway: a push that
was lost after the stop, or one from before it that was still on the wire.

**NetSnapshot.** One step for each thing `Collect` asks the system for, in its order,
and a network that may change in between (`Move`). A network stands for the address it
gives and for its router. `Blind` is the set of readings that may fail; link type
and hardware address of the interface are two of them. `seen` in a snapshot is a history field:
the networks the host has been in since it was begun. Detection before the gate and `envRefresher` both run it.

**Startup.** `pc` follows `setup`, `openICMP`, `collectNetInfo` (`Detect`, step by step), `Check` and
`startDaemon`; each probe of the gate is a step. A sample is the host it was measured
at, so that one can see what becomes of it under another table. `cfg` is the
configuration as written, `targets` that list with the gateway. `Travel` is the network,
`Stop` the end of the process, which forgets the snapshot. Hosts are addresses: a worker's lookup does not fail here
(it does in `PingStore`), and no sample finds the channel of the history full (it may in
`PingStore` and `HistoryRing`).

**HostStat.** `Start`, `List`, `Read` (the files of one interface), `Track` (both
trackers), `Load`; between them the host goes on. The kernel's iowait counter may go
down (`IowaitFalls`), and a load remembers whether it did between its two readings. One counter stands for received
and transmitted bytes. The files of one interface are read in one step, and
figures count as shown when the trackers return. A collection is in another unit
of time than the last.

## 3. The runs

| run | asks | size |
|---|---|---|
| `history_kill` | up to two kills, Close timeouts, failed writes or failed opens, two tables: shape of the ring, attribution, what a kill may lose, reuse of the file, and that the ring implements `HistoryLog` | ring of 2, queue of 1, 2 targets, 3 samples of each, 3 starts |
| `history_orderly` | without faults: replay in order, nothing accepted is stranded, a cancelled `Run` closes | 3 targets of which a table holds 2, 3 starts |
| `history_power` | losses of power: an orderly close is durable | 1 loss |
| `icmp_datagram` | late, doubled and reordered answers, numbers that wrap at 2 and are used again: a reply is one's own, or a whole round of the numbers late | 2 workers, 3 probes each, 2 answers to each echo, 2 waiting in a socket |
| `icmp_raw_cross` | a divergence, see below | |
| `scrape` | a worker delayed at every step, failing lookups, restarts, and scrapes between all of these: the window and its figures, totals of the session, pages that hold together, counters that only grow, a score that only falls | 1 worker, series of 3, 3 samples of each process, window of 1, 2 round-trip times |
| `ping_two` | two workers that keep up; lookups of one fail, samples of it are dropped, its socket may not open: the sink follows the store in all that reaches it, up goes down by a loss, silence is down | 2 workers, series and log of 2 |
| `trace_table` | two targets of one name, a router on the way of both, two routers at one distance, losses, a silent destination, failing DNS: rows add up, can be compared, names fit the hop, no lookup twice | 2 workers, 1 table, 2 hops, 2 times, 2 cycles |
| `stream_hub` | a client that stalls or leaves at any moment: no send on a closed channel, no gap, order, catching up, removal | 1 client, channel of 2, 4 changes |
| `daemon_stop` | two signals, two quit requests, gateway and disk that may hang: it stops, flushed and with its last metrics sent | 2 changes of the metrics |
| `startup` | edits of the configuration, a move between two routers and a modem in the middle of a collection or of a run, an egress address that may not be found, starts with and without ICMP and history: what a snapshot may hold, the gate, what is shown and recorded, whose samples a series holds | 5 configurations, 3 networks, 1 move, 2 starts, 2 samples of a process, a file of 2 records and 2 names, 2 probes of a check host |
| `host_stat` | an interface that flaps, goes and comes back during collections: real rates, full link history, loads that recover | 1 interface, 2 bytes, 4 collections |

**Why the bounds are enough.** A ring of two slots has every state that matters: empty,
partly full, full, wrapped, and a header that is behind by less than, exactly and
more than a revolution. Two tables suffice for a mismatch and for the way back;
the third start shows what the second one left. Sequence numbers are taken modulo 2 and each
worker sends three probes, so the third has the number of the first while answers to that are
still about. Such an answer, a whole round of the numbers late, is taken for the third's:
`ReplyIsOwn` allows that and nothing nearer, and for 65536 numbers a round is hours beyond
any timeout. Errors of routers are left to `icmp_raw_cross` and the proof. A series of three with a window of
one has recent, old and just expired samples, and replayed ones in front of them; it is
full, and pushes samples out, while a scrape is under way. Clients of the hub do not see each other,
so one is enough; a channel of two drops, and is refilled. Two trace workers are
what it takes to share a lookup and a table. Two signals are one more than the channel holds.
The configurations of `startup` differ in one thing each: a target more, put first; the
router named as a target; no gateway; nothing at all. With the gateway they make tables
shorter than, equal to and longer than what fits, and the second start meets the file of
the first under each of them. One move is enough to make any one reading of a collection
come from another network than the last; the three networks differ in what there is to
find (a gateway, another one, none). None of them gives the same names other hosts: the file
knows names only, and `StartupAway` below shows what follows.

**Type invariants.** Every module has its own proved (`IcmpProbe` with datagram
sockets); some runs check it besides.

**Deadlock.** Every configuration says `CHECK_DEADLOCK FALSE`: the bounds make
each of these models stop in the end (times, samples, faults and starts are used
up), and `DaemonStop` is about stopping. What must go on is stated as a liveness
property instead.

**Fairness.** Goroutines that can run do run (weak fairness of `Run`, of the
handlers, of main). Go's `select` picks at random among the ready cases, so a case
that is ready again and again is taken (strong fairness of the cases of `Run` and of
the hub's handler). Tickers fire (weak fairness of `Tick`). A write to a client that
reads ends, and one of the loop to a client that does not fails within the five seconds of its
deadline; nothing ends the immediate write to a client that stays without reading; a push ends by the timeout of its client, a
`Close` by its two seconds; a hanging gateway or disk owes nothing. No fairness is
asked of the network, of clients, of signals, or of a kernel that counts. In
`ping_two` workers that can run do so before time passes (`Prompt`): without that
no statement about 15 seconds could hold of any program.

## 4. The proofs

All of it for every value of the constants, under the assumptions the modules name.
Every safety invariant and every action property of the passing runs is stated by one
of these theorems. Where a theorem has a hypothesis, it is one the run with that
property also makes, and a configuration of section 5 mostly shows what happens
without it.

**The history ring** (`HistoryRing_proofs`). `NamesFit` says that no name is longer than
64 bytes.

* `TypeCorrect`, `RingShapeCorrect`: `Spec => []RingShape`. `Advance` keeps `head = count`
  until the ring is full; every header in the file was written from such a memory, or is
  the empty one of `reinit`. No assumption on names or faults is needed.
* `ReplayAttributesRightly`: with names that fit and no loss of power,
  `Spec => [](RightTarget /\ NoHoles)`, whatever is killed, fails or is reconfigured.
  `RightTarget` is not inductive: a restart reads what an earlier process left. The
  inductive invariant (`Attributed`) says of the ring in memory *and* of the ring the
  header in the file describes that each of its slots holds a record whose index points,
  in the table of that same ring, to its own target; and that while the process is up both
  have the same table. This is why `reinit` may leave the old records in their slots: it
  resets `count`, so none of them is in a ring, and writing moves `head` and `count` only
  over slots just written.
* `StopSavesRing`: with names that fit and writes that do not fail (or no faults at all),
  `Spec => [](StopIsDurable /\ UnsavedIsDirty)`. The inductive invariant (`Saved`)
  follows header and slots through flush, sync and close: the header in the file is
  that of the memory whenever `dirty` is not set, and after the last sync so is the disk.
* `KillKeepsFlushed`: with names that fit and no loss of power, a kill leaves as many
  samples as the header counts, each one of the ring: `Spec => []KillLosesOnlyUnflushed`.
  The invariant (`Dated`) dates all there is of a target: the records of a ring have times
  that differ and are over, and those in the queue are later and in order.
* `RestartKeepsRing`: with names that fit, `Spec => SameTableKeepsRing`; no header that
  the code writes is refused by the next start.
* `ReplayAscends`: where in addition nothing fails, `Spec => []ReplayInOrder`, over any
  number of revolutions and restarts (`Orderly`: `Saved`, and the ring is in the order of
  times). After a kill it is false, as `HistoryOrderKill` shows.
* `RingImplementsLog`: with names that fit and no loss of power, `Spec => ImplementsLog`:
  under the refinement mapping every step of the ring is a step of `HistoryLog` or a
  stutter. `LogRing` writes the abstract log as a function of head and count, so that
  each step can be compared with `Log`'s.

**Ping workers, series, the scrape** (`Scrape_proofs`). `OwnNames` says that no two
targets share a name; `PingSameName` shows what happens otherwise.

* `TypeCorrect` of `PingStore`; `ScrapesArePingStores`: `ScrapeSpec => Spec`, so that what
  is shown of `PingStore` holds under the scrape as well.
* `WindowIsWhole` (and `WindowIsWholeHere` for `ScrapeSpec`): with names of their own and
  no kill, `Spec => []RollupIsWindow`. The rollup walks from the newest sample to the first
  old one. `OrderInv` is why it misses none: series and log are in order of age, replayed
  samples included, and what a worker has stamped is not older than what its series holds.
* `DownByLoss`: where workers keep up (`Prompt`) and an interval and a timeout fit into the
  window, `Spec => GoesDownByLoss`. `TimeInv` bounds the age of the newest sample by what
  is left of the interval and of the probe at each place of the worker. TLC shows the bound
  to be tight: with `Interval + Timeout = Window + 1` it fails.
* `FiguresInOrder`: `Spec => []RollupInOrder`: minimum, mean, percentiles and maximum are in
  order for any samples, equal ones included. `Sorted` is defined by counting what is below;
  its lemmas (`SortedIs`, `RankIs`, `TotalIs`, `MeanIs`) are facts of any sequence.
* `SinkFollows`: with names of their own, kills and dropped samples allowed,
  `Spec => []SinkFollowsStore`. Of a target, what a restart would replay, with the sample on its
  way, and the samples of its series that are kept are both ends of one and the same series
  (`Following`), the one shorter only if the log is full, the other only if the ring is. So
  nothing but the samples dropped by `Append`, or passed by after a failed lookup, is missing. A
  kill ends the process and with it the series that could differ.
* `TotalsFit`, `PagesHold`, `CountersRun`, `ScrapeTypes`: `ScrapeSpec => []SessionAddsUp`,
  `[]PageHoldsTogether`, `CountersRunForward`, with any names and kills. `ScrapeInv` says
  of each series that its live samples are its last, as many as were sent up to the
  capacity (`Session`), and that neither a snapshot taken nor a page shown is ahead of
  it (`SnapFits`, `PageFits`, `Ahead`): more samples may have come since, and the
  difference of the two is what `since` counts.
* `ScoreOnlyFalls`: `ScrapeSpec => []ScoreFalls`. The delay rises over both slopes and the
  joint between them; the cubic of the score rises from R = 6.5 on, and below that it is
  under the 1 it is cut off to.

**Traces and names** (`TraceTable_proofs`).

* `TypeCorrect`, `FiguresAddUp` (`[]RowsAddUp`) and `ProbesFallAlongPath`
  (`[]SentFallsAlongPath`): `IInv` follows a cycle hop by hop and says of the table that
  rows near the start have been in at least as many cycles as rows behind them, and that the
  variance is at most a quarter of the square of the spread (`GoodRow` in `TableOK`). The floats'
  errors are constants of any size: mean and deviation are right up to them, and the root is
  never one of a negative number, because of the guard of `store.go:341`.
* `NeverTwice` and `NamesStay` (`DnsSpec`), `SharedNeverTwice` and `SharedNamesStay`
  (`Spec`): at most one lookup for an address, none once there is a result, and a name
  is never taken back; also among workers that share the cache, for every step of
  `TraceTable` is a step of `DnsCache` or leaves it alone (`StepIsDns`).
* `NamesFitHops`: `Spec => []NameFitsHop`, for paths that change as they like and targets that
  share a table: the address and the name of a row, merged one by one, are each of a router at
  that distance. That they are of the same router does not follow, and `TraceMoves` shows it.

**The start** (`Startup_proofs`). `IInv` is `TypeOK` with `NetInv` (what the snapshot being
made may hold after each reading, of the networks seen so far), `GateInv` (the results know
of an answer exactly if there was one) and `TableInv` (the targets are the configured ones
and at most the gateway; records point into the table of the file).

* `TypeCorrect`, `GateAdmitsTheHeard` (`[]GateIsHonest`), `SnapshotsAreRight`
  (`[]SnapshotIsRight`), `ShownIsKept` (`[]ShownIsRecorded`): for any configurations,
  networks, moves and blind readings.
* `SeriesKeepsItsHost`: where names tell the hosts (`NamesTell`: no target is named as the
  gateway is, and no two configurations with the same names give one of them two hosts),
  `Spec => []SeriesIsOfHost`. The file outlives the configuration it was begun with, so the
  invariant (`HostInv`) ties its records to that configuration; a start that takes it over
  has the same table. `StartupAway` shows what happens without the hypothesis.

**Probe, hub, stop, host.**

* `IcmpProbe_proofs!RepliesAreOwn`: with datagram sockets, and any number of probes,
  `Spec => [](TypeOK /\ ReplyIsOwn)`. The invariant (`TypeOK /\ Owned /\ ReplyIsOwn`): every
  message in a socket answers an echo of that socket, with that echo's number; an equal number
  means the same probe, or one a whole round of the numbers before (`SeqTellsProbes`).
* `StreamHub_proofs`: `BroadcastIsSafe` (`[]NeverSendsOnClosed`), `IdleClientIsCurrent`
  (`[]IdleIsCurrent`) and `UpdatesInOrder` (`[]QueueRunsForward`), for any clients. One
  invariant carries all three: `Placed` says where a handler must be for its client to be
  in the hub, and where for its channel to be closed;
  `Forward` that whatever is on its way to a client is sorted, from the update being
  written to the version of the store; `Fed` that the last thing a client of the hub has
  been sent, is being sent or is going to be sent is as new as the last broadcast, unless
  something was dropped for it. The gap between joining and the first
  snapshot is closed by `Fed` from the moment of joining.
* `DaemonStop_proofs!StopIsComplete`: `Spec => []ExitsComplete`, for any number of
  signals, quit requests and metrics. `Stopping` fixes the moment of the stop; `Reporting`
  follows the push of main, which is on the wire until it is answered, and says that
  after the stop nothing older is with it unless `spoilt`. `ExitsComplete` alone is not
  inductive: at the return the push is long over, and what keeps the gateway fresh then
  is that the wire holds nothing older.
* `HostStat_proofs`: `RatesAreReal` (`[]RateIsReal`) and `LoadsRecover`
  (`[]LoadRecovers`). What was carried when a counter began at zero (`Base`) only grows;
  `Ordered` says so of the reading remembered, the one just made and now. A positive
  difference of two readings is then never more than what was carried in between,
  whatever resets there were. `Stamped` ties the remembered CPU figures to the kernel's,
  so that no reading but the last is felt.
  `LinkHistoryKept`: `Spec => LinkHistory`; `Linked` ties what is shown of a link to what
  the tracker remembers, and the time of its last change to the count of changes.
* Every type invariant of these modules, `TypeCorrect`.

**Induction over data.** The library's theorems of induction take an operator as a
parameter and cannot be used here. Facts about sums and series are shown by the
least counterexample instead: a set of numbers that is not empty has a least element
(`LeastOfNats`, from the well-foundedness of `<`), and at it the recursive function is
unfolded once.

**Only model-checked**: liveness, since fairness and ENABLED are outside the prover:
`CancelledRunCloses` and `AcceptedIsReceived` of the history, `CatchesUp` and
`LeaverIsRemoved` of the hub, `StopEnds` of the daemon, `SilentIsDown` of the series.

## 5. Where code and words differ

One run is expected to fail, and PROJECT.json lists it as a finding:

* `icmp_raw_cross`: with raw sockets, a reply to another worker's echo with the
  same number is taken for one's own: neither id nor sender is compared
  (`socket_posix.go:121`, against `PLAN.md:159-160`).

Further configurations each show one more. They are kept beside the regular runs
for whoever changes that code; TLC finds each of them violated.

| configuration (module) | property | what it shows |
|---|---|---|
| `HistoryOrderKill` (`MCHistoryRing`) | `ReplayInOrder`, `OverwritesOldest` | after a kill the header of a full ring is older than its slots; `Replay` starts at the stale head and returns the newest samples first (`history.go:245`; "oldest-first", `236`), and the next write overwrites a newer sample than the oldest (`history.go:226`; `history.go:3-4`, `PLAN.md:453-454`) |
| `HistoryPowerTarget` | `RightTarget` | a new table's header may reach the disk while an old record stays in a slot it counts: shown under another target (`history.go:125`; `history_test.go:71`, `PLAN.md:461`) |
| `HistoryHeaderError` | `UnsavedIsDirty` | the flush tick clears `dirty` though the header write failed (`history.go:191`) |
| `HistoryLongName` | `SameTableKeepsRing` | a name of more than 64 bytes never equals its stored form: the ring is emptied at every restart (`history.go:111`; `49-50`, `history_test.go:61`) |
| `HistoryDrop` | `DropsOldest` | a full channel drops the newest sample (`history.go:157`; `PLAN.md:157`, `458-459`) |
| `ScrapeScore` (`MCScrape`) | `DownScoresLow` | a target that is down because it has no sample in the window scores as one without loss or delay: neither counts against it (`store.go:292-311`) |
| `PingSlow` (`MCPingStore`) | `GoesDownByLoss` | with an interval above 15 s a target that answers every probe is down in between (`store.go:309`; `metrics/collectors.go:29`) |
| `PingUnresolved` | `EverySampleIsKept` | a failed lookup is a sample in the store but not in the sink (`prober.go:79`; `:17`) |
| `PingKilled` | `RollupIsWindow` | replay out of order hides recent samples behind old ones (`store.go:282`; `154-155`) |
| `PingSameName` | `SeriesIsOfTarget` | two targets of one name share a series (`store.go:117`); validation does not reject them |
| `PingMoves` | `ShownIsProbed` | the address shown is the one of the start (`prober.go:77`; `PLAN.md:260`) |
| `DnsCacheForget` (`MCDnsCache`) | `NameIsLearned` | a failed lookup is remembered for ever (`dns.go:41`; `:21`) |
| `TraceMoves` (`MCTraceTable`) | `NameFitsAddress` | a row keeps the name of the router that was there before (`store.go:201`) |
| `TraceGhost` | `TableIsCurrent` | rows beyond the destination stay after one lost answer (`store.go:191`; `:190`, `PLAN.md:427`) |
| `StopLate` (`DaemonStop`) | `FinalPushStays` | an older push of the loop may arrive after the final one of main (`push.go:98`; `92-93`) |
| `StartupBlind` (`MCStartup`) | `RestartKeepsHistory` | one start does not find the gateway: its table differs and the file is emptied, though the configuration is the same (`daemon.go:46-57`, `history.go:105`; `PLAN.md:460-461`, `README.md:167-169`) |
| `StartupModem` | `RouteIsAgreed` | a default route without a gateway, as of a modem: the web API shows no default route, the metrics show one (`netinfo_linux.go:23-26`; `web/api.go:94`, `metrics/collectors.go:123-131`) |
| `StartupAway` | `GatewaySeriesIsOfHost`, `SeriesIsOfHost` | on another network the samples of the old gateway are replayed as those of the new one (`daemon.go:129-131`); so are those of a target whose host is edited and whose name is not |
| `HostIowait` (`HostStat`) | `LoadIsShare` | iowait may go down in Linux; the idle share then exceeds the total and the load leaves 0 to 1 (`hoststat_linux.go:129-135`; `metrics/collectors.go:165`) |

## 6. The plan

The order was: the history ring (what survives is what matters most), its promise
and proofs; the probe; the store on top of both; hub and stop, where goroutines meet;
traces; host statistics; the start; the scrape and the network snapshot, which read
what the others write. What is left:

1. Proofs: every safety invariant and action property of the runs is stated by a
   theorem now, and so is the refinement of `HistoryLog`. Liveness stays with TLC.
2. A quit during the start: `Startup` composed with `DaemonStop`, with the web server,
   the metrics and a signal between the root context and the workers.
   Known questions: a configuration with no check hosts is valid and never passes the
   gate (`validate.go:13`, `PLAN.md:25`); the comment at `connectivity.go:20` says `Err`
   is set when a host could not be probed at all, and the code sets it for any failed probe.
3. Configuration: what `Load` admits, as the set over which the constants of the other
   modules range.
4. The jitter and the sums of `Scrape`.

The list of runs is kept short; a new run takes the place of a weaker one, and a
property that is proved need not also be checked.

## 7. Not modelled

Windows ICMP, network detection and host statistics (calls of the system, no state of
their own); the list of interfaces and the host name of a network snapshot; `config` but
for what `Startup` takes of it; the collectors of the network and of the host, which
read one pointer each; `report`, `i18n`, `version`, `upload`, the web pages and API
(sequential and stateless); the metrics library; jitter, deviations and the verdict on gaming (floating-point
formulas without a state of their own); wireless signal and memory figures; TLS and
authentication of pushes; the shutdown of the web server, which main does not wait for.
