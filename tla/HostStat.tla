----------------------------- MODULE HostStat -----------------------------
(***************************************************************************)
(* Host statistics: the loop of internal/app/daemon.go that collects them  *)
(* (internal/hoststat, on Linux), the trackers that remember the last      *)
(* reading of every interface and of the CPU, and the snapshot the metrics *)
(* and the web UI read.                                                    *)
(*                                                                         *)
(* A collection is not one step: the clock is read, the directory of       *)
(* interfaces, then the files of each of them, while interfaces carry      *)
(* bytes, lose their link, go and come back with counters at zero.  The    *)
(* files of one interface are read in one step, and a figure counts as     *)
(* shown when the trackers return it.                                      *)
(* Received and transmitted bytes go the same way; one counter stands for  *)
(* both.                                                                   *)
(***************************************************************************)
EXTENDS Integers, FiniteSets

CONSTANTS
    Iface,       \* names of interfaces
    MaxTime,     \* bound: ticks of the clock
    MaxBytes,    \* bound: bytes carried by an interface
    MaxCpu,      \* bound: the sum of the counters of the CPU
    IowaitFalls, \* may the iowait counter of the kernel go down?
    None         \* a model value: not in a map, nothing stored

ASSUME HostAssumption ==
    {MaxTime, MaxBytes, MaxCpu} \subseteq Nat /\ IowaitFalls \in BOOLEAN

Never == -1      \* the zero time of the code

VARIABLES
    now,        \* the clock
    present,    \* interfaces in /sys/class/net
    link,       \* link[i]: the link is up
    bytes,      \* bytes[i]: its counter, from zero whenever it comes
    carried,    \* carried[i]: bytes carried in all, under this name
    cpu,        \* /proc/stat at its last reading: [busy, idle, iowait]
    pc,         \* where the collection is
    at,         \* CollectedAt of the snapshot being made
    todo,       \* listed interfaces whose files are still to be read
    read,       \* read[i]: [bytes, up, total] of those read, total as in carried
    linkStates, \* linkStates[i]
    rateStates, \* rateStates[i], with the bytes carried at its reading
    prevCpu,    \* prevIdle and prevTotal, with the iowait counter at that reading
    shown       \* the figures of the last collection to see i; and the load

host     == <<present, link, bytes, carried, cpu>>
trackers == <<linkStates, rateStates, prevCpu>>
vars     == <<now, present, link, bytes, carried, cpu, pc, at, todo, read,
              linkStates, rateStates, prevCpu, shown>>

----------------------------------------------------------------------------
(* The host.                                                               *)

Time ==
    /\ now < MaxTime /\ now' = now + 1
    /\ UNCHANGED <<host, pc, at, todo, read, trackers, shown>>

Carry(i) ==
    /\ i \in present /\ link[i] /\ carried[i] < MaxBytes
    /\ bytes' = [bytes EXCEPT ![i] = @ + 1]
    /\ carried' = [carried EXCEPT ![i] = @ + 1]
    /\ UNCHANGED <<now, present, link, cpu, pc, at, todo, read, trackers, shown>>

Flap(i) ==
    /\ i \in present
    /\ link' = [link EXCEPT ![i] = ~@]
    /\ UNCHANGED <<now, present, bytes, carried, cpu, pc, at, todo, read, trackers, shown>>

\* An interface goes: an adapter is pulled, a tunnel ends.
Unplug(i) ==
    /\ i \in present /\ present' = present \ {i}
    /\ UNCHANGED <<now, link, bytes, carried, cpu, pc, at, todo, read, trackers, shown>>

Plug(i) ==
    /\ i \notin present /\ present' = present \cup {i}
    /\ bytes' = [bytes EXCEPT ![i] = 0]
    /\ UNCHANGED <<now, link, carried, cpu, pc, at, todo, read, trackers, shown>>

----------------------------------------------------------------------------
(* Collect.                                                                *)

\* hostStatLoop collects, at once and then at ticks of its ticker; the snapshot is
\* stamped before anything is read.
Start ==
    /\ pc = "idle" /\ now > at
    /\ pc' = "list" /\ at' = now
    /\ UNCHANGED <<now, host, todo, read, trackers, shown>>

\* platformInterfaceCounters: the directory; without it the group is left out.
List ==
    /\ pc = "list"
    /\ \/ todo' = present /\ pc' = "read"
       \/ todo' = {} /\ pc' = "cpu"
    /\ UNCHANGED <<now, host, at, read, trackers, shown>>

\* The files of one interface.  If it has gone meanwhile, its counters read as
\* zero and its link as down.
Read(i) ==
    /\ pc = "read" /\ i \in todo
    /\ todo' = todo \ {i}
    /\ read' = [read EXCEPT ![i] =
         [bytes |-> IF i \in present THEN bytes[i] ELSE 0,
          up    |-> i \in present /\ link[i],
          total |-> carried[i]]]
    /\ UNCHANGED <<now, host, pc, at, trackers, shown>>

\* Mutant of Kept: what is known of an interface goes with it.
KeptPresent(states) == [i \in Iface |-> IF read[i] = None THEN None ELSE states[i]]

\* The maps keep what they know of interfaces that were not read.
Kept(states) == states

\* trackLink.
TrackLink(i) ==
    LET st == Kept(linkStates)[i]
        up == read[i].up
    IN  IF st = None THEN [up |-> up, last |-> Never, changes |-> 0]
        ELSE IF up = st.up THEN st
        ELSE [up |-> up, last |-> at, changes |-> st.changes + 1]

\* Mutant of Delta: a counter that went back is taken as it is.
DeltaAny(prev, rx) == IF rx >= prev THEN rx - prev ELSE prev - rx

\* A counter that went back gives no rate.
Delta(prev, rx) == IF rx >= prev THEN rx - prev ELSE 0

\* trackThroughput: bytes in a unit of time.
Rate(i) ==
    LET st == rateStates[i]
    IN  IF st = None \/ at <= st.at THEN 0
        ELSE Delta(st.bytes, read[i].bytes) \div (at - st.at)

\* The trackers are given all that was read.
Track ==
    /\ pc = "read" /\ todo = {}
    /\ linkStates' = [i \in Iface |-> IF read[i] = None THEN Kept(linkStates)[i] ELSE TrackLink(i)]
    /\ rateStates' = [i \in Iface |->
         IF read[i] = None THEN rateStates[i]
         ELSE [bytes |-> read[i].bytes, at |-> at, total |-> read[i].total]]
    /\ shown' = [shown EXCEPT !.ifs = [i \in Iface |->
         IF read[i] = None THEN @[i]
         ELSE [link |-> TrackLink(i), rate |-> Rate(i), at |-> at,
               dt |-> IF rateStates[i] = None THEN 0 ELSE at - rateStates[i].at,
               moved |-> read[i].total - (IF rateStates[i] = None THEN 0 ELSE rateStates[i].total)]]]
    /\ pc' = "cpu" /\ read' = [i \in Iface |-> None]
    /\ UNCHANGED <<now, host, at, todo, prevCpu>>

Total(c) == c.busy + c.idle + c.iowait

Counters ==
    {c \in [busy : 0 .. MaxCpu, idle : 0 .. MaxCpu, iowait : 0 .. MaxCpu] : Total(c) <= MaxCpu}

\* What the kernel may have counted since.  Its documentation allows iowait to go down.
Counted ==
    {c \in Counters : /\ c.busy >= cpu.busy /\ c.idle >= cpu.idle
                      /\ IowaitFalls \/ c.iowait >= cpu.iowait}

\* Mutant of Deltas: idle is not compared with the last reading.
DeltasIdle(prev, c) == [idle |-> c.idle, total |-> Total(c) - prev.total, fell |-> c.iowait < prev.iowait]

\* The differences (the code takes them modulo 2^64), and did iowait go down?
Deltas(prev, c) ==
    [idle |-> c.idle - prev.idle, total |-> Total(c) - prev.total, fell |-> c.iowait < prev.iowait]

\* The load of one reading, as the two differences it is made of, 1 - idle/total;
\* none if the total did not move.
LoadOf(c) ==
    IF prevCpu = None \/ Deltas(prevCpu, c).total = 0 THEN None ELSE Deltas(prevCpu, c)

\* platformResourcePressure, and Collect returns.  Without /proc/stat, nothing is
\* known or remembered; without /proc/meminfo, the load is thrown away but the
\* reading it came from is remembered.
Load ==
    /\ pc = "cpu" /\ pc' = "idle"
    /\ \/ \E c \in Counted :
            /\ cpu' = c
            /\ prevCpu' = [idle |-> c.idle, total |-> Total(c), iowait |-> c.iowait]
            /\ \E l \in {LoadOf(c), None} : shown' = [shown EXCEPT !.load = l]
       \/ shown' = [shown EXCEPT !.load = None] /\ UNCHANGED <<cpu, prevCpu>>
    /\ UNCHANGED <<now, present, link, bytes, carried, at, todo, read, linkStates, rateStates>>

----------------------------------------------------------------------------

Init ==
    /\ now = 0 /\ present \in SUBSET Iface /\ link \in [Iface -> BOOLEAN]
    /\ bytes = [i \in Iface |-> 0] /\ carried = [i \in Iface |-> 0]
    /\ cpu = [busy |-> 0, idle |-> 0, iowait |-> 0]
    /\ pc = "idle" /\ at = Never /\ todo = {} /\ read = [i \in Iface |-> None]
    /\ linkStates = [i \in Iface |-> None] /\ rateStates = [i \in Iface |-> None]
    /\ prevCpu = None
    /\ shown = [ifs |-> [i \in Iface |-> None], load |-> None]

Next ==
    \/ Time \/ Start \/ List \/ Track \/ Load
    \/ \E i \in Iface : Carry(i) \/ Flap(i) \/ Unplug(i) \/ Plug(i) \/ Read(i)

Spec == Init /\ [][Next]_vars

----------------------------------------------------------------------------
(* Properties.                                                             *)

LinkType == [up : BOOLEAN, last : Never .. MaxTime, changes : Nat]
ReadType == [bytes : 0 .. MaxBytes, up : BOOLEAN, total : 0 .. MaxBytes]
RateType == [bytes : 0 .. MaxBytes, at : 0 .. MaxTime, total : 0 .. MaxBytes]
ShowType == [link : LinkType, rate : Nat, at : 0 .. MaxTime, dt : 0 .. MaxTime, moved : 0 .. MaxBytes]
LoadType == [idle : Int, total : Int \ {0}, fell : BOOLEAN]

ASSUME NoneAssumption == None \notin LinkType

TypeOK ==
    /\ now \in 0 .. MaxTime /\ at \in Never .. now
    /\ present \subseteq Iface /\ todo \subseteq Iface /\ link \in [Iface -> BOOLEAN]
    /\ bytes \in [Iface -> 0 .. MaxBytes] /\ carried \in [Iface -> 0 .. MaxBytes]
    /\ pc \in {"idle", "list", "read", "cpu"}
    /\ cpu \in Counters /\ prevCpu \in {None} \cup [idle : Nat, total : Nat, iowait : Nat]
    /\ read \in [Iface -> {None} \cup ReadType]
    /\ linkStates \in [Iface -> {None} \cup LinkType]
    /\ rateStates \in [Iface -> {None} \cup RateType]
    /\ shown \in [ifs : [Iface -> {None} \cup ShowType], load : {None} \cup LoadType]

\* An alert on the link misses no change it could see: of two snapshots that show
\* an interface, whatever happened to it in between, the later one has no fewer
\* changes and no earlier last change; if the state differs it has more changes,
\* the last of them its own time; and an even number of changes leads back to
\* the same state (linktracker.go:21-40).
LinkHistory ==
    [][\A i \in Iface :
          shown.ifs[i] # None /\ shown.ifs'[i] # None =>
            LET old == shown.ifs[i].link
                new == shown'.ifs[i].link
            IN  /\ new.changes >= old.changes /\ new.last >= old.last
                /\ new.up # old.up <=> (new.changes - old.changes) % 2 = 1
                /\ new.up # old.up => new.last = shown'.ifs[i].at
                /\ new.last = Never <=> new.changes = 0]_shown

\* No rate shows more bytes than were carried between the two readings it is made
\* of, though interfaces vanish between the directory and their files, and come
\* back with counters at zero (throughput.go:21-45, hoststat_linux.go:23-37).
RateIsReal ==
    \A i \in Iface :
        LET s == shown.ifs[i] IN s # None => s.rate * s.dt <= s.moved

\* The load is a share of the time between the two readings it is made of unless
\* iowait went down just between them: neither an older fall, nor a reading that
\* failed, nor one whose load was thrown away, is ever felt again
\* (hoststat_linux.go:89-98, 115-135).
LoadRecovers ==
    shown.load # None /\ ~shown.load.fell =>
        0 <= shown.load.idle /\ shown.load.idle <= shown.load.total

\* The load is one minus the share of idle time, a figure from 0 to 1
\* (hoststat_linux.go:129-135, collectors.go:165).
LoadIsShare == shown.load # None => 0 <= shown.load.idle /\ shown.load.idle <= shown.load.total
=============================================================================
