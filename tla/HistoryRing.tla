---------------------------- MODULE HistoryRing ----------------------------
(***************************************************************************)
(* The on-disk sample ring of internal/history/history.go: the bounded     *)
(* channel that ping workers append to, the Run goroutine that drains it   *)
(* into fixed-size slots and flushes the header, Close, and what a restart *)
(* (Open, tryLoadHeader, reinit, Replay) finds after an orderly stop, a    *)
(* kill of the process or a loss of power.                                 *)
(*                                                                         *)
(* A sample is its target and its time, a number that grows per target:    *)
(* each target has one ping worker.  A record keeps the *index* of the     *)
(* target's name (id); tgt is the target that was measured, a history      *)
(* field that no action reads.  The file exists twice: hdr/slots is what   *)
(* the operating system shows, safeHdr/safeSlots what a loss of power      *)
(* leaves.  The capacity is that of the configured size, which does not    *)
(* change between starts.                                                  *)
(***************************************************************************)
EXTENDS Integers, Sequences, FiniteSets

CONSTANTS
    Target,       \* display names of targets
    Tables,       \* name tables (sequences of targets) a start may configure
    Stored,       \* Stored[n]: what nameSize = 64 bytes of the header keep of n
    MaxNames,     \* maxNames, 63 in the code
    Capacity,     \* number of record slots
    QueueCap,     \* capacity of h.ch, 256 in the code
    Bad,          \* a slot whose checksum is wrong: never written, or torn
    NoHeader,     \* a file without a header of this format
    MaxTime,      \* bound: samples of each target
    MaxFaults,    \* bound: kills, losses of power, failed writes and opens, Close timeouts
    MaxStarts,    \* bound: starts of the daemon
    PowerLoss,    \* may power be lost?
    WriteErrors   \* may WriteAt fail on an open file, or Open?

Id     == 1 .. MaxNames
Slot   == 0 .. Capacity - 1
Record == [id : Id, tgt : Target, t : Nat]
Names  == {s \in Seq(Target) : Len(s) <= MaxNames}
Header == [head : Slot, count : 0 .. Capacity, names : Names]

ASSUME SizesAssumption ==
    /\ MaxNames \in Nat \ {0} /\ Capacity \in Nat \ {0}
    /\ QueueCap \in Nat \ {0}
    /\ {MaxTime, MaxFaults, MaxStarts} \subseteq Nat
    /\ {PowerLoss, WriteErrors} \subseteq BOOLEAN
ASSUME NamesAssumption == Tables \subseteq Seq(Target) /\ Stored \in [Target -> Target]
ASSUME MarkersAssumption == Bad \notin Record /\ NoHeader \notin Header

VARIABLES
    pc,           \* the Run goroutine; "down" when there is no process
    cancelled,    \* the root context is cancelled
    fileOpen,     \* h.f is not yet closed by Close
    names,        \* h.names
    head, count,  \* h.head, h.count
    ch,           \* h.ch
    dirty,        \* Run's local dirty
    hdr, slots,           \* the file as read back by this or the next process
    safeHdr, safeSlots,   \* the part of it that survives a loss of power
    clock,        \* clock[n]: time of the last sample of n
    starts, faults

memory == <<names, head, count>>
file   == <<hdr, slots>>
safe   == <<safeHdr, safeSlots>>
bounds == <<starts, faults>>
vars   == <<pc, cancelled, fileOpen, memory, ch, dirty, file, safe, clock, bounds>>

up == pc # "down"

----------------------------------------------------------------------------
(* The header and the name table.                                          *)

\* names[:maxNames]
Cut(table) == SubSeq(table, 1, IF Len(table) > MaxNames THEN MaxNames ELSE Len(table))

\* writeHeader: the header for the given ring, names cut to their field.
HeaderOf(h, c, nm) ==
    [head |-> h, count |-> c, names |-> [i \in DOMAIN nm |-> Stored[nm[i]]]]

\* Mutants of Reusable: any table will do; a full ring is out of range.
ReusableAnyNames(h, nm) == h # NoHeader
ReusableNotFull(h, nm)  == h # NoHeader /\ h.names = nm /\ h.count < Capacity

\* tryLoadHeader: the stored names are compared with the configured ones.
Reusable(h, nm) ==
    /\ h # NoHeader
    /\ h.names = nm
    /\ h.head \in Slot /\ h.count \in 0 .. Capacity

\* h.nameID: the last index of a name, built in order by Open.
IndexesOf(n) == {i \in DOMAIN names : names[i] = n}
NameID(n) == CHOOSE i \in IndexesOf(n) : \A j \in IndexesOf(n) : j <= i

----------------------------------------------------------------------------
(* Replay.                                                                 *)

\* Mutants of ReplaySlot: always from the head; always from slot 0.
ReplaySlotFromHead(h, c, i) == (h + i) % Capacity
ReplaySlotFromZero(h, c, i) == i

ReplaySlot(h, c, i) == ((IF c < Capacity THEN 0 ELSE h) + i) % Capacity

\* The slots that Replay keeps of a ring, oldest first; the records whose
\* checksum or index is wrong are skipped.
ReplayOf(h, c, sl, nm) ==
    LET read == [i \in 1 .. c |-> sl[ReplaySlot(h, c, i - 1)]]
        kept[i \in 0 .. c] ==
            IF i = 0 THEN <<>>
            ELSE IF read[i] # Bad /\ read[i].id \in DOMAIN nm THEN Append(kept[i - 1], read[i])
            ELSE kept[i - 1]
    IN  kept[c]

Replay == ReplayOf(head, count, slots, names)

\* What the next start would replay if the process ended now.
Recoverable ==
    IF hdr = NoHeader THEN <<>> ELSE ReplayOf(hdr.head, hdr.count, slots, hdr.names)

----------------------------------------------------------------------------
(* Ping workers: SampleSink.Append.                                        *)

\* A worker hands over its next sample; a full channel drops it.  Nobody waits
\* for the workers at shutdown: they append until the process ends.
Sample(n) ==
    /\ up /\ clock[n] < MaxTime
    /\ clock' = [clock EXCEPT ![n] = @ + 1]
    /\ ch' = IF Len(ch) < QueueCap THEN Append(ch, [tgt |-> n, t |-> clock'[n]]) ELSE ch
    /\ UNCHANGED <<pc, cancelled, fileOpen, memory, dirty, file, safe, bounds>>

----------------------------------------------------------------------------
(* The Run goroutine.                                                      *)

Fault == faults < MaxFaults /\ faults' = faults + 1 /\ UNCHANGED starts

\* WriteAt succeeds on an open file; it fails on a closed one, or by a fault.
WriteSucceeds == fileOpen /\ UNCHANGED bounds
WriteFails    == \/ ~fileOpen /\ UNCHANGED bounds
                 \/ fileOpen /\ WriteErrors /\ Fault

NextSlot == (head + 1) % Capacity

\* Advance: the head moves on, the count grows up to the capacity.
Advance ==
    /\ head' = NextSlot
    /\ count' = IF count < Capacity THEN count + 1 ELSE count

\* A record of an unknown target, and one whose write fails, changes nothing.
WriteRefused(r) ==
    /\ \/ IndexesOf(r.tgt) = {} /\ UNCHANGED bounds
       \/ IndexesOf(r.tgt) # {} /\ WriteFails
    /\ UNCHANGED <<head, count>>

\* writeRecord: h.head moves only behind a record that is in the file.
WriteRecord(r) ==
    \/ WriteRefused(r) /\ UNCHANGED slots
    \/ /\ IndexesOf(r.tgt) # {} /\ WriteSucceeds
       /\ slots' = [slots EXCEPT ![head] = [id |-> NameID(r.tgt), tgt |-> r.tgt, t |-> r.t]]
       /\ Advance

\* Mutant of MarkDirty: a record leaves no trace in dirty.
MarkNothing == UNCHANGED dirty
MarkDirty   == dirty' = TRUE

\* A received record leaves the channel and marks the ring dirty, written or not.
Receive ==
    /\ ch # <<>> /\ ch' = Tail(ch)
    /\ WriteRecord(Head(ch))
    /\ MarkDirty
    /\ UNCHANGED <<pc, cancelled, fileOpen, names, hdr, safe, clock>>

\* The errors of writeHeader are discarded.
WriteHeader ==
    \/ WriteFails /\ UNCHANGED hdr
    \/ WriteSucceeds /\ hdr' = HeaderOf(head, count, names)

\* Mutant of Sync: the header only.
SyncHeaderOnly == IF fileOpen THEN safeHdr' = hdr /\ UNCHANGED safeSlots ELSE UNCHANGED safe

\* f.Sync, whose error is discarded too; it fails on a closed file.
Sync == IF fileOpen THEN safeHdr' = hdr /\ safeSlots' = slots ELSE UNCHANGED safe

\* The cases of Run's select, any of which may be taken when several are ready.
RunReceive == pc = "select" /\ Receive

RunTick ==
    /\ pc = "select" /\ dirty
    /\ WriteHeader
    /\ pc' = "flushed"
    /\ UNCHANGED <<cancelled, fileOpen, memory, ch, dirty, slots, safe, clock>>

ClearDirty == dirty' = FALSE

RunTickSync ==
    /\ pc = "flushed"
    /\ Sync
    /\ ClearDirty /\ pc' = "select"
    /\ UNCHANGED <<cancelled, fileOpen, memory, ch, file, clock, bounds>>

\* Mutant of AfterCancel: Run stops without draining.
AfterCancelStops == "lastSync"
AfterCancel      == "drain"

RunCancelled ==
    /\ pc = "select" /\ cancelled
    /\ pc' = AfterCancel
    /\ UNCHANGED <<cancelled, fileOpen, memory, ch, dirty, file, safe, clock, bounds>>

\* drain: until the channel is seen empty.
DrainReceive == pc = "drain" /\ Receive

\* Mutant of Drained: the receive has no default case.
DrainedNever == FALSE
Drained      == ch = <<>>

DrainDone ==
    /\ pc = "drain" /\ Drained
    /\ IF dirty THEN WriteHeader ELSE UNCHANGED <<hdr, bounds>>
    /\ pc' = "lastSync"
    /\ UNCHANGED <<cancelled, fileOpen, memory, ch, dirty, slots, safe, clock>>

LastSync ==
    /\ pc = "lastSync"
    /\ Sync
    /\ pc' = "closed"
    /\ UNCHANGED <<cancelled, fileOpen, memory, ch, dirty, file, clock, bounds>>

----------------------------------------------------------------------------
(* The daemon: cancellation, Close, the end of the process, the next start. *)

Cancel ==
    /\ up /\ ~cancelled
    /\ cancelled' = TRUE
    /\ UNCHANGED <<pc, fileOpen, memory, ch, dirty, file, safe, clock, bounds>>

\* Close, once h.closed is closed.
CloseAfterRun ==
    /\ cancelled /\ fileOpen /\ pc = "closed"
    /\ fileOpen' = FALSE
    /\ UNCHANGED <<pc, cancelled, memory, ch, dirty, file, safe, clock, bounds>>

\* Close after two seconds, while Run still drains or flushes.
CloseTimeout ==
    /\ up /\ cancelled /\ fileOpen /\ pc # "closed"
    /\ Fault
    /\ fileOpen' = FALSE
    /\ UNCHANGED <<pc, cancelled, memory, ch, dirty, file, safe, clock>>

\* The process ends and its memory goes with it.
Forget ==
    /\ pc' = "down" /\ cancelled' = FALSE /\ fileOpen' = FALSE
    /\ names' = <<>> /\ head' = 0 /\ count' = 0 /\ ch' = <<>> /\ dirty' = FALSE
    /\ UNCHANGED clock

Exit == up /\ cancelled /\ ~fileOpen /\ Forget /\ UNCHANGED <<file, safe, bounds>>
Kill == up /\ Fault /\ Forget /\ UNCHANGED <<file, safe>>

\* The operating system writes one dirty page back when it likes, in any order.
WriteBack ==
    /\ PowerLoss
    /\ \/ safeHdr' = hdr /\ UNCHANGED safeSlots
       \/ \E s \in Slot : safeSlots' = [safeSlots EXCEPT ![s] = slots[s]] /\ UNCHANGED safeHdr
    /\ UNCHANGED <<pc, cancelled, fileOpen, memory, ch, dirty, file, clock, bounds>>

\* A loss of power leaves what is on the disk; a record that was being written
\* may be torn.
PowerFail ==
    /\ PowerLoss /\ Fault /\ Forget
    /\ hdr' = safeHdr /\ UNCHANGED safeHdr
    /\ \E torn \in SUBSET {s \in Slot : slots[s] # safeSlots[s]} :
          slots' = [s \in Slot |-> IF s \in torn THEN Bad ELSE safeSlots[s]]
    /\ safeSlots' = slots'

\* Mutant of Reinit: the head that tryLoadHeader loaded is kept.
ReinitKeepsHead ==
    /\ head' = (IF hdr = NoHeader THEN 0 ELSE hdr.head) /\ count' = 0
    /\ hdr' = HeaderOf(head', 0, names')

\* reinit: the records of the old ring stay in their slots.
Reinit == head' = 0 /\ count' = 0 /\ hdr' = HeaderOf(0, 0, names')

\* Open with a configured table, then Run.  A file that cannot be reused is
\* reinitialised.
Start ==
    /\ pc = "down" /\ starts < MaxStarts
    /\ starts' = starts + 1
    /\ pc' = "select" /\ fileOpen' = TRUE
    /\ \E table \in Tables : names' = Cut(table)
    /\ IF Reusable(hdr, names')
       THEN /\ head' = hdr.head /\ count' = hdr.count
            /\ UNCHANGED hdr
       ELSE Reinit
    /\ UNCHANGED <<cancelled, ch, dirty, slots, safe, clock, faults>>

\* Open fails, at OpenFile or at the writes of reinit: the daemon goes on without
\* history until its next start, and the file stays what it was.
OpenFails ==
    /\ pc = "down" /\ starts < MaxStarts /\ WriteErrors /\ faults < MaxFaults
    /\ starts' = starts + 1 /\ faults' = faults + 1
    /\ UNCHANGED <<pc, cancelled, fileOpen, memory, ch, dirty, file, safe, clock>>

Init ==
    /\ pc = "down" /\ cancelled = FALSE /\ fileOpen = FALSE
    /\ names = <<>> /\ head = 0 /\ count = 0 /\ ch = <<>> /\ dirty = FALSE
    /\ hdr = NoHeader /\ slots = [s \in Slot |-> Bad]
    /\ safeHdr = NoHeader /\ safeSlots = [s \in Slot |-> Bad]
    /\ clock = [n \in Target |-> 0] /\ starts = 0 /\ faults = 0

Run == \/ RunReceive \/ RunTick \/ RunTickSync \/ RunCancelled
       \/ DrainReceive \/ DrainDone \/ LastSync

Next ==
    \/ \E n \in Target : Sample(n)
    \/ Run
    \/ Cancel \/ CloseAfterRun \/ CloseTimeout \/ Exit \/ Kill
    \/ WriteBack \/ PowerFail
    \/ Start \/ OpenFails

\* Run is a goroutine that is never starved, and Go's select picks among the
\* ready cases at random: no case that is ready again and again is passed over
\* for ever.  The flush ticker fires again and again.
Fairness ==
    /\ WF_vars(Run)
    /\ SF_vars(RunReceive) /\ SF_vars(RunTick) /\ SF_vars(RunCancelled)

Spec     == Init /\ [][Next]_vars
FairSpec == Spec /\ Fairness

----------------------------------------------------------------------------
(* Properties.                                                             *)

\* The variables have their types, in memory and in both copies of the file.
TypeOK ==
    /\ pc \in {"down", "select", "flushed", "drain", "lastSync", "closed"}
    /\ cancelled \in BOOLEAN /\ fileOpen \in BOOLEAN /\ dirty \in BOOLEAN
    /\ names \in Names /\ head \in Slot /\ count \in 0 .. Capacity
    /\ ch \in Seq([tgt : Target, t : Nat]) /\ Len(ch) <= QueueCap
    /\ hdr \in Header \cup {NoHeader} /\ safeHdr \in Header \cup {NoHeader}
    /\ slots \in [Slot -> Record \cup {Bad}] /\ safeSlots \in [Slot -> Record \cup {Bad}]
    /\ clock \in [Target -> Nat] /\ starts \in Nat /\ faults \in Nat

WellShaped(h, c) == c < Capacity => h = c

\* Until the ring is full the next slot is the number of records, in memory and
\* in every header a restart may load, whatever crashed in between: Replay
\* relies on it when it reads a ring that is not full from slot 0
\* (history.go:242-243), and the header that Open loads is not checked for it.
RingShape ==
    /\ WellShaped(head, count)
    /\ \A h \in {hdr, safeHdr} \ {NoHeader} : WellShaped(h.head, h.count)

\* Replay never shows a sample under the name of another target, though a record
\* keeps an index into a table that a restart may change, and reinit leaves the
\* records of the old table in their slots (history.go:123-129, 258-263).
RightTarget ==
    \A i \in 0 .. count - 1 :
        LET r == slots[ReplaySlot(head, count, i)]
        IN  r # Bad /\ r.id \in DOMAIN names => names[r.id] = r.tgt

\* No slot that the ring or the file's header counts is empty: a header is
\* never ahead of the records it counts (history.go:226-233).
NoHoles ==
    /\ \A i \in 0 .. count - 1 : slots[ReplaySlot(head, count, i)] # Bad
    /\ hdr # NoHeader =>
         \A i \in 0 .. hdr.count - 1 : slots[ReplaySlot(hdr.head, hdr.count, i)] # Bad

\* Once a full ring's header is in the file, a kill loses no sample of the ring,
\* however many were written since the last flush; before that it loses at most
\* those (history.go:175-192, 242-246).
KillLosesOnlyUnflushed ==
    up /\ Reusable(hdr, names) =>
        LET kept == {Recoverable[i] : i \in DOMAIN Recoverable}
            ring == {Replay[i] : i \in DOMAIN Replay}
        IN  kept \subseteq ring /\ Cardinality(kept) >= hdr.count

\* When Run says it has closed, the disk holds the ring of its memory: header
\* and records, with nothing left for a loss of power to take
\* (history.go:172-181).
StopIsDurable ==
    pc = "closed" /\ fileOpen =>
        /\ safeHdr = HeaderOf(head, count, names)
        /\ safeSlots = slots

\* A ring that Run does not remember as dirty has its header in the file
\* (history.go:186-191).
UnsavedIsDirty ==
    pc = "select" /\ ~dirty /\ fileOpen => hdr = HeaderOf(head, count, names)

\* Replay returns the samples of each target oldest first (history.go:236).
ReplayInOrder ==
    \A i, j \in DOMAIN Replay :
        i < j /\ names[Replay[i].id] = names[Replay[j].id] => Replay[i].t < Replay[j].t

\* A write into a full ring takes the place of the oldest sample of its target
\* (history.go:3-4, PLAN.md:453-454).
OverwritesOldest ==
    [][\A s \in Slot :
          up /\ pc' # "down" /\ slots'[s] # slots[s] /\ count = Capacity =>
              \A q \in Slot : slots[q].tgt = slots[s].tgt => slots[s].t <= slots[q].t]_vars

\* A restart with the table of the file keeps what the file holds: Open does not
\* reinitialise it (history.go:48-50, history_test.go:61-68).
SameTableKeepsRing ==
    [][pc = "down" /\ pc' = "select" /\ hdr # NoHeader
          /\ hdr.names = [i \in DOMAIN names' |-> Stored[names'[i]]]
       => count' = hdr.count /\ head' = hdr.head]_vars

\* A full channel makes room for the newest sample (PLAN.md:157, 458-459).
DropsOldest ==
    [][\A n \in Target : clock'[n] # clock[n] =>
          \E i \in DOMAIN ch' : ch'[i].tgt = n /\ ch'[i].t = clock'[n]]_vars

\* After the context is cancelled Run closes, or the process ends: a drain that
\* workers keep feeding still comes to its end (history.go:172-181, 197-207).
CancelledRunCloses == cancelled ~> pc \in {"closed", "down"}

\* A sample that is accepted before the cancellation is received, by the select
\* or by the drain; a ready tick or a cancellation does not strand it in the
\* channel (history.go:170-184, 197-207).
InChannel(r) == \E i \in DOMAIN ch : ch[i] = r
AcceptedIsReceived ==
    \A r \in [tgt : Target, t : 1 .. MaxTime] :
        ~cancelled /\ InChannel(r) ~> ~InChannel(r)

\* The ring implements the log: the samples that Replay shows, or would show.
Shown(r, nm) == [tgt |-> nm[r.id], t |-> r.t]
LogOf ==
    IF up THEN [i \in DOMAIN Replay |-> Shown(Replay[i], names)]
    ELSE [i \in DOMAIN Recoverable |-> Shown(Recoverable[i], hdr.names)]
TableOf == IF up THEN names ELSE IF hdr = NoHeader THEN <<>> ELSE hdr.names
Log == INSTANCE HistoryLog WITH
         Entry <- [tgt : Target, t : 1 .. MaxTime],
         log <- LogOf, table <- TableOf, Lossy <- MaxFaults > 0

\* The file ring is a log of the last Capacity samples written (PLAN.md:452-462).
ImplementsLog == Log!LogSpec
=============================================================================
