------------------------ MODULE HistoryRing_proofs ------------------------
(***************************************************************************)
(* Proofs about HistoryRing: the types and the shape of the ring under     *)
(* every fault; where no power is lost, that Replay shows each sample      *)
(* under its own target and finds no hole, that a restart takes over the   *)
(* ring and a kill loses only what no header counts, and that the ring     *)
(* implements the log of HistoryLog; where writes do not fail, that a stop *)
(* leaves the whole ring on the disk; and where nothing fails, that Replay *)
(* is in order.                                                            *)
(***************************************************************************)
EXTENDS HistoryRing, SequenceTheorems, FiniteSetTheorems, WellFoundedInduction, TLAPS

Sampled == [tgt : Target, t : Nat]

(***************************************************************************)
(* Least and greatest elements of sets of integers.                        *)
(***************************************************************************)

\* A set of naturals that is not empty has a least element.
LEMMA LeastOfNats ==
  ASSUME NEW T, T \subseteq Nat, T # {}
  PROVE  \E m \in T : \A k \in T : m <= k
  <1> DEFINE R == OpToRel(<, Nat)
  <1>1. IsWellFoundedOn(R, Nat)
    BY NatLessThanWellFounded
  <1>2. \E m \in T : \A k \in T : <<k, m>> \notin R
    <2> HIDE DEF R
    <2> QED BY <1>1, WFMin
  <1>3. PICK m \in T : \A k \in T : <<k, m>> \notin R
    BY <1>2
  <1>4. ASSUME NEW k \in T PROVE m <= k
    <2>1. m \in Nat /\ k \in Nat
      OBVIOUS
    <2>2. ~(k < m)
      BY <1>3, <2>1 DEF OpToRel
    <2> QED BY <2>1, <2>2
  <1> QED BY <1>4

\* A set of integers between bounds that is not empty has a greatest element.
LEMMA GreatestOfInterval ==
  ASSUME NEW n \in Nat, NEW T, T \subseteq 0 .. n, T # {}
  PROVE  \E m \in T : \A k \in T : k <= m
  <1> DEFINE FromEnd == {k \in Nat : n - k \in T}
  <1>1. FromEnd \subseteq Nat /\ FromEnd # {}
    <2>1. PICK x \in T : TRUE
      OBVIOUS
    <2>2. x \in 0 .. n /\ n - x \in Nat /\ n - (n - x) = x
      BY <2>1
    <2> QED BY <2>1, <2>2
  <1>2. PICK m \in FromEnd : \A k \in FromEnd : m <= k
    <2> HIDE DEF FromEnd
    <2> QED BY <1>1, LeastOfNats
  <1>3. ASSUME NEW k \in T PROVE k <= n - m
    <2>1. k \in 0 .. n /\ n - k \in Nat /\ n - (n - k) = k
      OBVIOUS
    <2>2. m <= n - k /\ m \in Nat
      BY <1>2, <2>1
    <2> QED BY <2>1, <2>2
  <1> QED BY <1>2, <1>3

(***************************************************************************)
(* Lemmas about the operators.                                             *)
(***************************************************************************)

\* Cutting a configured table to maxNames yields a table (history.go:52-54).
LEMMA CutType == ASSUME NEW table \in Tables PROVE Cut(table) \in Names
  <1> USE SizesAssumption, NamesAssumption
  <1>1. table \in Seq(Target) /\ Len(table) \in Nat
    OBVIOUS
  <1>2. CASE Len(table) > MaxNames
    BY <1>1, <1>2 DEF Cut, Names
  <1>3. CASE ~(Len(table) > MaxNames)
    BY <1>1, <1>3 DEF Cut, Names
  <1> QED BY <1>2, <1>3

\* The header of a ring is a header (history.go:131-150).
LEMMA HeaderType ==
  ASSUME NEW h \in Slot, NEW c \in 0 .. Capacity, NEW nm \in Names
  PROVE  HeaderOf(h, c, nm) \in Header
  <1> DEFINE st == [i \in DOMAIN nm |-> Stored[nm[i]]]
  <1>1. DOMAIN nm = 1 .. Len(nm) /\ Len(nm) \in Nat /\ \A i \in 1 .. Len(nm) : nm[i] \in Target
    BY DEF Names
  <1>2. st \in Seq(Target)
    BY <1>1, NamesAssumption
  <1>3. Len(st) = Len(nm)
    BY <1>1, <1>2
  <1>4. st \in Names
    BY <1>2, <1>3 DEF Names
  <1> QED BY <1>4 DEF HeaderOf, Header

\* The index of a target of the table points back at it (history.go:72-74).
LEMMA NameIDPoints ==
  ASSUME names \in Names, NEW n \in Target, IndexesOf(n) # {}
  PROVE  NameID(n) \in Id /\ NameID(n) \in DOMAIN names /\ names[NameID(n)] = n
  <1>1. DOMAIN names = 1 .. Len(names) /\ Len(names) \in 0 .. MaxNames
    BY SizesAssumption DEF Names
  <1>2. \E i \in IndexesOf(n) : \A j \in IndexesOf(n) : j <= i
    <2>1. IndexesOf(n) \subseteq 0 .. Len(names) /\ Len(names) \in Nat
      BY <1>1, SizesAssumption DEF IndexesOf
    <2> QED BY <2>1, GreatestOfInterval
  <1>3. NameID(n) \in IndexesOf(n)
    BY <1>2 DEF NameID
  <1> QED BY <1>1, <1>3, SizesAssumption DEF IndexesOf, Id

\* The slots that Replay reads (history.go:240-249).
Live(h, c) == IF c < Capacity THEN 0 .. c - 1 ELSE Slot

\* Replay reads the live slots and no other (history.go:247-249).
LEMMA ReplayReadsLive ==
  ASSUME NEW h \in Slot, NEW c \in 0 .. Capacity, NEW i \in 0 .. c - 1
  PROVE  ReplaySlot(h, c, i) \in Live(h, c) /\ ReplaySlot(h, c, i) \in Slot
  <1> USE SizesAssumption DEF Slot
  <1>1. CASE c < Capacity
    <2>1. i \in 0 .. Capacity - 1 /\ (0 + i) % Capacity = i
      BY <1>1
    <2> QED BY <1>1, <2>1 DEF ReplaySlot, Live
  <1>2. CASE ~(c < Capacity)
    <2>1. h + i \in Nat /\ (h + i) % Capacity \in 0 .. Capacity - 1
      BY <1>2
    <2> QED BY <1>2, <2>1 DEF ReplaySlot, Live
  <1> QED BY <1>1, <1>2

\* The next head is a slot, and the one after the head until the ring wraps
\* (history.go:230).
LEMMA NextSlotType ==
  ASSUME head \in Slot
  PROVE  NextSlot \in Slot /\ (head + 1 < Capacity => NextSlot = head + 1)
  BY SizesAssumption DEF Slot, NextSlot

(***************************************************************************)
(* Type correctness.                                                       *)
(***************************************************************************)

\* The initial state has the types.
LEMMA TypeInit == Init => TypeOK
  <1> SUFFICES ASSUME Init PROVE TypeOK
    OBVIOUS
  <1> USE SizesAssumption DEF Init
  <1>1. names \in Names /\ head \in Slot /\ count \in 0 .. Capacity
    BY DEF Names, Slot
  <1>2. ch \in Seq([tgt : Target, t : Nat]) /\ Len(ch) <= QueueCap
    OBVIOUS
  <1>3. slots \in [Slot -> Record \cup {Bad}] /\ safeSlots \in [Slot -> Record \cup {Bad}]
    OBVIOUS
  <1>4. clock \in [Target -> Nat]
    OBVIOUS
  <1> QED BY <1>1, <1>2, <1>3, <1>4 DEF TypeOK

\* The bounds stay natural numbers: what a fault, or no fault, does to them.
LEMMA BoundsType ==
  ASSUME TypeOK, Fault \/ UNCHANGED bounds
  PROVE  starts' \in Nat /\ faults' \in Nat
  BY DEF TypeOK, Fault, bounds

\* writeRecord of a received sample keeps the ring and the slots typed.
LEMMA WriteRecordType ==
  ASSUME TypeOK, NEW r \in Sampled, WriteRecord(r), UNCHANGED names
  PROVE  /\ head' \in Slot /\ count' \in 0 .. Capacity
         /\ slots' \in [Slot -> Record \cup {Bad}]
         /\ starts' \in Nat /\ faults' \in Nat
  <1>1. CASE WriteRefused(r) /\ UNCHANGED slots
    <2>1. Fault \/ UNCHANGED bounds
      BY <1>1 DEF WriteRefused, WriteFails
    <2> QED BY <1>1, <2>1, BoundsType DEF WriteRefused, TypeOK
  <1>2. CASE /\ IndexesOf(r.tgt) # {} /\ WriteSucceeds
             /\ slots' = [slots EXCEPT ![head] = [id |-> NameID(r.tgt), tgt |-> r.tgt, t |-> r.t]]
             /\ Advance
    <2>1. [id |-> NameID(r.tgt), tgt |-> r.tgt, t |-> r.t] \in Record
      <3>1. r.tgt \in Target /\ r.t \in Nat
        BY DEF Sampled
      <3>2. names \in Names
        BY DEF TypeOK
      <3>3. NameID(r.tgt) \in Id
        BY <1>2, <3>1, <3>2, NameIDPoints
      <3> QED BY <3>1, <3>3 DEF Record
    <2>2. head' \in Slot /\ count' \in 0 .. Capacity
      BY <1>2, NextSlotType, SizesAssumption DEF Advance, TypeOK
    <2>3. slots' \in [Slot -> Record \cup {Bad}]
      BY <1>2, <2>1 DEF TypeOK
    <2>4. starts' \in Nat /\ faults' \in Nat
      BY <1>2 DEF WriteSucceeds, bounds, TypeOK
    <2> QED BY <2>2, <2>3, <2>4
  <1> QED BY <1>1, <1>2 DEF WriteRecord

\* Receiving from the channel keeps every type.
LEMMA ReceiveType ==
  ASSUME TypeOK, Receive, pc' = pc
  PROVE  TypeOK'
  <1>1. Head(ch) \in Sampled /\ Tail(ch) \in Seq(Sampled) /\ Len(Tail(ch)) = Len(ch) - 1
    BY HeadTailProperties DEF TypeOK, Receive, Sampled
  <1>2. Len(ch) \in Nat /\ Len(ch) - 1 <= QueueCap
    BY SizesAssumption DEF TypeOK
  <1>3. /\ head' \in Slot /\ count' \in 0 .. Capacity
        /\ slots' \in [Slot -> Record \cup {Bad}]
        /\ starts' \in Nat /\ faults' \in Nat
    BY <1>1, WriteRecordType DEF Receive
  <1>4. ch' \in Seq(Sampled) /\ Len(ch') <= QueueCap
    BY <1>1, <1>2 DEF Receive
  <1>5. /\ UNCHANGED <<pc, cancelled, fileOpen, names, hdr, safeHdr, safeSlots, clock>>
        /\ dirty' \in BOOLEAN
    BY DEF Receive, MarkDirty, safe
  <1> QED BY <1>3, <1>4, <1>5 DEF TypeOK, Sampled

\* Writing the header, or failing to, keeps the header typed.
LEMMA WriteHeaderType ==
  ASSUME TypeOK, WriteHeader
  PROVE  hdr' \in Header \cup {NoHeader} /\ starts' \in Nat /\ faults' \in Nat
  <1>1. CASE WriteFails /\ UNCHANGED hdr
    <2>1. Fault \/ UNCHANGED bounds
      BY <1>1 DEF WriteFails
    <2> QED BY <1>1, <2>1, BoundsType DEF TypeOK
  <1>2. CASE WriteSucceeds /\ hdr' = HeaderOf(head, count, names)
    <2>1. hdr' \in Header
      BY <1>2, HeaderType DEF TypeOK
    <2> QED BY <1>2, <2>1 DEF WriteSucceeds, bounds, TypeOK
  <1> QED BY <1>1, <1>2 DEF WriteHeader

\* The end of a process leaves typed memory behind.
LEMMA ForgetType ==
  ASSUME TypeOK, Forget
  PROVE  /\ pc' = "down" /\ cancelled' \in BOOLEAN /\ fileOpen' \in BOOLEAN
         /\ names' \in Names /\ head' \in Slot /\ count' \in 0 .. Capacity
         /\ ch' \in Seq([tgt : Target, t : Nat]) /\ Len(ch') <= QueueCap
         /\ dirty' \in BOOLEAN /\ clock' \in [Target -> Nat]
  <1> USE SizesAssumption
  <1>1. names' \in Names /\ head' \in Slot /\ count' \in 0 .. Capacity
    BY DEF Forget, Names, Slot
  <1>2. ch' \in Seq([tgt : Target, t : Nat]) /\ Len(ch') <= QueueCap
    BY DEF Forget
  <1> QED BY <1>1, <1>2 DEF Forget, TypeOK

\* A start loads a typed ring, or makes an empty one.
LEMMA StartType ==
  ASSUME TypeOK, Start
  PROVE  TypeOK'
  <1>1. names' \in Names
    BY CutType DEF Start
  <1>2. /\ head' \in Slot /\ count' \in 0 .. Capacity
        /\ hdr' \in Header \cup {NoHeader}
    <2>1. CASE Reusable(hdr, names')
      BY <2>1 DEF Start, Reusable, TypeOK
    <2>2. CASE ~Reusable(hdr, names')
      <3>1. Reinit
        BY <2>2 DEF Start
      <3>2. 0 \in Slot /\ 0 \in 0 .. Capacity
        BY SizesAssumption DEF Slot
      <3>3. HeaderOf(0, 0, names') \in Header
        BY <1>1, <3>2, HeaderType
      <3> QED BY <3>1, <3>2, <3>3 DEF Reinit
    <2> QED BY <2>1, <2>2
  <1>3. /\ pc' = "select" /\ fileOpen' = TRUE
        /\ UNCHANGED <<cancelled, ch, dirty, slots, safeHdr, safeSlots, clock>>
        /\ starts' \in Nat /\ faults' \in Nat
    BY DEF Start, TypeOK, safe
  <1> QED BY <1>1, <1>2, <1>3 DEF TypeOK

\* Every step keeps the types.
LEMMA TypeNext == ASSUME TypeOK, [Next]_vars PROVE TypeOK'
  <1> USE DEF memory, file, safe, bounds
  <1>1. ASSUME NEW n \in Target, Sample(n) PROVE TypeOK'
    <2>1. clock' \in [Target -> Nat] /\ clock'[n] \in Nat
      BY <1>1 DEF Sample, TypeOK
    <2>2. ch' \in Seq([tgt : Target, t : Nat]) /\ Len(ch') <= QueueCap
      <3>1. [tgt |-> n, t |-> clock'[n]] \in [tgt : Target, t : Nat]
        BY <2>1
      <3>2. CASE Len(ch) < QueueCap
        <4>1. ch' = Append(ch, [tgt |-> n, t |-> clock'[n]])
          BY <1>1, <3>2 DEF Sample
        <4>2. /\ ch' \in Seq([tgt : Target, t : Nat]) /\ Len(ch') = Len(ch) + 1
              /\ Len(ch) \in Nat
          BY <3>1, <4>1, AppendProperties DEF TypeOK
        <4> QED BY <3>2, <4>2, SizesAssumption
      <3>3. CASE ~(Len(ch) < QueueCap)
        BY <1>1, <3>3 DEF Sample, TypeOK
      <3> QED BY <3>2, <3>3
    <2> QED BY <1>1, <2>1, <2>2 DEF Sample, TypeOK
  <1>2. CASE RunReceive
    BY <1>2, ReceiveType DEF RunReceive, Receive
  <1>3. CASE RunTick
    BY <1>3, WriteHeaderType DEF RunTick, TypeOK
  <1>4. CASE RunTickSync
    BY <1>4 DEF RunTickSync, Sync, ClearDirty, TypeOK
  <1>5. CASE RunCancelled
    BY <1>5 DEF RunCancelled, AfterCancel, TypeOK
  <1>6. CASE DrainReceive
    BY <1>6, ReceiveType DEF DrainReceive, Receive
  <1>7. CASE DrainDone
    BY <1>7, WriteHeaderType DEF DrainDone, TypeOK
  <1>8. CASE LastSync
    BY <1>8 DEF LastSync, Sync, TypeOK
  <1>9. CASE Cancel
    BY <1>9 DEF Cancel, TypeOK
  <1>10. CASE CloseAfterRun
    BY <1>10 DEF CloseAfterRun, TypeOK
  <1>11. CASE CloseTimeout
    BY <1>11, BoundsType DEF CloseTimeout, TypeOK
  <1>12. CASE Exit
    BY <1>12, ForgetType DEF Exit, TypeOK
  <1>13. CASE Kill
    BY <1>13, ForgetType, BoundsType DEF Kill, TypeOK
  <1>14. CASE WriteBack
    BY <1>14 DEF WriteBack, TypeOK
  <1>15. CASE PowerFail
    <2>1. slots' \in [Slot -> Record \cup {Bad}]
      BY <1>15 DEF PowerFail, TypeOK
    <2> QED BY <1>15, <2>1, ForgetType, BoundsType DEF PowerFail, TypeOK
  <1>16. CASE Start
    BY <1>16, StartType
  <1>17. CASE OpenFails
    BY <1>17 DEF OpenFails, TypeOK
  <1>18. CASE UNCHANGED vars
    BY <1>18 DEF vars, TypeOK
  <1> QED
    BY <1>1, <1>2, <1>3, <1>4, <1>5, <1>6, <1>7, <1>8, <1>9, <1>10, <1>11, <1>12,
       <1>13, <1>14, <1>15, <1>16, <1>17, <1>18 DEF Next, Run

\* The types hold in every state, whatever fails (history.go).
THEOREM TypeCorrect == Spec => []TypeOK
  BY TypeInit, TypeNext, PTL DEF Spec

(***************************************************************************)
(* The shape of the ring.                                                  *)
(***************************************************************************)

\* Advancing keeps the shape: the next slot is the number of records until the
\* ring is full (history.go:230-233).
LEMMA AdvanceShape ==
  ASSUME TypeOK, WellShaped(head, count), Advance
  PROVE  WellShaped(head', count')
  <1>1. head \in Slot /\ count \in 0 .. Capacity /\ Capacity \in Nat \ {0}
    BY SizesAssumption DEF TypeOK
  <1>2. CASE count' < Capacity
    <2>1. count < Capacity /\ count' = count + 1 /\ head = count /\ head + 1 < Capacity
      BY <1>1, <1>2 DEF Advance, WellShaped
    <2> QED BY <1>1, <2>1, NextSlotType DEF Advance, WellShaped
  <1> QED BY <1>2 DEF WellShaped

LEMMA WriteRecordShape ==
  ASSUME TypeOK, NEW r, WellShaped(head, count), WriteRecord(r)
  PROVE  WellShaped(head', count')
  BY AdvanceShape DEF WriteRecord, WriteRefused

\* The header of a ring has its head and its count.
LEMMA WriteHeaderShape ==
  ASSUME RingShape, WriteHeader
  PROVE  hdr' # NoHeader => WellShaped(hdr'.head, hdr'.count)
  BY DEF WriteHeader, HeaderOf, RingShape

\* Every step keeps the shape, in memory and in both copies of the file.
LEMMA ShapeNext == ASSUME TypeOK, RingShape, [Next]_vars PROVE RingShape'
  <1> USE DEF memory, file, safe, bounds
  <1> DEFINE Shaped(h) == h # NoHeader => WellShaped(h.head, h.count)
  <1>a. RingShape <=> WellShaped(head, count) /\ Shaped(hdr) /\ Shaped(safeHdr)
    BY DEF RingShape
  <1>b. RingShape' <=> WellShaped(head', count') /\ Shaped(hdr') /\ Shaped(safeHdr')
    BY DEF RingShape
  <1>1. ASSUME NEW n \in Target, Sample(n) PROVE RingShape'
    BY <1>1 DEF Sample, RingShape
  <1>2. CASE Receive
    BY <1>2, <1>a, <1>b, WriteRecordShape DEF Receive
  <1>3. CASE RunTick
    BY <1>3, <1>a, <1>b, WriteHeaderShape DEF RunTick
  <1>4. CASE RunTickSync
    BY <1>4, <1>a, <1>b DEF RunTickSync, Sync
  <1>5. CASE RunCancelled
    BY <1>5 DEF RunCancelled, RingShape
  <1>6. CASE DrainDone
    BY <1>6, <1>a, <1>b, WriteHeaderShape DEF DrainDone
  <1>7. CASE LastSync
    BY <1>7, <1>a, <1>b DEF LastSync, Sync
  <1>8. CASE Cancel \/ CloseAfterRun \/ CloseTimeout
    BY <1>8 DEF Cancel, CloseAfterRun, CloseTimeout, RingShape
  <1>9. CASE Exit \/ Kill
    BY <1>9, <1>a, <1>b DEF Exit, Kill, Forget, WellShaped
  <1>10. CASE WriteBack
    BY <1>10, <1>a, <1>b DEF WriteBack
  <1>11. CASE PowerFail
    BY <1>11, <1>a, <1>b DEF PowerFail, Forget, WellShaped
  <1>12. CASE Start
    <2>1. CASE Reusable(hdr, names')
      BY <1>12, <2>1, <1>a, <1>b DEF Start, Reusable
    <2>2. CASE ~Reusable(hdr, names')
      BY <1>12, <2>2, <1>a, <1>b DEF Start, Reinit, HeaderOf, WellShaped
    <2> QED BY <2>1, <2>2
  <1>13. CASE OpenFails \/ UNCHANGED vars
    BY <1>13 DEF OpenFails, vars, RingShape
  <1> QED
    BY <1>1, <1>2, <1>3, <1>4, <1>5, <1>6, <1>7, <1>8, <1>9, <1>10, <1>11, <1>12, <1>13
    DEF Next, Run, RunReceive, DrainReceive

\* The ring keeps its shape through every fault, losses of power included: what
\* Open loads without checking is right (history.go:115-120, 242-243).
THEOREM RingShapeCorrect == Spec => []RingShape
  <1>1. Init => RingShape
    BY DEF Init, RingShape, WellShaped
  <1> QED BY <1>1, TypeInit, TypeNext, ShapeNext, PTL DEF Spec

(***************************************************************************)
(* Without a loss of power, Replay finds no hole and attributes every      *)
(* sample rightly.                                                         *)
(***************************************************************************)

\* Every live slot holds a record that the table decodes to its own target.
Sound(h, c, nm) ==
    \A s \in Live(h, c) :
        /\ slots[s] # Bad /\ slots[s].id \in DOMAIN nm
        /\ nm[slots[s].id] = slots[s].tgt

\* The strengthening: the rings of the memory and of the file are sound for the
\* one table that both have while the process is up; the file's is still sound
\* for its own table when the process is down, which is what the next start
\* relies on when it reuses the file.
Attributed ==
    /\ up => hdr # NoHeader /\ hdr.names = names /\ Sound(head, count, names)
    /\ ~up => count = 0
    /\ hdr # NoHeader => Sound(hdr.head, hdr.count, hdr.names)

\* Advancing makes at most the old head live (history.go:226-233).
LEMMA AdvanceLive ==
  ASSUME TypeOK, RingShape, Advance
  PROVE  Live(head', count') \subseteq Live(head, count) \cup {head}
  <1>1. /\ head \in Slot /\ count \in 0 .. Capacity /\ Capacity \in Nat \ {0}
        /\ WellShaped(head, count)
    BY SizesAssumption DEF TypeOK, RingShape
  <1>2. CASE count < Capacity
    <2>1. head = count /\ count' = count + 1
      BY <1>1, <1>2 DEF Advance, WellShaped
    <2>2. CASE count' < Capacity
      BY <1>1, <1>2, <2>1, <2>2 DEF Live
    <2>3. CASE ~(count' < Capacity)
      BY <1>1, <1>2, <2>1, <2>3 DEF Live, Slot
    <2> QED BY <2>2, <2>3
  <1>3. CASE ~(count < Capacity)
    BY <1>1, <1>3 DEF Live, Advance, Slot
  <1> QED BY <1>2, <1>3

\* writeRecord leaves a record of the table's own in the one slot it writes.
LEMMA WriteRecordSound ==
  ASSUME TypeOK, RingShape, NEW r \in Sampled, WriteRecord(r),
         NEW h, NEW c, Live(h, c) \subseteq Slot,
         Sound(h, c, names)
  PROVE  /\ \A s \in Live(h, c) :
               /\ slots'[s] # Bad /\ slots'[s].id \in DOMAIN names
               /\ names[slots'[s].id] = slots'[s].tgt
         /\ Advance => /\ slots'[head] # Bad /\ slots'[head].id \in DOMAIN names
                       /\ names[slots'[head].id] = slots'[head].tgt
                    \/ UNCHANGED <<head, count>>
  <1>1. CASE WriteRefused(r) /\ UNCHANGED slots
    BY <1>1 DEF WriteRefused, Sound
  <1>2. CASE /\ IndexesOf(r.tgt) # {}
             /\ slots' = [slots EXCEPT ![head] = [id |-> NameID(r.tgt), tgt |-> r.tgt, t |-> r.t]]
    <2> DEFINE rec == [id |-> NameID(r.tgt), tgt |-> r.tgt, t |-> r.t]
    <2>1. r.tgt \in Target /\ r.t \in Nat /\ names \in Names
      BY DEF Sampled, TypeOK
    <2>2. NameID(r.tgt) \in Id /\ NameID(r.tgt) \in DOMAIN names /\ names[NameID(r.tgt)] = r.tgt
      BY <1>2, <2>1, NameIDPoints
    <2>3. rec \in Record /\ rec # Bad
      BY <2>1, <2>2, MarkersAssumption DEF Record
    <2>4. \A s \in Slot : slots'[s] = IF s = head THEN rec ELSE slots[s]
      BY <1>2 DEF TypeOK
    <2>5. head \in Slot
      BY DEF TypeOK
    <2> QED BY <2>2, <2>3, <2>4, <2>5 DEF Sound
  <1> QED BY <1>1, <1>2 DEF WriteRecord

\* Receiving keeps both rings sound.
LEMMA ReceiveAttributed ==
  ASSUME TypeOK, RingShape, Attributed, Receive, up, UNCHANGED pc
  PROVE  Attributed'
  <1>1. Head(ch) \in Sampled
    BY HeadTailProperties DEF TypeOK, Receive, Sampled
  <1>2. UNCHANGED <<names, hdr>> /\ WriteRecord(Head(ch))
    BY DEF Receive
  <1>3. hdr \in Header /\ hdr.names = names
    BY DEF Attributed, TypeOK
  <1>4. hdr.head \in Slot /\ hdr.count \in 0 .. Capacity /\ head \in Slot /\ count \in 0 .. Capacity
    BY <1>3 DEF Header, TypeOK
  <1>5. Live(head, count) \subseteq Slot /\ Live(hdr.head, hdr.count) \subseteq Slot
    BY <1>4, SizesAssumption DEF Live, Slot
  <1>6. Sound(hdr.head, hdr.count, hdr.names)'
    <2>1. Sound(hdr.head, hdr.count, names)
      BY <1>3 DEF Attributed
    <2> QED BY <1>1, <1>2, <1>3, <1>5, <2>1, WriteRecordSound DEF Sound, Live
  <1>7. Sound(head, count, names)'
    <2>1. Sound(head, count, names)
      BY DEF Attributed
    <2>2. CASE UNCHANGED <<head, count>>
      BY <1>1, <1>2, <1>5, <2>1, <2>2, WriteRecordSound DEF Sound, Live
    <2>3. CASE Advance /\ ~UNCHANGED <<head, count>>
      <3>1. Live(head', count') \subseteq Live(head, count) \cup {head}
        BY <2>3, AdvanceLive
      <3>2. /\ \A s \in Live(head, count) \cup {head} :
                  /\ slots'[s] # Bad /\ slots'[s].id \in DOMAIN names
                  /\ names[slots'[s].id] = slots'[s].tgt
        BY <1>1, <1>2, <1>5, <2>1, <2>3, WriteRecordSound
      <3>3. Live(head, count)' = Live(head', count')
        BY DEF Live
      <3> QED BY <1>2, <3>1, <3>2, <3>3 DEF Sound
    <2> QED BY <1>2, <2>2, <2>3 DEF WriteRecord, WriteRefused
  <1> QED BY <1>2, <1>3, <1>6, <1>7 DEF Attributed, up

\* The names of the table all fit into their field of 64 bytes.
NamesFit == \A n \in Target : Stored[n] = n

\* A header keeps a table whose names fit as it is (history.go:140-147).
LEMMA HeaderKeepsNames ==
  ASSUME NamesFit, NEW h, NEW c, NEW nm \in Names
  PROVE  HeaderOf(h, c, nm).names = nm
  <1>1. nm \in Seq(Target) /\ nm = [i \in DOMAIN nm |-> nm[i]]
    BY DEF Names
  <1>2. \A i \in DOMAIN nm : Stored[nm[i]] = nm[i]
    BY <1>1 DEF NamesFit
  <1>3. [i \in DOMAIN nm |-> Stored[nm[i]]] = [i \in DOMAIN nm |-> nm[i]]
    BY <1>2
  <1> QED BY <1>1, <1>3 DEF HeaderOf

\* Writing the header gives the file's ring the soundness of the memory's.
LEMMA WriteHeaderAttributed ==
  ASSUME NamesFit, TypeOK, Attributed, up, WriteHeader,
         UNCHANGED <<memory, slots>>, pc' # "down"
  PROVE  Attributed'
  <1>1. CASE UNCHANGED hdr
    BY <1>1 DEF Attributed, up, memory, Sound, Live
  <1>2. CASE hdr' = HeaderOf(head, count, names)
    <2>1. HeaderOf(head, count, names) # NoHeader
      BY HeaderType, MarkersAssumption DEF TypeOK
    <2>2. hdr'.head = head /\ hdr'.count = count /\ hdr'.names = names
      BY <1>2, HeaderKeepsNames DEF HeaderOf, TypeOK
    <2> QED BY <1>2, <2>1, <2>2 DEF Attributed, up, memory, Sound, Live
  <1> QED BY <1>1, <1>2 DEF WriteHeader

\* A start is sound: it reuses a ring only with the table of its header, and an
\* empty ring has no live slot.
LEMMA StartAttributed ==
  ASSUME NamesFit, TypeOK, Attributed, Start
  PROVE  Attributed'
  <1>1. pc' = "select" /\ UNCHANGED slots /\ names' \in Names
    BY CutType DEF Start
  <1>2. CASE Reusable(hdr, names')
    BY <1>1, <1>2 DEF Start, Reusable, Attributed, up, Sound, Live
  <1>3. CASE ~Reusable(hdr, names')
    <2>1. head' = 0 /\ count' = 0 /\ hdr' = HeaderOf(0, 0, names')
      BY <1>3 DEF Start, Reinit
    <2>2. HeaderOf(0, 0, names') # NoHeader
      <3>1. 0 \in Slot /\ 0 \in 0 .. Capacity
        BY SizesAssumption DEF Slot
      <3> QED BY <1>1, <3>1, HeaderType, MarkersAssumption
    <2>3. hdr'.head = 0 /\ hdr'.count = 0 /\ hdr'.names = names'
      BY <1>1, <2>1, HeaderKeepsNames DEF HeaderOf
    <2>4. Live(0, 0) = {}
      BY SizesAssumption DEF Live
    <2> QED BY <1>1, <2>1, <2>2, <2>3, <2>4 DEF Attributed, up, Sound, Live
  <1> QED BY <1>2, <1>3

LEMMA AttributedNext ==
  ASSUME NamesFit, PowerLoss = FALSE, TypeOK, RingShape, Attributed, [Next]_vars
  PROVE  Attributed'
  <1> USE DEF memory, file, safe, bounds
  <1> DEFINE Kept == UNCHANGED <<names, head, count, hdr, slots>>
  <1>0. ASSUME Kept, up' = up PROVE Attributed'
    BY <1>0 DEF Attributed, Sound, Live
  <1>1. ASSUME NEW n \in Target, Sample(n) PROVE Attributed'
    BY <1>1, <1>0 DEF Sample, up
  <1>2. CASE RunReceive \/ DrainReceive
    BY <1>2, ReceiveAttributed DEF RunReceive, DrainReceive, Receive, up
  <1>3. CASE RunTick
    BY <1>3, WriteHeaderAttributed DEF RunTick, up
  <1>4. CASE RunTickSync \/ RunCancelled \/ LastSync
    BY <1>4, <1>0 DEF RunTickSync, RunCancelled, LastSync, AfterCancel, up
  <1>5. CASE DrainDone
    <2>1. CASE dirty
      BY <1>5, <2>1, WriteHeaderAttributed DEF DrainDone, up
    <2>2. CASE ~dirty
      BY <1>5, <2>2, <1>0 DEF DrainDone, up
    <2> QED BY <2>1, <2>2
  <1>6. CASE Cancel \/ CloseAfterRun \/ CloseTimeout
    BY <1>6, <1>0 DEF Cancel, CloseAfterRun, CloseTimeout, up
  <1>7. CASE Exit \/ Kill
    BY <1>7 DEF Exit, Kill, Forget, Attributed, up, Sound, Live
  <1>8. CASE WriteBack \/ PowerFail
    BY <1>8 DEF WriteBack, PowerFail
  <1>9. CASE Start
    BY <1>9, StartAttributed
  <1>10. CASE OpenFails \/ UNCHANGED vars
    BY <1>10, <1>0 DEF OpenFails, vars, up
  <1> QED
    BY <1>1, <1>2, <1>3, <1>4, <1>5, <1>6, <1>7, <1>8, <1>9, <1>10 DEF Next, Run

\* What the strengthening says of Replay.
LEMMA AttributedImplies ==
  ASSUME TypeOK, Attributed
  PROVE  RightTarget /\ NoHoles
  <1>1. \A i \in 0 .. count - 1 :
           LET r == slots[ReplaySlot(head, count, i)]
           IN  r # Bad /\ (up => r.id \in DOMAIN names /\ names[r.id] = r.tgt) /\ up
    <2> SUFFICES ASSUME NEW i \in 0 .. count - 1
                 PROVE  LET r == slots[ReplaySlot(head, count, i)]
                        IN  r # Bad /\ (up => r.id \in DOMAIN names /\ names[r.id] = r.tgt) /\ up
      OBVIOUS
    <2>1. up
      BY DEF Attributed, TypeOK
    <2>2. ReplaySlot(head, count, i) \in Live(head, count)
      BY ReplayReadsLive DEF TypeOK
    <2> QED BY <2>1, <2>2 DEF Attributed, Sound
  <1>2. ASSUME hdr # NoHeader, NEW i \in 0 .. hdr.count - 1
        PROVE  slots[ReplaySlot(hdr.head, hdr.count, i)] # Bad
    <2>1. hdr.head \in Slot /\ hdr.count \in 0 .. Capacity
      BY <1>2 DEF TypeOK, Header
    <2>2. ReplaySlot(hdr.head, hdr.count, i) \in Live(hdr.head, hdr.count)
      BY <2>1, ReplayReadsLive
    <2> QED BY <1>2, <2>2 DEF Attributed, Sound
  <1> QED BY <1>1, <1>2 DEF RightTarget, NoHoles

\* Where names fit their field and no power is lost, kills, failed writes and
\* changes of the table never make Replay show a sample under another name, or
\* count a slot without a record (history.go:209-234, 258-263).
THEOREM ReplayAttributesRightly ==
  ASSUME NamesFit, PowerLoss = FALSE
  PROVE  Spec => [](RightTarget /\ NoHoles)
  <1>1. Init => Attributed
    BY DEF Init, Attributed, up
  <1>2. TypeOK /\ RingShape /\ Attributed /\ [Next]_vars => Attributed'
    BY AttributedNext
  <1>3. TypeOK /\ Attributed => RightTarget /\ NoHoles
    BY AttributedImplies
  <1> QED BY <1>1, <1>2, <1>3, TypeCorrect, RingShapeCorrect, PTL DEF Spec

(***************************************************************************)
(* Without failed writes, an orderly stop leaves the ring on the disk.     *)
(***************************************************************************)

InFile == hdr = HeaderOf(head, count, names)

\* The strengthening follows the header from the tick that writes it, through
\* the sync that clears dirty, to the last sync of Run.
Saved ==
    fileOpen =>
        /\ pc \in {"select", "drain"} /\ ~dirty => InFile
        /\ pc \in {"flushed", "lastSync"} => InFile
        /\ pc = "closed" => InFile /\ safeHdr = hdr /\ safeSlots = slots

LEMMA HeaderWritten ==
  ASSUME WriteErrors = FALSE \/ MaxFaults = 0, TypeOK,
         WriteHeader, UNCHANGED memory, fileOpen
  PROVE  InFile'
  <1>1. ~(WriteErrors /\ Fault)
    BY DEF Fault, TypeOK
  <1> QED BY <1>1 DEF WriteHeader, WriteFails, InFile, HeaderOf, memory

\* The header that a start loads or writes is that of its ring.
LEMMA StartSaved ==
  ASSUME NamesFit, TypeOK, Start
  PROVE  InFile'
  <1>1. names' \in Names
    BY CutType DEF Start
  <1>2. CASE Reusable(hdr, names')
    <2>1. /\ hdr \in Header /\ hdr' = hdr
          /\ head' = hdr.head /\ count' = hdr.count /\ names' = hdr.names
      BY <1>2 DEF Start, Reusable, TypeOK
    <2>2. hdr = [head |-> hdr.head, count |-> hdr.count, names |-> hdr.names]
      BY <2>1 DEF Header
    <2>3. HeaderOf(head', count', names').names = names'
      BY <1>1, HeaderKeepsNames
    <2>4. HeaderOf(head', count', names')
            = [head |-> head', count |-> count', names |-> names']
      BY <2>3 DEF HeaderOf
    <2>5. InFile' = (hdr' = HeaderOf(head', count', names'))
      BY DEF InFile, HeaderOf
    <2> QED BY <2>1, <2>2, <2>4, <2>5
  <1>3. CASE ~Reusable(hdr, names')
    BY <1>3 DEF Start, Reinit, InFile, HeaderOf
  <1> QED BY <1>2, <1>3

LEMMA SavedNext ==
  ASSUME NamesFit, WriteErrors = FALSE \/ MaxFaults = 0, TypeOK, Saved, [Next]_vars
  PROVE  Saved'
  <1> USE DEF memory, file, safe, bounds
  <1>0. ASSUME UNCHANGED <<names, head, count, hdr>> PROVE InFile' = InFile
    BY <1>0 DEF InFile, HeaderOf
  <1>1. ASSUME NEW n \in Target, Sample(n) PROVE Saved'
    BY <1>1, <1>0 DEF Sample, Saved
  <1>2. CASE RunReceive \/ DrainReceive
    BY <1>2 DEF RunReceive, DrainReceive, Receive, MarkDirty, Saved
  <1>3. CASE RunTick
    BY <1>3, HeaderWritten DEF RunTick, Saved
  <1>4. CASE RunTickSync
    BY <1>4, <1>0 DEF RunTickSync, Saved
  <1>5. CASE RunCancelled
    BY <1>5, <1>0 DEF RunCancelled, AfterCancel, Saved
  <1>6. CASE DrainDone
    <2>1. CASE dirty
      BY <1>6, <2>1, HeaderWritten DEF DrainDone, Saved
    <2>2. CASE ~dirty
      BY <1>6, <2>2, <1>0 DEF DrainDone, Saved
    <2> QED BY <2>1, <2>2
  <1>7. CASE LastSync
    BY <1>7, <1>0 DEF LastSync, Sync, Saved
  <1>8. CASE Cancel
    BY <1>8, <1>0 DEF Cancel, Saved
  <1>9. CASE CloseAfterRun \/ CloseTimeout
    BY <1>9 DEF CloseAfterRun, CloseTimeout, Saved
  <1>10. CASE Exit \/ Kill \/ PowerFail
    BY <1>10 DEF Exit, Kill, PowerFail, Forget, Saved
  <1>11. CASE WriteBack
    <2>1. CASE pc = "closed" /\ fileOpen
      <3>1. safeHdr = hdr /\ safeSlots = slots
        BY <2>1 DEF Saved
      <3>2. safeHdr' = hdr /\ safeSlots' = slots
        BY <1>11, <3>1 DEF WriteBack, TypeOK
      <3> QED BY <1>11, <2>1, <3>2, <1>0 DEF WriteBack, Saved
    <2>2. CASE ~(pc = "closed" /\ fileOpen)
      BY <1>11, <2>2, <1>0 DEF WriteBack, Saved
    <2> QED BY <2>1, <2>2
  <1>12. CASE Start
    BY <1>12, StartSaved DEF Start, Saved
  <1>13. CASE OpenFails \/ UNCHANGED vars
    BY <1>13, <1>0 DEF OpenFails, vars, Saved
  <1> QED
    BY <1>1, <1>2, <1>3, <1>4, <1>5, <1>6, <1>7, <1>8, <1>9, <1>10, <1>11, <1>12, <1>13
    DEF Next, Run

\* When Run has closed before Close timed out, header and records of the ring are
\* on the disk, and a ring that is not dirty never owes its header
\* (history.go:161-195).
THEOREM StopSavesRing ==
  ASSUME NamesFit, WriteErrors = FALSE \/ MaxFaults = 0
  PROVE  Spec => [](StopIsDurable /\ UnsavedIsDirty)
  <1>1. Init => Saved
    BY DEF Init, Saved
  <1>2. TypeOK /\ Saved /\ [Next]_vars => Saved'
    BY SavedNext
  <1>3. Saved => StopIsDurable /\ UnsavedIsDirty
    BY DEF Saved, InFile, StopIsDurable, UnsavedIsDirty
  <1> QED BY <1>1, <1>2, <1>3, TypeCorrect, PTL DEF Spec

(***************************************************************************)
(* The order in which Replay reads the slots.                              *)
(***************************************************************************)

\* A position counted from the head, modulo the number of slots.
LEMMA WrapOnce ==
  ASSUME NEW x \in 0 .. 2 * Capacity - 1
  PROVE  x % Capacity = IF x < Capacity THEN x ELSE x - Capacity
  <1> USE SizesAssumption
  <1>1. CASE x < Capacity
    BY <1>1
  <1>2. CASE ~(x < Capacity)
    <2>1. x - Capacity \in 0 .. Capacity - 1 /\ x = Capacity * 1 + (x - Capacity)
      BY <1>2
    <2> QED BY <1>2, <2>1
  <1> QED BY <1>1, <1>2

\* Until the ring wraps, Replay reads slot after slot from the first; then it
\* begins at the head and goes round (history.go:242-249).
LEMMA ReadSlot ==
  ASSUME NEW h \in Slot, NEW c \in 0 .. Capacity, NEW i \in 0 .. c - 1
  PROVE  ReplaySlot(h, c, i) = IF c < Capacity THEN i
                               ELSE IF h + i < Capacity THEN h + i ELSE h + i - Capacity
  <1> USE SizesAssumption
  <1>1. CASE c < Capacity
    <2>1. i \in 0 .. 2 * Capacity - 1 /\ 0 + i = i /\ i < Capacity
      BY <1>1
    <2>2. (0 + i) % Capacity = i
      BY <2>1
    <2> QED BY <1>1, <2>2 DEF ReplaySlot
  <1>2. CASE ~(c < Capacity)
    <2>1. h + i \in 0 .. 2 * Capacity - 1
      BY <1>2 DEF Slot
    <2>2. (h + i) % Capacity = IF h + i < Capacity THEN h + i ELSE h + i - Capacity
      <3> DEFINE x == h + i
      <3>1. x \in 0 .. 2 * Capacity - 1
        BY <2>1
      <3> HIDE DEF x
      <3>2. x % Capacity = IF x < Capacity THEN x ELSE x - Capacity
        BY <3>1, WrapOnce
      <3> QED BY <3>2 DEF x, Slot
    <2>3. ReplaySlot(h, c, i) = (h + i) % Capacity
      BY <1>2 DEF ReplaySlot
    <2> QED BY <1>2, <2>2, <2>3
  <1> QED BY <1>1, <1>2

\* It reads every live slot once.
LEMMA ReadsEachOnce ==
  ASSUME NEW h \in Slot, NEW c \in 0 .. Capacity
  PROVE  /\ \A i, j \in 0 .. c - 1 : i # j => ReplaySlot(h, c, i) # ReplaySlot(h, c, j)
         /\ \A s \in Live(h, c) : \E i \in 0 .. c - 1 : ReplaySlot(h, c, i) = s
  <1> USE SizesAssumption DEF Slot
  <1>1. ASSUME NEW i \in 0 .. c - 1, NEW j \in 0 .. c - 1, i # j
        PROVE  ReplaySlot(h, c, i) # ReplaySlot(h, c, j)
    <2> HIDE DEF Slot
    <2>1. ReplaySlot(h, c, j) = IF c < Capacity THEN j
                                ELSE IF h + j < Capacity THEN h + j ELSE h + j - Capacity
      BY ReadSlot
    <2>2. ReplaySlot(h, c, i) = IF c < Capacity THEN i
                                ELSE IF h + i < Capacity THEN h + i ELSE h + i - Capacity
      BY ReadSlot
    <2> QED BY <1>1, <2>1, <2>2 DEF Slot
  <1>2. ASSUME NEW s \in Live(h, c)
        PROVE  \E i \in 0 .. c - 1 : ReplaySlot(h, c, i) = s
    <2>1. CASE c < Capacity
      <3>1. s \in 0 .. c - 1
        BY <2>1 DEF Live
      <3> QED BY <2>1, <3>1, ReadSlot
    <2>2. CASE ~(c < Capacity)
      <3> DEFINE i == IF s >= h THEN s - h ELSE s - h + Capacity
      <3>1. s \in 0 .. Capacity - 1 /\ c = Capacity
        BY <2>2 DEF Live
      <3>2. i \in 0 .. c - 1 /\ s = IF h + i < Capacity THEN h + i ELSE h + i - Capacity
        BY <3>1
      <3> QED BY <2>2, <3>2, ReadSlot
    <2> QED BY <2>1, <2>2
  <1> QED BY <1>1, <1>2

\* After a record has been written at the head Replay reads it last, and before it
\* what it read before, but for the oldest record of a full ring (history.go:226-249).
LEMMA AdvanceReads ==
  ASSUME TypeOK, RingShape, Advance, UNCHANGED names
  PROVE  LET k == IF count < Capacity THEN 0 ELSE 1
         IN  /\ count' = count + 1 - k /\ count' \in 1 .. Capacity /\ head' \in Slot
             /\ \A i \in 0 .. count' - 2 :
                  /\ i + k \in 0 .. count - 1
                  /\ ReplaySlot(head', count', i) = ReplaySlot(head, count, i + k)
                  /\ ReplaySlot(head', count', i) # head
             /\ ReplaySlot(head', count', count' - 1) = head
  <1> USE SizesAssumption
  <1>1. /\ head \in 0 .. Capacity - 1 /\ count \in 0 .. Capacity
        /\ (count < Capacity => head = count)
    BY DEF TypeOK, RingShape, WellShaped, Slot
  <1>2. /\ head' = IF head + 1 < Capacity THEN head + 1 ELSE 0
        /\ count' = IF count < Capacity THEN count + 1 ELSE count
    <2>1. head + 1 \in 0 .. 2 * Capacity - 1
      BY <1>1
    <2> QED BY <1>1, <2>1, WrapOnce DEF Advance, NextSlot
  <1>3. head' \in Slot /\ count' \in 1 .. Capacity /\ head \in Slot
    BY <1>1, <1>2 DEF Slot
  <1>4. \A i \in 0 .. count' - 1 :
           ReplaySlot(head', count', i) = IF count' < Capacity THEN i
              ELSE IF head' + i < Capacity THEN head' + i ELSE head' + i - Capacity
    <2>1. count' \in 0 .. Capacity
      BY <1>3
    <2> QED BY <1>3, <2>1, ReadSlot
  <1>5. \A i \in 0 .. count - 1 :
           ReplaySlot(head, count, i) = IF count < Capacity THEN i
              ELSE IF head + i < Capacity THEN head + i ELSE head + i - Capacity
    BY <1>1, <1>3, ReadSlot
  <1> DEFINE k == IF count < Capacity THEN 0 ELSE 1
  <1>6. count' = count + 1 - k
    BY <1>1, <1>2
  <1>7. ASSUME NEW i \in 0 .. count' - 2
        PROVE  /\ i + k \in 0 .. count - 1
               /\ ReplaySlot(head', count', i) = ReplaySlot(head, count, i + k)
               /\ ReplaySlot(head', count', i) # head
    <2>1. i \in 0 .. count' - 1 /\ i + k \in 0 .. count - 1
      BY <1>1, <1>3, <1>6
    <2>2. ReplaySlot(head', count', i) = IF count' < Capacity THEN i
              ELSE IF head' + i < Capacity THEN head' + i ELSE head' + i - Capacity
      BY <2>1, <1>4
    <2>3. ReplaySlot(head, count, i + k) = IF count < Capacity THEN i + k
              ELSE IF head + (i + k) < Capacity THEN head + (i + k) ELSE head + (i + k) - Capacity
      BY <2>1, <1>5
    <2> QED BY <1>1, <1>2, <2>1, <2>2, <2>3
  <1>8. ReplaySlot(head', count', count' - 1) = head
    <2>1. count' - 1 \in 0 .. count' - 1
      BY <1>1, <1>2
    <2>2. ReplaySlot(head', count', count' - 1) = IF count' < Capacity THEN count' - 1
              ELSE IF head' + (count' - 1) < Capacity THEN head' + (count' - 1)
              ELSE head' + (count' - 1) - Capacity
      BY <2>1, <1>4
    <2> QED BY <1>1, <1>2, <2>2
  <1> QED BY <1>3, <1>6, <1>7, <1>8

\* Where no record is skipped, Replay yields the records as it reads them.
LEMMA ReplayAll ==
  ASSUME NEW h, NEW c \in Nat, NEW sl, NEW nm,
         \A i \in 0 .. c - 1 : /\ sl[ReplaySlot(h, c, i)] # Bad
                               /\ sl[ReplaySlot(h, c, i)].id \in DOMAIN nm
  PROVE  ReplayOf(h, c, sl, nm) = [i \in 1 .. c |-> sl[ReplaySlot(h, c, i - 1)]]
  <1> DEFINE read == [i \in 1 .. c |-> sl[ReplaySlot(h, c, i - 1)]]
             Step(f, i) == IF i = 0 THEN <<>>
                           ELSE IF read[i] # Bad /\ read[i].id \in DOMAIN nm
                                THEN Append(f[i - 1], read[i])
                                ELSE f[i - 1]
             Upto == [i \in 0 .. c |-> [j \in 1 .. i |-> read[j]]]
             kept == CHOOSE f : f = [i \in 0 .. c |-> Step(f, i)]
  <1>1. ASSUME NEW i \in 1 .. c PROVE read[i] # Bad /\ read[i].id \in DOMAIN nm
    <2>1. i - 1 \in 0 .. c - 1
      OBVIOUS
    <2> QED BY <2>1
  <1> HIDE DEF read
  <1>2. ASSUME NEW i \in 1 .. c
        PROVE  Append([j \in 1 .. i - 1 |-> read[j]], read[i]) = [j \in 1 .. i |-> read[j]]
    <2> DEFINE s == [j \in 1 .. i - 1 |-> read[j]]
               R == {read[j] : j \in 1 .. c}
    <2>1. s \in Seq(R) /\ Len(s) = i - 1 /\ read[i] \in R
      OBVIOUS
    <2> QED BY <2>1
  <1>3. \A i \in 0 .. c : Upto[i] = Step(Upto, i)
    <2>a. [j \in 1 .. 0 |-> read[j]] = <<>>
      OBVIOUS
    <2>b. Upto[0] = Step(Upto, 0)
      BY <2>a
    <2> SUFFICES ASSUME NEW i \in 0 .. c, i # 0 PROVE Upto[i] = Step(Upto, i)
      BY <2>b
    <2>1. i \in 1 .. c /\ i - 1 \in 0 .. c
      OBVIOUS
    <2> QED BY <1>1, <1>2, <2>1
  <1>4. Upto = [i \in 0 .. c |-> Step(Upto, i)]
    <2>1. Upto = [i \in 0 .. c |-> Upto[i]]
      OBVIOUS
    <2> HIDE DEF Upto, Step
    <2> QED BY <1>3, <2>1
  <1>5. kept = [i \in 0 .. c |-> Step(kept, i)]
    <2> HIDE DEF Upto, Step
    <2> QED BY <1>4
  <1>6. \A i \in 0 .. c : kept[i] = Upto[i]
    <2> DEFINE Wrong == {i \in 0 .. c : kept[i] # Upto[i]}
    <2> SUFFICES ASSUME Wrong # {} PROVE FALSE
      OBVIOUS
    <2>1. PICK m \in Wrong : \A i \in Wrong : m <= i
      <3>1. Wrong \subseteq Nat
        OBVIOUS
      <3> HIDE DEF Wrong
      <3> QED BY <3>1, LeastOfNats
    <2>2. kept[m] = Step(kept, m) /\ Upto[m] = Step(Upto, m) /\ m \in 0 .. c
      <3> HIDE DEF kept, Upto, Step
      <3> QED BY <1>3, <1>5
    <2>3. m # 0
      BY <2>2
    <2>4. m - 1 \in 0 .. c /\ m - 1 \notin Wrong
      <3> HIDE DEF Wrong
      <3>1. m - 1 \in 0 .. c /\ ~(m <= m - 1)
        BY <2>2, <2>3
      <3> QED BY <2>1, <3>1
    <2>5. kept[m - 1] = Upto[m - 1]
      BY <2>4
    <2> HIDE DEF kept, Upto
    <2>6. kept[m] # Upto[m]
      BY <2>1
    <2> QED BY <2>2, <2>3, <2>5, <2>6
  <1>7. kept[c] = read
    <2>1. c \in 0 .. c /\ Upto[c] = [j \in 1 .. c |-> read[j]]
      OBVIOUS
    <2>2. [j \in 1 .. c |-> read[j]] = read
      BY DEF read
    <2> HIDE DEF kept, Upto
    <2> QED BY <1>6, <2>1, <2>2
  <1>8. ReplayOf(h, c, sl, nm) = kept[c]
    BY DEF ReplayOf, read
  <1> QED BY <1>7, <1>8 DEF read

(***************************************************************************)
(* Without a loss of power, the samples of the ring are different ones.    *)
(***************************************************************************)

\* The ring that a replay shows, or would show: that of the memory, and that of the
\* file when there is no process.
RingHead  == IF up THEN head ELSE IF hdr = NoHeader THEN 0 ELSE hdr.head
RingCount == IF up THEN count ELSE IF hdr = NoHeader THEN 0 ELSE hdr.count
RingSlots == Live(RingHead, RingCount)

\* Samples of one target come in the order of their times, through the channel into
\* the ring, so no two of its records are the same; and the header counts no more
\* of them than the memory.
Dated ==
    /\ \A n \in Target : clock[n] <= MaxTime
    /\ \A i \in DOMAIN ch : ch[i].t \in 1 .. clock[ch[i].tgt]
    /\ \A i, j \in DOMAIN ch : i < j /\ ch[i].tgt = ch[j].tgt => ch[i].t < ch[j].t
    /\ \A s \in RingSlots : slots[s].t \in 1 .. clock[slots[s].tgt]
    /\ \A s, q \in RingSlots : s # q /\ slots[s].tgt = slots[q].tgt => slots[s].t # slots[q].t
    /\ \A s \in RingSlots, i \in DOMAIN ch : slots[s].tgt = ch[i].tgt => slots[s].t < ch[i].t
    /\ up => hdr.count <= count
    /\ ~up => ch = <<>>

\* The records of a ring are in the order of their times.
Ascending(h, c) ==
    \A i, j \in 0 .. c - 1 :
        LET r == slots[ReplaySlot(h, c, i)]
            q == slots[ReplaySlot(h, c, j)]
        IN  i < j /\ r.tgt = q.tgt => r.t < q.t

\* Without faults the file is closed behind the last header.
Orderly ==
    /\ Saved
    /\ up /\ ~fileOpen => pc = "closed" /\ InFile
    /\ Ascending(RingHead, RingCount)

\* A ring with more records has more live slots.
LEMMA LiveGrows ==
  ASSUME NEW h, NEW g, NEW c \in 0 .. Capacity, NEW d \in 0 .. Capacity, c <= d
  PROVE  Live(h, c) \subseteq Live(g, d) /\ Live(g, d) \subseteq Slot
  BY SizesAssumption DEF Live, Slot

\* The ring shown is a ring, and each of its slots holds a record.
LEMMA RingRecords ==
  ASSUME TypeOK, RingShape, Attributed
  PROVE  /\ RingHead \in Slot /\ RingCount \in 0 .. Capacity
         /\ RingSlots \subseteq Slot /\ \A s \in RingSlots : slots[s] \in Record
  <1>1. hdr # NoHeader => hdr \in Header
    BY DEF TypeOK
  <1>2. 0 \in Slot /\ 0 \in 0 .. Capacity
    BY SizesAssumption DEF Slot
  <1>3. RingHead \in Slot /\ RingCount \in 0 .. Capacity
    BY <1>1, <1>2 DEF RingHead, RingCount, Header, TypeOK
  <1>4. RingSlots \subseteq Slot
    BY <1>3, LiveGrows DEF RingSlots
  <1>5. Live(0, 0) = {}
    BY SizesAssumption DEF Live
  <1>6. \A s \in RingSlots : slots[s] # Bad
    BY <1>5 DEF RingSlots, RingHead, RingCount, Attributed, Sound
  <1> QED BY <1>3, <1>4, <1>6 DEF TypeOK

\* A step that moves no sample, and makes no slot live, keeps the dates.
LEMMA DatedKept ==
  ASSUME TypeOK, Dated, UNCHANGED <<clock, ch, slots>>,
         RingSlots' \subseteq RingSlots,
         up' => hdr'.count <= count', ~up' => ch' = <<>>
  PROVE  Dated'
  BY DEF Dated

\* A worker's sample is later than all its earlier ones.
LEMMA DatedSample ==
  ASSUME TypeOK, RingShape, Attributed, Dated, NEW n \in Target, Sample(n)
  PROVE  Dated'
  <1> DEFINE r == [tgt |-> n, t |-> clock[n] + 1]
  <1>1. /\ clock[n] \in Nat /\ clock' = [clock EXCEPT ![n] = clock[n] + 1]
        /\ clock'[n] = clock[n] + 1 /\ clock'[n] <= MaxTime
        /\ \A m \in Target : clock[m] \in Nat /\ (m # n => clock'[m] = clock[m])
        /\ MaxTime \in Nat
    BY SizesAssumption DEF Sample, TypeOK
  <1>2. \A m \in Target : clock'[m] \in Nat /\ clock[m] <= clock'[m] /\ clock'[m] <= MaxTime
    BY <1>1 DEF Dated
  <1>3. /\ RingSlots' = RingSlots /\ slots' = slots
        /\ UNCHANGED <<pc, hdr, count>> /\ up /\ up'
    BY DEF Sample, RingSlots, RingHead, RingCount, Live, up, memory, file
  <1>4. \A s \in RingSlots : slots[s].t \in Nat /\ slots[s].tgt \in Target
    BY RingRecords DEF Record
  <1>5. \A i \in DOMAIN ch : ch[i].t \in Nat /\ ch[i].tgt \in Target
    <2>1. ch \in Seq(Sampled)
      BY DEF TypeOK, Sampled
    <2>2. \A i \in DOMAIN ch : ch[i] \in Sampled
      BY <2>1
    <2> QED BY <2>2 DEF Sampled
  <1>6. \A s \in RingSlots : slots'[s].t \in 1 .. clock'[slots'[s].tgt]
    <2> SUFFICES ASSUME NEW s \in RingSlots PROVE slots[s].t \in 1 .. clock'[slots[s].tgt]
      BY <1>3
    <2>1. slots[s].t \in 1 .. clock[slots[s].tgt] /\ slots[s].tgt \in Target
      BY <1>4 DEF Dated
    <2>2. /\ clock[slots[s].tgt] \in Nat /\ clock'[slots[s].tgt] \in Nat
          /\ clock[slots[s].tgt] <= clock'[slots[s].tgt]
      BY <1>1, <1>2, <2>1
    <2> QED BY <1>4, <2>1, <2>2
  <1>7. \A i \in DOMAIN ch : ch[i].t \in 1 .. clock'[ch[i].tgt]
    <2> SUFFICES ASSUME NEW i \in DOMAIN ch PROVE ch[i].t \in 1 .. clock'[ch[i].tgt]
      OBVIOUS
    <2>1. ch[i].t \in 1 .. clock[ch[i].tgt] /\ ch[i].tgt \in Target
      BY <1>5 DEF Dated
    <2>2. /\ clock[ch[i].tgt] \in Nat /\ clock'[ch[i].tgt] \in Nat
          /\ clock[ch[i].tgt] <= clock'[ch[i].tgt]
      BY <1>1, <1>2, <2>1
    <2> QED BY <1>5, <2>1, <2>2
  <1>8. CASE ch' = ch
    BY <1>2, <1>3, <1>6, <1>7, <1>8 DEF Dated
  <1>9. CASE ch' = Append(ch, r)
    <2>1. /\ Len(ch) \in Nat /\ DOMAIN ch = 1 .. Len(ch) /\ Len(ch') = Len(ch) + 1
          /\ DOMAIN ch' = 1 .. Len(ch) + 1
          /\ ch'[Len(ch) + 1] = r /\ \A i \in DOMAIN ch : ch'[i] = ch[i]
      <3>1. r \in Sampled /\ ch \in Seq(Sampled)
        BY <1>1 DEF Sampled, TypeOK
      <3> HIDE DEF r
      <3> QED BY <1>9, <3>1, AppendProperties
    <2>2. r.tgt = n /\ r.t = clock[n] + 1 /\ r.t \in Nat
      BY <1>1
    <2> HIDE DEF r
    <2>3. \A i \in DOMAIN ch' : i \in DOMAIN ch \/ i = Len(ch) + 1
      BY <2>1
    <2>4. \A i \in DOMAIN ch' : ch'[i].t \in 1 .. clock'[ch'[i].tgt]
      <3>1. r.t \in 1 .. clock'[n]
        BY <1>1, <2>2
      <3> QED BY <1>7, <2>1, <2>2, <2>3, <3>1
    <2>5. \A i \in DOMAIN ch : ch[i].tgt = n => ch[i].t < r.t
      BY <1>1, <1>5, <2>2 DEF Dated
    <2>6. \A i, j \in DOMAIN ch' : i < j /\ ch'[i].tgt = ch'[j].tgt => ch'[i].t < ch'[j].t
      <3> SUFFICES ASSUME NEW i \in DOMAIN ch', NEW j \in DOMAIN ch',
                          i < j, ch'[i].tgt = ch'[j].tgt
                   PROVE  ch'[i].t < ch'[j].t
        OBVIOUS
      <3>1. i \in DOMAIN ch
        BY <2>1
      <3>2. CASE j \in DOMAIN ch
        BY <2>1, <3>1, <3>2 DEF Dated
      <3>3. CASE j = Len(ch) + 1
        BY <2>1, <2>2, <2>5, <3>1, <3>3
      <3> QED BY <2>3, <3>2, <3>3
    <2>7. \A s \in RingSlots, i \in DOMAIN ch' : slots[s].tgt = ch'[i].tgt => slots[s].t < ch'[i].t
      <3> SUFFICES ASSUME NEW s \in RingSlots, NEW i \in DOMAIN ch', slots[s].tgt = ch'[i].tgt
                   PROVE  slots[s].t < ch'[i].t
        OBVIOUS
      <3>1. CASE i \in DOMAIN ch
        BY <2>1, <3>1 DEF Dated
      <3>2. CASE i = Len(ch) + 1
        <4>1. slots[s].t \in 1 .. clock[n]
          BY <2>1, <2>2, <3>2 DEF Dated
        <4> QED BY <1>1, <1>4, <2>1, <2>2, <3>2, <4>1
      <3> QED BY <2>3, <3>1, <3>2
    <2> QED BY <1>2, <1>3, <1>6, <2>4, <2>6, <2>7 DEF Dated
  <1> QED BY <1>1, <1>8, <1>9 DEF Sample

\* A sample that leaves the channel is later than those of its target in the ring, and
\* earlier than those behind it.
LEMMA DatedReceive ==
  ASSUME TypeOK, RingShape, Attributed, Dated, Receive, up, UNCHANGED pc
  PROVE  Dated'
  <1> DEFINE r == Head(ch)
  <1>1. /\ Len(ch) \in Nat /\ 1 \in DOMAIN ch /\ ch \in Seq(Sampled) /\ r = ch[1]
        /\ Len(ch') = Len(ch) - 1 /\ DOMAIN ch' = 1 .. Len(ch) - 1
        /\ \A i \in DOMAIN ch' : i + 1 \in DOMAIN ch /\ ch'[i] = ch[i + 1]
        /\ DOMAIN ch = 1 .. Len(ch)
    BY HeadTailProperties DEF TypeOK, Receive, Sampled
  <1>2. r \in Sampled /\ r.tgt \in Target /\ r.t \in Nat
    <2>1. r \in Sampled
      BY <1>1
    <2> QED BY <2>1 DEF Sampled
  <1>3. /\ r.t \in 1 .. clock[r.tgt]
        /\ \A i \in DOMAIN ch' : r.tgt = ch'[i].tgt => r.t < ch'[i].t
        /\ \A s \in RingSlots : slots[s].tgt = r.tgt => slots[s].t < r.t
    BY <1>1 DEF Dated
  <1> HIDE DEF r
  <1>4. UNCHANGED <<clock, names, hdr>> /\ WriteRecord(r) /\ up'
    BY DEF Receive, r, up
  <1>5. /\ \A i \in DOMAIN ch' : ch'[i].t \in 1 .. clock'[ch'[i].tgt]
        /\ \A i, j \in DOMAIN ch' : i < j /\ ch'[i].tgt = ch'[j].tgt => ch'[i].t < ch'[j].t
        /\ \A n \in Target : clock'[n] <= MaxTime
    <2>1. \A i, j \in DOMAIN ch' : i < j => i + 1 < j + 1
      BY <1>1
    <2>2. \A i, j \in DOMAIN ch' : i < j /\ ch'[i].tgt = ch'[j].tgt => ch'[i].t < ch'[j].t
      BY <1>1, <2>1 DEF Dated
    <2>3. \A i \in DOMAIN ch' : ch'[i].t \in 1 .. clock'[ch'[i].tgt]
      BY <1>1, <1>4 DEF Dated
    <2> QED BY <1>4, <2>2, <2>3 DEF Dated
  <1>6. \A s \in RingSlots, i \in DOMAIN ch' : slots[s].tgt = ch'[i].tgt => slots[s].t < ch'[i].t
    BY <1>1 DEF Dated
  <1>7. /\ hdr.count \in 0 .. Capacity /\ count \in 0 .. Capacity /\ hdr.count <= count
        /\ head \in Slot
    <2>1. hdr \in Header
      BY DEF Attributed, TypeOK
    <2> QED BY <2>1 DEF TypeOK, Header, Dated
  <1>8. CASE WriteRefused(r) /\ UNCHANGED slots
    <2>1. RingSlots' = RingSlots /\ UNCHANGED count
      BY <1>4, <1>8 DEF WriteRefused, RingSlots, RingHead, RingCount, Live, up
    <2> QED BY <1>4, <1>5, <1>6, <1>7, <1>8, <2>1 DEF Dated
  <1>9. CASE /\ IndexesOf(r.tgt) # {}
             /\ slots' = [slots EXCEPT ![head] = [id |-> NameID(r.tgt), tgt |-> r.tgt, t |-> r.t]]
             /\ Advance
    <2>1. RingSlots' \subseteq RingSlots \cup {head} /\ RingSlots \subseteq Slot
      <3>1. RingSlots = Live(head, count) /\ RingSlots' = Live(head', count')
        BY <1>4 DEF RingSlots, RingHead, RingCount, Live
      <3> QED BY <1>9, <3>1, AdvanceLive, RingRecords
    <2>2. /\ slots'[head].tgt = r.tgt /\ slots'[head].t = r.t
          /\ \A s \in Slot : s # head => slots'[s] = slots[s]
      BY <1>7, <1>9 DEF TypeOK
    <2>3. \A s \in RingSlots' : s = head \/ (s \in RingSlots /\ slots'[s] = slots[s])
      BY <2>1, <2>2
    <2>4. hdr'.count <= count'
      BY <1>4, <1>7, <1>9, SizesAssumption DEF Advance
    <2>5. \A s \in RingSlots' : slots'[s].t \in 1 .. clock'[slots'[s].tgt]
      BY <1>3, <1>4, <2>2, <2>3 DEF Dated
    <2>6. \A s, q \in RingSlots' :
             s # q /\ slots'[s].tgt = slots'[q].tgt => slots'[s].t # slots'[q].t
      <3>0. \A s \in RingSlots : slots[s].t \in Nat
        BY RingRecords DEF Record
      <3>1. \A s \in RingSlots : slots[s].tgt = r.tgt => slots[s].t # r.t
        BY <1>2, <1>3, <3>0
      <3> QED BY <2>2, <2>3, <3>1 DEF Dated
    <2>7. \A s \in RingSlots', i \in DOMAIN ch' :
             slots'[s].tgt = ch'[i].tgt => slots'[s].t < ch'[i].t
      BY <1>3, <1>6, <2>2, <2>3
    <2> QED BY <1>4, <1>5, <2>4, <2>5, <2>6, <2>7 DEF Dated
  <1> QED BY <1>4, <1>8, <1>9 DEF WriteRecord

\* The ring of the file has no slot that the ring of the memory has not.
LEMMA FileRingInMemory ==
  ASSUME TypeOK, Attributed, Dated, up
  PROVE  Live(hdr.head, hdr.count) \subseteq RingSlots
  <1>1. hdr \in Header /\ hdr.count <= count
    BY DEF Attributed, TypeOK, Dated
  <1>2. hdr.count \in 0 .. Capacity /\ count \in 0 .. Capacity
    BY <1>1 DEF Header, TypeOK
  <1> QED BY <1>1, <1>2, LiveGrows DEF RingSlots, RingHead, RingCount

LEMMA DatedNext ==
  ASSUME PowerLoss = FALSE, TypeOK, RingShape, Attributed, Dated, [Next]_vars
  PROVE  Dated'
  <1> USE DEF memory, file, safe, bounds
  <1>0. ASSUME UNCHANGED <<clock, ch, slots, head, count, hdr>>, up' = up PROVE Dated'
    <2>1. RingSlots' = RingSlots
      BY <1>0 DEF RingSlots, RingHead, RingCount, Live
    <2> QED BY <1>0, <2>1, DatedKept DEF Dated
  <1>1. ASSUME NEW n \in Target, Sample(n) PROVE Dated'
    BY <1>1, DatedSample
  <1>2. CASE RunReceive \/ DrainReceive
    BY <1>2, DatedReceive DEF RunReceive, DrainReceive, Receive, up
  <1>3. ASSUME WriteHeader, up, up', UNCHANGED <<clock, ch, slots, head, count>> PROVE Dated'
    <2>1. RingSlots' = RingSlots
      BY <1>3 DEF RingSlots, RingHead, RingCount, Live
    <2>2. hdr'.count <= count'
      <3>1. count \in Nat
        BY SizesAssumption DEF TypeOK
      <3> QED BY <1>3, <3>1 DEF WriteHeader, HeaderOf, Dated
    <2> QED BY <1>3, <2>1, <2>2, DatedKept
  <1>4. CASE RunTick
    BY <1>4, <1>3 DEF RunTick, up
  <1>5. CASE RunTickSync \/ RunCancelled \/ LastSync
    BY <1>5, <1>0 DEF RunTickSync, RunCancelled, LastSync, AfterCancel, up
  <1>6. CASE DrainDone
    <2>1. CASE dirty
      BY <1>6, <2>1, <1>3 DEF DrainDone, up
    <2>2. CASE ~dirty
      BY <1>6, <2>2, <1>0 DEF DrainDone, up
    <2> QED BY <2>1, <2>2
  <1>7. CASE Cancel \/ CloseAfterRun \/ CloseTimeout
    BY <1>7, <1>0 DEF Cancel, CloseAfterRun, CloseTimeout, up
  <1>8. CASE Exit \/ Kill
    <2>1. up /\ ~up' /\ ch' = <<>> /\ UNCHANGED <<clock, slots, hdr>>
      BY <1>8 DEF Exit, Kill, Forget, up
    <2>2. RingSlots' \subseteq RingSlots
      <3>1. hdr # NoHeader /\ RingSlots' = Live(hdr.head, hdr.count)
        BY <2>1 DEF RingSlots, RingHead, RingCount, Live, Attributed
      <3> QED BY <2>1, <3>1, FileRingInMemory
    <2>3. /\ \A n \in Target : clock'[n] <= MaxTime
          /\ DOMAIN ch' = {}
      BY <2>1 DEF Dated
    <2> QED BY <2>1, <2>2, <2>3 DEF Dated
  <1>9. CASE WriteBack \/ PowerFail
    BY <1>9 DEF WriteBack, PowerFail
  <1>10. CASE Start
    <2>1. ~up /\ up' /\ UNCHANGED <<clock, ch, slots>>
      BY <1>10 DEF Start, up
    <2>2. CASE Reusable(hdr, names')
      <3>1. /\ hdr # NoHeader /\ hdr' = hdr /\ head' = hdr.head /\ count' = hdr.count
            /\ hdr.count \in Nat
        BY <1>10, <2>2, SizesAssumption DEF Start, Reusable
      <3>2. RingSlots' = RingSlots
        BY <2>1, <3>1 DEF RingSlots, RingHead, RingCount, Live
      <3> QED BY <2>1, <3>1, <3>2, DatedKept
    <2>3. CASE ~Reusable(hdr, names')
      <3>1. head' = 0 /\ count' = 0 /\ hdr'.count = 0
        BY <1>10, <2>3 DEF Start, Reinit, HeaderOf
      <3>2. RingSlots' = {}
        <4>1. RingSlots' = Live(0, 0)
          BY <2>1, <3>1 DEF RingSlots, RingHead, RingCount, Live
        <4> QED BY <4>1, SizesAssumption DEF Live
      <3> QED BY <2>1, <3>1, <3>2, DatedKept
    <2> QED BY <2>2, <2>3
  <1>11. CASE OpenFails \/ UNCHANGED vars
    BY <1>11, <1>0 DEF OpenFails, vars, up
  <1> QED
    BY <1>1, <1>2, <1>4, <1>5, <1>6, <1>7, <1>8, <1>9, <1>10, <1>11 DEF Next, Run

(***************************************************************************)
(* What a restart keeps.                                                   *)
(***************************************************************************)

\* A list without repetition has as many elements as entries.
LEMMA DistinctCount ==
  ASSUME NEW c \in Nat, NEW f, DOMAIN f = 1 .. c,
         \A i, j \in 1 .. c : i # j => f[i] # f[j]
  PROVE  /\ IsFiniteSet({f[i] : i \in DOMAIN f})
         /\ Cardinality({f[i] : i \in DOMAIN f}) = c
  <1> DEFINE T == {f[i] : i \in DOMAIN f}
             g == [i \in 1 .. c |-> f[i]]
  <1>1. g \in [1 .. c -> T] /\ \A i \in 1 .. c : g[i] = f[i]
    OBVIOUS
  <1>2. \A y \in T : \E i \in 1 .. c : g[i] = y
    OBVIOUS
  <1> HIDE DEF g, T
  <1>3. ExistsBijection(1 .. c, T)
    <2>1. g \in Bijection(1 .. c, T)
      BY <1>1, <1>2 DEF Bijection, Injection, Surjection, IsInjective
    <2> QED BY <2>1 DEF ExistsBijection
  <1>4. IsFiniteSet(1 .. c) /\ Cardinality(1 .. c) = c
    BY FS_Interval
  <1> QED BY <1>3, <1>4, FS_Bijection DEF T

\* The records of a ring within the one shown, in the order of Replay.
Records(h, c) == [i \in 1 .. c |-> slots[ReplaySlot(h, c, i - 1)]]

\* Replay shows the records of the memory's ring.
LEMMA ReplayIs ==
  ASSUME TypeOK, Attributed
  PROVE  Replay = Records(head, count)
  <1>1. head \in Slot /\ count \in 0 .. Capacity /\ count \in Nat
    BY SizesAssumption DEF TypeOK
  <1>2. \A i \in 0 .. count - 1 : /\ slots[ReplaySlot(head, count, i)] # Bad
                                  /\ slots[ReplaySlot(head, count, i)].id \in DOMAIN names
    <2>1. CASE up
      BY <1>1, <2>1, ReplayReadsLive DEF Attributed, Sound
    <2>2. CASE ~up
      BY <2>2 DEF Attributed
    <2> QED BY <2>1, <2>2
  <1> QED BY <1>1, <1>2, ReplayAll DEF Replay, Records

\* And a restart would show those of the file's.
LEMMA RecoverableIs ==
  ASSUME TypeOK, Attributed, hdr # NoHeader
  PROVE  Recoverable = Records(hdr.head, hdr.count)
  <1>1. hdr.head \in Slot /\ hdr.count \in 0 .. Capacity /\ hdr.count \in Nat
    BY SizesAssumption DEF TypeOK, Header
  <1>2. \A i \in 0 .. hdr.count - 1 :
           /\ slots[ReplaySlot(hdr.head, hdr.count, i)] # Bad
           /\ slots[ReplaySlot(hdr.head, hdr.count, i)].id \in DOMAIN hdr.names
    BY <1>1, ReplayReadsLive DEF Attributed, Sound
  <1> DEFINE h == hdr.head
             c == hdr.count
             nm == hdr.names
  <1>3. Recoverable = ReplayOf(h, c, slots, nm)
    BY DEF Recoverable
  <1>4. /\ c \in Nat
        /\ \A i \in 0 .. c - 1 : /\ slots[ReplaySlot(h, c, i)] # Bad
                                /\ slots[ReplaySlot(h, c, i)].id \in DOMAIN nm
    BY <1>1, <1>2
  <1> HIDE DEF h, c, nm
  <1>5. ReplayOf(h, c, slots, nm) = [i \in 1 .. c |-> slots[ReplaySlot(h, c, i - 1)]]
    BY <1>4, ReplayAll
  <1> QED BY <1>3, <1>5 DEF h, c, Records

\* A sample by the record that holds it.
SampleIn(r) == [tgt |-> r.tgt, t |-> r.t]

\* No sample is twice in a ring whose slots are among those of the one shown.
LEMMA SamplesDiffer ==
  ASSUME Dated, NEW h \in Slot, NEW c \in 0 .. Capacity, Live(h, c) \subseteq RingSlots,
         NEW i \in 1 .. c, NEW j \in 1 .. c, i # j
  PROVE  SampleIn(Records(h, c)[i]) # SampleIn(Records(h, c)[j])
  <1>1. c \in Nat /\ i - 1 \in 0 .. c - 1 /\ j - 1 \in 0 .. c - 1 /\ i - 1 # j - 1
    BY SizesAssumption
  <1> DEFINE s == ReplaySlot(h, c, i - 1)
             q == ReplaySlot(h, c, j - 1)
  <1>2. s # q /\ s \in RingSlots /\ q \in RingSlots
    BY <1>1, ReadsEachOnce, ReplayReadsLive
  <1>3. Records(h, c)[i] = slots[s] /\ Records(h, c)[j] = slots[q]
    BY DEF Records
  <1> HIDE DEF s, q
  <1>4. slots[s].tgt = slots[q].tgt => slots[s].t # slots[q].t
    BY <1>2 DEF Dated
  <1> QED BY <1>3, <1>4 DEF SampleIn

\* The records of the file's ring are records of the memory's, one for each that the
\* header counts.
LEMMA KilledKeeps ==
  ASSUME TypeOK, RingShape, Attributed, Dated, up
  PROVE  LET kept == {Recoverable[i] : i \in DOMAIN Recoverable}
             ring == {Replay[i] : i \in DOMAIN Replay}
         IN  kept \subseteq ring /\ Cardinality(kept) = hdr.count
  <1> DEFINE F == Records(hdr.head, hdr.count)
             M == Records(head, count)
  <1>1. Recoverable = F /\ Replay = M
    BY ReplayIs, RecoverableIs DEF Attributed
  <1>2. /\ hdr.head \in Slot /\ hdr.count \in 0 .. Capacity /\ hdr.count \in Nat
        /\ head \in Slot /\ count \in 0 .. Capacity /\ count \in Nat
    BY SizesAssumption DEF TypeOK, Header, Attributed
  <1>3. RingSlots = Live(head, count) /\ Live(hdr.head, hdr.count) \subseteq RingSlots
    BY FileRingInMemory DEF RingSlots, RingHead, RingCount
  <1>4. DOMAIN F = 1 .. hdr.count /\ DOMAIN M = 1 .. count
    BY DEF Records
  <1>5. \A i \in 1 .. hdr.count : \E j \in 1 .. count : F[i] = M[j]
    <2> SUFFICES ASSUME NEW i \in 1 .. hdr.count PROVE \E j \in 1 .. count : F[i] = M[j]
      OBVIOUS
    <2>1. i - 1 \in 0 .. hdr.count - 1
      BY <1>2
    <2> DEFINE s == ReplaySlot(hdr.head, hdr.count, i - 1)
    <2>2. s \in Live(head, count) /\ F[i] = slots[s]
      BY <1>2, <1>3, <2>1, ReplayReadsLive DEF Records
    <2> HIDE DEF s
    <2>3. PICK k \in 0 .. count - 1 : ReplaySlot(head, count, k) = s
      BY <1>2, <2>2, ReadsEachOnce
    <2>4. k + 1 \in 1 .. count /\ (k + 1) - 1 = k
      BY <1>2
    <2>5. M[k + 1] = slots[s]
      BY <2>3, <2>4 DEF Records
    <2> QED BY <2>2, <2>4, <2>5
  <1>6. \A i, j \in 1 .. hdr.count : i # j => F[i] # F[j]
    BY <1>2, <1>3, SamplesDiffer
  <1> HIDE DEF F, M
  <1>7. Cardinality({F[i] : i \in DOMAIN F}) = hdr.count
    BY <1>2, <1>4, <1>6, DistinctCount
  <1> QED BY <1>1, <1>4, <1>5, <1>7

\* Where names fit their field and no power is lost, the inductive invariant holds.
LEMMA InvCorrect ==
  ASSUME NamesFit, PowerLoss = FALSE
  PROVE  Spec => [](TypeOK /\ RingShape /\ Attributed /\ Dated)
  <1>1. Init => Attributed /\ Dated
    <2> SUFFICES ASSUME Init PROVE Attributed /\ Dated
      OBVIOUS
    <2>1. Attributed
      BY DEF Init, Attributed, up
    <2>2. RingSlots = {} /\ DOMAIN ch = {} /\ ~up
      BY SizesAssumption DEF Init, RingSlots, RingHead, RingCount, Live, up
    <2>3. \A n \in Target : clock[n] <= MaxTime
      BY SizesAssumption DEF Init
    <2> QED BY <2>1, <2>2, <2>3 DEF Dated, Init
  <1>2. TypeOK /\ RingShape /\ Attributed /\ [Next]_vars => Attributed'
    BY AttributedNext
  <1>3. TypeOK /\ RingShape /\ Attributed /\ Dated /\ [Next]_vars => Dated'
    BY DatedNext
  <1> QED BY <1>1, <1>2, <1>3, TypeCorrect, RingShapeCorrect, PTL DEF Spec

\* A kill leaves as many samples as the header in the file counts, and none that the
\* ring did not hold: once the header counts a full ring, none is lost
\* (history.go:175-192, 242-246).
THEOREM KillKeepsFlushed ==
  ASSUME NamesFit, PowerLoss = FALSE
  PROVE  Spec => []KillLosesOnlyUnflushed
  <1>1. TypeOK /\ RingShape /\ Attributed /\ Dated => KillLosesOnlyUnflushed
    <2> SUFFICES ASSUME TypeOK, RingShape, Attributed, Dated, up
                 PROVE  LET kept == {Recoverable[i] : i \in DOMAIN Recoverable}
                            ring == {Replay[i] : i \in DOMAIN Replay}
                        IN  kept \subseteq ring /\ Cardinality(kept) >= hdr.count
      BY DEF KillLosesOnlyUnflushed
    <2>1. hdr.count \in Nat
      BY SizesAssumption DEF Attributed, TypeOK, Header
    <2> QED BY <2>1, KilledKeeps
  <1> QED BY <1>1, InvCorrect, PTL

\* A start with the table of the file takes over its ring: no header that the code
\* writes is refused by the next start (history.go:102-129).
THEOREM RestartKeepsRing ==
  ASSUME NamesFit
  PROVE  Spec => SameTableKeepsRing
  <1>1. ASSUME TypeOK, [Next]_vars, pc = "down", pc' = "select", hdr # NoHeader,
               hdr.names = [i \in DOMAIN names' |-> Stored[names'[i]]]
        PROVE  count' = hdr.count /\ head' = hdr.head
    <2>1. Start
      <3> USE DEF Run, RunReceive, RunTick, RunTickSync, RunCancelled, DrainReceive, DrainDone,
                  LastSync, Sample, Cancel, CloseAfterRun, CloseTimeout, Exit, Kill, up, WriteBack,
                  PowerFail, Forget, OpenFails, vars
      <3> QED BY <1>1 DEF Next
    <2>2. names' \in Names
      BY <2>1, CutType DEF Start
    <2>3. HeaderOf(0, 0, names').names = names'
      BY <2>2, HeaderKeepsNames
    <2>4. hdr.names = names'
      BY <1>1, <2>3 DEF HeaderOf
    <2>5. Reusable(hdr, names')
      BY <1>1, <2>4 DEF Reusable, TypeOK, Header
    <2> QED BY <2>1, <2>5 DEF Start
  <1> QED BY <1>1, TypeCorrect, PTL DEF Spec, SameTableKeepsRing

(***************************************************************************)
(* Without faults, Replay is in order.                                     *)
(***************************************************************************)

\* A record written behind the ring is the latest of its target.
LEMMA ReceiveAscending ==
  ASSUME TypeOK, RingShape, Attributed, Dated, Receive, up, UNCHANGED pc,
         Ascending(head, count)
  PROVE  Ascending(head, count)'
  <1> DEFINE r == Head(ch)
             At(i) == ReplaySlot(head, count, i)
             At1(i) == ReplaySlot(head', count', i)
  <1>1. /\ r \in Sampled /\ WriteRecord(r)
        /\ \A s \in RingSlots : slots[s].tgt = r.tgt => slots[s].t < r.t
    <2>1. ch \in Seq(Sampled) /\ ch # <<>>
      BY DEF TypeOK, Receive, Sampled
    <2>2. r = ch[1] /\ 1 \in DOMAIN ch /\ r \in Sampled
      BY <2>1, HeadTailProperties
    <2> QED BY <2>2 DEF Dated, Receive
  <1> HIDE DEF r
  <1>2. Ascending(head, count)' <=>
          \A i, j \in 0 .. count' - 1 :
             i < j /\ slots'[At1(i)].tgt = slots'[At1(j)].tgt => slots'[At1(i)].t < slots'[At1(j)].t
    BY DEF Ascending, ReplaySlot
  <1>3. CASE WriteRefused(r) /\ UNCHANGED slots
    BY <1>3 DEF WriteRefused, Ascending, ReplaySlot
  <1>4. CASE /\ slots' = [slots EXCEPT ![head] = [id |-> NameID(r.tgt), tgt |-> r.tgt, t |-> r.t]]
             /\ Advance
    <2> DEFINE k == IF count < Capacity THEN 0 ELSE 1
    <2>1. /\ count' \in 1 .. Capacity
          /\ \A i \in 0 .. count' - 2 :
               i + k \in 0 .. count - 1 /\ At1(i) = At(i + k) /\ At1(i) # head
          /\ At1(count' - 1) = head
      BY <1>4, AdvanceReads DEF Receive
    <2>2. k \in {0, 1} /\ count' \in Int /\ count \in 0 .. Capacity /\ head \in Slot
      BY <2>1, SizesAssumption DEF TypeOK
    <2>3. \A i \in 0 .. count - 1 : At(i) \in RingSlots /\ At(i) \in Slot
      BY <2>2, ReplayReadsLive DEF RingSlots, RingHead, RingCount
    <2>4. /\ slots'[head].tgt = r.tgt /\ slots'[head].t = r.t
          /\ \A s \in Slot : s # head => slots'[s] = slots[s]
      BY <1>4, <2>2 DEF TypeOK
    <2> HIDE DEF k
    <2>5. \A i \in 0 .. count' - 2 : slots'[At1(i)] = slots[At(i + k)]
      BY <2>1, <2>3, <2>4
    <2>6. ASSUME NEW i \in 0 .. count' - 1, NEW j \in 0 .. count' - 1, i < j,
                 slots'[At1(i)].tgt = slots'[At1(j)].tgt
          PROVE  slots'[At1(i)].t < slots'[At1(j)].t
      <3>1. i \in 0 .. count' - 2 /\ (j \in 0 .. count' - 2 \/ j = count' - 1)
        <4> DEFINE c == count'
        <4>1. c \in Int /\ i < j /\ i \in 0 .. c - 1 /\ j \in 0 .. c - 1
          BY <2>2, <2>6
        <4> HIDE DEF c
        <4>2. i \in 0 .. c - 2 /\ (j \in 0 .. c - 2 \/ j = c - 1)
          BY <4>1
        <4> QED BY <4>2 DEF c
      <3>2. i + k \in 0 .. count - 1 /\ slots'[At1(i)] = slots[At(i + k)]
        BY <2>1, <2>5, <3>1
      <3>3. CASE j = count' - 1
        <4>1. slots'[At1(j)].tgt = r.tgt /\ slots'[At1(j)].t = r.t
          BY <2>1, <2>4, <3>3
        <4> QED BY <1>1, <2>3, <2>6, <3>2, <4>1
      <3>4. CASE j \in 0 .. count' - 2
        <4>1. j + k \in 0 .. count - 1 /\ slots'[At1(j)] = slots[At(j + k)]
          BY <2>1, <2>5, <3>4
        <4>2. i + k < j + k
          BY <2>2, <2>6, <3>1
        <4> QED BY <2>6, <3>2, <4>1, <4>2 DEF Ascending
      <3> QED BY <3>1, <3>3, <3>4
    <2> QED BY <1>2, <2>6
  <1> QED BY <1>1, <1>3, <1>4 DEF WriteRecord

\* Without faults every header is written and the file is closed behind the last one.
LEMMA OrderlyNext ==
  ASSUME NamesFit, PowerLoss = FALSE, MaxFaults = 0,
         TypeOK, RingShape, Attributed, Dated, Orderly, [Next]_vars
  PROVE  Orderly'
  <1> USE DEF memory, file, safe, bounds
  <1>a. ~Fault
    BY DEF Fault, TypeOK
  <1>b. Saved'
    BY SavedNext DEF Orderly
  <1>0. ASSUME UNCHANGED <<slots, names, head, count>>,
               up, up', fileOpen' = fileOpen, fileOpen \/ (pc' = pc /\ hdr' = hdr)
        PROVE  Orderly'
    <2>1. Ascending(RingHead, RingCount)'
      BY <1>0 DEF Orderly, Ascending, RingHead, RingCount, ReplaySlot
    <2> QED BY <1>0, <1>b, <2>1 DEF Orderly, InFile, HeaderOf
  <1>1. ASSUME NEW n \in Target, Sample(n) PROVE Orderly'
    BY <1>1, <1>0 DEF Sample, up
  <1>2. CASE RunReceive \/ DrainReceive
    <2>1. Receive /\ up /\ up' /\ UNCHANGED <<pc, fileOpen>> /\ pc # "closed"
      BY <1>2 DEF RunReceive, DrainReceive, Receive, up
    <2>2. Ascending(head, count)
      BY <2>1 DEF Orderly, RingHead, RingCount
    <2>3. Ascending(head, count)'
      BY <2>1, <2>2, ReceiveAscending
    <2>4. Ascending(RingHead, RingCount)'
      BY <2>1, <2>3 DEF Ascending, RingHead, RingCount, ReplaySlot
    <2>5. fileOpen'
      BY <2>1 DEF Orderly
    <2> QED BY <1>b, <2>4, <2>5 DEF Orderly
  <1>3. CASE RunTick
    BY <1>3, <1>0 DEF RunTick, up, Orderly
  <1>4. CASE RunTickSync \/ RunCancelled \/ LastSync \/ DrainDone
    BY <1>4, <1>0 DEF RunTickSync, RunCancelled, LastSync, DrainDone, AfterCancel, up, Orderly
  <1>5. CASE Cancel
    BY <1>5, <1>0 DEF Cancel, up
  <1>6. CASE CloseAfterRun
    <2>1. /\ InFile /\ pc' = "closed" /\ up /\ up' /\ ~fileOpen'
          /\ UNCHANGED <<slots, names, head, count, hdr>>
      BY <1>6 DEF CloseAfterRun, Orderly, Saved, up
    <2>2. InFile'
      BY <2>1 DEF InFile, HeaderOf
    <2>3. Ascending(RingHead, RingCount)'
      BY <2>1 DEF Orderly, Ascending, RingHead, RingCount, ReplaySlot
    <2> QED BY <1>b, <2>1, <2>2, <2>3 DEF Orderly
  <1>7. CASE Exit
    <2>1. up /\ ~up' /\ hdr = HeaderOf(head, count, names) /\ UNCHANGED <<hdr, slots>>
      BY <1>7 DEF Exit, Forget, up, Orderly, InFile
    <2>2. hdr # NoHeader
      BY <2>1 DEF Attributed
    <2>3. hdr.head = head /\ hdr.count = count
      BY <2>1 DEF HeaderOf
    <2>4. RingHead' = RingHead /\ RingCount' = RingCount
      BY <2>1, <2>2, <2>3 DEF RingHead, RingCount
    <2>5. Ascending(RingHead, RingCount)'
      BY <2>1, <2>4 DEF Orderly, Ascending, ReplaySlot
    <2> QED BY <1>b, <2>1, <2>5 DEF Orderly
  <1>8. CASE CloseTimeout \/ Kill \/ WriteBack \/ PowerFail
    BY <1>8, <1>a DEF CloseTimeout, Kill, WriteBack, PowerFail
  <1>9. CASE Start
    <2>1. ~up /\ up' /\ fileOpen' /\ UNCHANGED slots
      BY <1>9 DEF Start, up
    <2>2. CASE Reusable(hdr, names')
      <3>1. RingHead' = RingHead /\ RingCount' = RingCount
        BY <1>9, <2>1, <2>2 DEF Start, Reusable, RingHead, RingCount
      <3>2. Ascending(RingHead, RingCount)'
        BY <2>1, <3>1 DEF Orderly, Ascending, ReplaySlot
      <3> QED BY <1>b, <2>1, <3>2 DEF Orderly
    <2>3. CASE ~Reusable(hdr, names')
      <3>1. RingCount' = 0
        BY <1>9, <2>1, <2>3 DEF Start, Reinit, RingCount
      <3>2. Ascending(RingHead, RingCount)'
        BY <3>1 DEF Ascending
      <3> QED BY <1>b, <2>1, <3>2 DEF Orderly
    <2> QED BY <2>2, <2>3
  <1>10. CASE OpenFails \/ UNCHANGED vars
    <2>1. Ascending(RingHead, RingCount)'
      BY <1>10 DEF OpenFails, vars, up, Orderly, Ascending, RingHead, RingCount, ReplaySlot
    <2> QED BY <1>10, <1>b, <2>1 DEF OpenFails, vars, up, Orderly, InFile, HeaderOf
  <1> QED
    BY <1>1, <1>2, <1>3, <1>4, <1>5, <1>6, <1>7, <1>8, <1>9, <1>10 DEF Next, Run

LEMMA OrderlyCorrect ==
  ASSUME NamesFit, PowerLoss = FALSE, MaxFaults = 0
  PROVE  Spec => []Orderly
  <1>1. Init => Orderly
    BY DEF Init, Orderly, Saved, Ascending, RingHead, RingCount, up
  <1>2. TypeOK /\ RingShape /\ Attributed /\ Dated /\ Orderly /\ [Next]_vars => Orderly'
    BY OrderlyNext
  <1> QED BY <1>1, <1>2, InvCorrect, PTL DEF Spec

\* Where nothing fails, Replay yields the samples of a target oldest first, over stops
\* and restarts and however often the ring has wrapped (history.go:236-255).
THEOREM ReplayAscends ==
  ASSUME NamesFit, PowerLoss = FALSE, MaxFaults = 0
  PROVE  Spec => []ReplayInOrder
  <1>1. TypeOK /\ RingShape /\ Attributed /\ Orderly => ReplayInOrder
    <2> SUFFICES ASSUME TypeOK, RingShape, Attributed, Orderly,
                        NEW i \in DOMAIN Replay, NEW j \in DOMAIN Replay,
                        i < j, names[Replay[i].id] = names[Replay[j].id]
                 PROVE  Replay[i].t < Replay[j].t
      BY DEF ReplayInOrder
    <2>1. Replay = Records(head, count) /\ count \in Nat /\ count \in 0 .. Capacity /\ head \in Slot
      BY ReplayIs, SizesAssumption DEF TypeOK
    <2>2. i - 1 \in 0 .. count - 1 /\ j - 1 \in 0 .. count - 1 /\ i - 1 < j - 1
      BY <2>1 DEF Records
    <2>3. up
      BY <2>2 DEF Attributed
    <2>4. Ascending(head, count)
      BY <2>3 DEF Orderly, RingHead, RingCount
    <2> DEFINE s == ReplaySlot(head, count, i - 1)
               q == ReplaySlot(head, count, j - 1)
    <2>5. Replay[i] = slots[s] /\ Replay[j] = slots[q]
      BY <2>1 DEF Records
    <2>6. s \in Live(head, count) /\ q \in Live(head, count)
      BY <2>1, <2>2, ReplayReadsLive
    <2>7. slots[s].tgt = slots[q].tgt => slots[s].t < slots[q].t
      BY <2>2, <2>4 DEF Ascending
    <2> HIDE DEF s, q
    <2>8. names[slots[s].id] = slots[s].tgt /\ names[slots[q].id] = slots[q].tgt
      BY <2>3, <2>6 DEF Attributed, Sound
    <2> QED BY <2>5, <2>7, <2>8
  <1> QED BY <1>1, InvCorrect, OrderlyCorrect, PTL

(***************************************************************************)
(* The ring implements the log.                                            *)
(***************************************************************************)

Sample1(h, c, i) == SampleIn(slots[ReplaySlot(h, c, i - 1)])

\* The log of a ring: its samples in the order of Replay.
LogRing == [i \in 1 .. RingCount |-> Sample1(RingHead, RingCount, i)]

\* The strengthening that the refinement needs.
RingInv == TypeOK /\ RingShape /\ Attributed /\ Dated

\* The log that the ring implements is that of its records' own targets.
LEMMA LogIs == RingInv => LogOf = LogRing
  <1> SUFFICES ASSUME RingInv PROVE LogOf = LogRing
    OBVIOUS
  <1>1. ASSUME NEW h \in Slot, NEW c \in 0 .. Capacity, NEW nm, Sound(h, c, nm)
        PROVE  [i \in DOMAIN Records(h, c) |-> Shown(Records(h, c)[i], nm)]
                 = [i \in 1 .. c |-> Sample1(h, c, i)]
    <2>1. ASSUME NEW i \in 1 .. c PROVE Shown(Records(h, c)[i], nm) = Sample1(h, c, i)
      <3>1. i - 1 \in 0 .. c - 1
        BY SizesAssumption
      <3> DEFINE s == ReplaySlot(h, c, i - 1)
      <3>2. s \in Live(h, c) /\ Records(h, c)[i] = slots[s] /\ Sample1(h, c, i) = SampleIn(slots[s])
        BY <3>1, ReplayReadsLive DEF Records, Sample1
      <3> HIDE DEF s
      <3>3. nm[slots[s].id] = slots[s].tgt
        BY <1>1, <3>2 DEF Sound
      <3> QED BY <3>2, <3>3 DEF Shown, SampleIn
    <2>2. DOMAIN Records(h, c) = 1 .. c
      BY DEF Records
    <2> QED BY <2>1, <2>2
  <1>2. CASE up
    <2>1. /\ head \in Slot /\ count \in 0 .. Capacity
          /\ Sound(head, count, names) /\ Replay = Records(head, count)
      BY <1>2, ReplayIs DEF RingInv, TypeOK, Attributed
    <2> QED BY <1>1, <1>2, <2>1 DEF LogOf, LogRing, RingHead, RingCount
  <1>3. CASE ~up /\ hdr # NoHeader
    <2>1. hdr.head \in Slot /\ hdr.count \in 0 .. Capacity /\ Sound(hdr.head, hdr.count, hdr.names)
          /\ Recoverable = Records(hdr.head, hdr.count)
      BY <1>3, RecoverableIs DEF RingInv, TypeOK, Attributed, Header
    <2> QED BY <1>1, <1>3, <2>1 DEF LogOf, LogRing, RingHead, RingCount
  <1>4. CASE ~up /\ hdr = NoHeader
    <2>1. Recoverable = <<>> /\ RingCount = 0 /\ DOMAIN Recoverable = {}
      BY <1>4 DEF Recoverable, RingCount
    <2>2. LogOf = [i \in {} |-> Shown(Recoverable[i], hdr.names)]
      BY <1>4, <2>1 DEF LogOf
    <2>3. LogRing = [i \in {} |-> Sample1(RingHead, RingCount, i)]
      BY <2>1 DEF LogRing
    <2> QED BY <2>2, <2>3
  <1> QED BY <1>2, <1>3, <1>4

\* The same, after a step.
LEMMA LogIsNext == RingInv' => LogOf' = LogRing'
  <1>1. (RingInv => LogOf = LogRing)'
    BY LogIs, PTL
  <1> QED BY <1>1

\* A list without repetition of some of a log's entries is one that a fault may leave.
LEMMA FaultLeaves ==
  ASSUME NEW A, NEW c \in Nat, NEW F, F = [i \in 1 .. c |-> F[i]],
         \A i, j \in 1 .. c : i # j => F[i] # F[j],
         \A i \in 1 .. c : F[i] \in Log!ToSet(A)
  PROVE  F \in Log!SetToAllKPermutations(Log!ToSet(A))
  <1> DEFINE T == {F[i] : i \in DOMAIN F}
  <1>1. DOMAIN F = 1 .. c
    OBVIOUS
  <1>2. Cardinality(T) = c /\ T \subseteq Log!ToSet(A)
    BY <1>1, DistinctCount
  <1>3. F \in [1 .. c -> T]
    BY <1>1
  <1> HIDE DEF T
  <1>4. Log!Cardinality(T) = c
    <2>1. Log!Cardinality(T) = Cardinality(T)
      BY DEF Log!Cardinality, Cardinality
    <2> QED BY <1>2, <2>1
  <1>5. F \in Log!SetToSeqs(T)
    BY <1>3, <1>4 DEF Log!SetToSeqs
  <1> QED BY <1>2, <1>5 DEF Log!SetToAllKPermutations

\* A record that is written is appended to the log; the log of a full ring loses its
\* first entry (history.go:209-234).
LEMMA WriteAppends ==
  ASSUME RingInv, RingInv', Receive, up, UNCHANGED pc
  PROVE  [Log!LogNext]_<<LogOf, TableOf>>
  <1> USE DEF RingInv
  <1> DEFINE r == Head(ch)
  <1>1. r \in Sampled /\ r.tgt \in Target /\ r.t \in 1 .. MaxTime
    <2>1. ch \in Seq(Sampled) /\ ch # <<>>
      BY DEF TypeOK, Receive, Sampled
    <2>2. r = ch[1] /\ 1 \in DOMAIN ch /\ r \in Sampled
      BY <2>1, HeadTailProperties
    <2>3. r.tgt \in Target /\ r.t \in 1 .. clock[r.tgt]
      BY <2>2 DEF Sampled, Dated
    <2>4. clock[r.tgt] \in Nat /\ clock[r.tgt] <= MaxTime /\ MaxTime \in Nat
      BY <2>3, SizesAssumption DEF TypeOK, Dated
    <2> QED BY <2>2, <2>3, <2>4
  <1> HIDE DEF r
  <1>2. UNCHANGED names /\ WriteRecord(r) /\ up' /\ UNCHANGED TableOf
    BY DEF Receive, r, up, TableOf
  <1>3. LogOf = LogRing /\ LogOf' = LogRing'
    BY LogIs, LogIsNext
  <1>4. CASE WriteRefused(r) /\ UNCHANGED slots
    <2>1. LogRing' = LogRing
      BY <1>2, <1>4 DEF WriteRefused, LogRing, RingHead, RingCount, Sample1, ReplaySlot
    <2> QED BY <1>2, <1>3, <2>1
  <1>5. CASE /\ slots' = [slots EXCEPT ![head] = [id |-> NameID(r.tgt), tgt |-> r.tgt, t |-> r.t]]
             /\ Advance
    <2> DEFINE k == IF count < Capacity THEN 0 ELSE 1
               e == [tgt |-> r.tgt, t |-> r.t]
               At(i) == SampleIn(slots[ReplaySlot(head, count, i)])
               old == [i \in 1 .. count |-> At(i - 1)]
               d == count'
               new == [i \in 1 .. d |-> SampleIn(slots'[ReplaySlot(head', count', i - 1)])]
    <2>1. /\ d = count + 1 - k /\ d \in 1 .. Capacity
          /\ \A i \in 0 .. d - 2 :
               /\ i + k \in 0 .. count - 1
               /\ ReplaySlot(head', count', i) = ReplaySlot(head, count, i + k)
               /\ ReplaySlot(head', count', i) # head
          /\ ReplaySlot(head', count', d - 1) = head
      BY <1>2, <1>5, AdvanceReads
    <2>2. /\ count \in Nat /\ count \in 0 .. Capacity /\ head \in Slot /\ Capacity \in Nat
          /\ (count < Capacity => k = 0) /\ (count = Capacity => k = 1) /\ k \in {0, 1}
      BY SizesAssumption DEF TypeOK
    <2>3. /\ SampleIn(slots'[head]) = e
          /\ \A s \in Slot : s # head => slots'[s] = slots[s]
      BY <1>5, <2>2 DEF TypeOK, SampleIn
    <2>4. LogOf = old /\ LogOf' = new
      BY <1>2, <1>3 DEF LogRing, RingHead, RingCount, Sample1, ReplaySlot
    <2> HIDE DEF k, d
    <2>5. \A i \in 0 .. d - 2 : SampleIn(slots'[ReplaySlot(head', count', i)]) = At(i + k)
      <3> SUFFICES ASSUME NEW i \in 0 .. d - 2
                   PROVE  SampleIn(slots'[ReplaySlot(head', count', i)]) = At(i + k)
        OBVIOUS
      <3> DEFINE s == ReplaySlot(head, count, i + k)
      <3>1. ReplaySlot(head', count', i) = s /\ s # head /\ i + k \in 0 .. count - 1
        BY <2>1
      <3>2. s \in Slot
        BY <2>2, <3>1, ReplayReadsLive
      <3> HIDE DEF s
      <3>3. slots'[s] = slots[s]
        BY <2>3, <3>1, <3>2
      <3> QED BY <3>1, <3>3 DEF s
    <2>6. SampleIn(slots'[ReplaySlot(head', count', d - 1)]) = e
      BY <2>1, <2>3
    <2> DEFINE S == [tgt : Target, t : 1 .. MaxTime]
               R == {At(i) : i \in 0 .. count - 1} \cup {e}
               base == IF Len(old) = Capacity THEN Tail(old) ELSE old
    <2>7. e \in S
      BY <1>1
    <2> HIDE DEF e, At
    <2>8. old \in Seq(R) /\ Len(old) = count /\ \A i \in 1 .. count : old[i] = At(i - 1)
      BY <2>2
    <2>9. new \in Seq({new[i] : i \in 1 .. d}) /\ Len(new) = d
      <3>1. d \in Nat /\ DOMAIN new = 1 .. d /\ new = [i \in 1 .. d |-> new[i]]
        BY <2>1, <2>2
      <3> HIDE DEF new
      <3> QED BY <3>1
    <2>10. /\ base \in Seq(R) /\ Len(base) = count - k
           /\ \A i \in 1 .. count - k : base[i] = At(i + k - 1)
      <3> HIDE DEF old, R
      <3>1. CASE count < Capacity
        BY <2>2, <2>8, <3>1
      <3>2. CASE count = Capacity
        <4>1. old # <<>> /\ k = 1 /\ base = Tail(old)
          BY <2>2, <2>8, <3>2, SizesAssumption
        <4>2. /\ base \in Seq(R) /\ Len(base) = count - 1
              /\ \A i \in 1 .. count - 1 : base[i] = old[i + 1]
          BY <2>8, <4>1, HeadTailProperties
        <4> QED BY <2>2, <2>8, <4>1, <4>2
      <3> QED BY <2>2, <3>1, <3>2
    <2> HIDE DEF base, old, R
    <2>11. /\ Append(base, e) \in Seq(R) /\ Len(Append(base, e)) = d
           /\ \A i \in 1 .. d - 1 : Append(base, e)[i] = At(i + k - 1)
           /\ Append(base, e)[d] = e
      <3>1. e \in R
        BY DEF R
      <3>2. d = Len(base) + 1 /\ d - 1 = count - k
        BY <2>1, <2>2, <2>10
      <3> QED BY <2>2, <2>10, <3>1, <3>2, AppendProperties
    <2>12. \A i \in 1 .. d : new[i] = Append(base, e)[i]
      <3> SUFFICES ASSUME NEW i \in 1 .. d PROVE new[i] = Append(base, e)[i]
        OBVIOUS
      <3>1. d \in Int /\ k \in Int
        BY <2>1, <2>2
      <3>2. new[i] = SampleIn(slots'[ReplaySlot(head', count', i - 1)])
        OBVIOUS
      <3>3. CASE i = d
        BY <2>6, <2>11, <3>2, <3>3
      <3>4. CASE i # d
        <4>1. i \in 1 .. d - 1 /\ i - 1 \in 0 .. d - 2 /\ (i - 1) + k = i + k - 1
          BY <3>1, <3>4
        <4> QED BY <2>5, <2>11, <3>2, <4>1
      <3> QED BY <3>3, <3>4
    <2>13. new = Append(base, e)
      <3> HIDE DEF new
      <3> QED BY <2>9, <2>11, <2>12
    <2>14. Log!Write
      BY <1>2, <2>4, <2>7, <2>13 DEF Log!Write, base
    <2> QED BY <2>14 DEF Log!LogNext
  <1> QED BY <1>2, <1>4, <1>5 DEF WriteRecord

\* The end of the process leaves the file's ring: all of the log where nothing failed,
\* else some of its entries.
LEMMA EndLeaves ==
  ASSUME RingInv, RingInv', MaxFaults = 0 => Orderly, Exit \/ Kill
  PROVE  [Log!LogNext]_<<LogOf, TableOf>>
  <1> USE DEF RingInv
  <1>1. /\ up /\ ~up' /\ UNCHANGED <<hdr, slots>> /\ hdr # NoHeader
        /\ hdr \in Header /\ hdr.names = names
    BY DEF Exit, Kill, Forget, up, file, Attributed, TypeOK
  <1>2. UNCHANGED TableOf
    BY <1>1 DEF TableOf
  <1>3. LogOf = LogRing /\ LogOf' = LogRing'
    BY LogIs, LogIsNext
  <1> DEFINE c == hdr.count
             F == [i \in 1 .. c |-> Sample1(hdr.head, c, i)]
  <1>4. LogRing' = F
    BY <1>1 DEF LogRing, RingHead, RingCount, Sample1, ReplaySlot
  <1>5. CASE MaxFaults = 0
    <2>1. Exit
      BY <1>5 DEF Kill, Fault, TypeOK
    <2>2. hdr.head = head /\ hdr.count = count
      BY <1>5, <2>1 DEF Exit, Orderly, InFile, HeaderOf
    <2>3. LogRing = F
      BY <1>1, <2>2 DEF LogRing, RingHead, RingCount
    <2> QED BY <1>2, <1>3, <1>4, <2>3
  <1>6. CASE MaxFaults # 0
    <2>1. /\ hdr.head \in Slot /\ c \in 0 .. Capacity /\ c \in Nat
          /\ head \in Slot /\ count \in 0 .. Capacity /\ count \in Nat
      BY <1>1, SizesAssumption DEF TypeOK, Header
    <2>2. Live(hdr.head, c) \subseteq RingSlots /\ RingSlots = Live(head, count)
      BY <1>1, FileRingInMemory DEF RingSlots, RingHead, RingCount
    <2>3. \A i, j \in 1 .. c : i # j => F[i] # F[j]
      <3>1. \A i \in 1 .. c : F[i] = SampleIn(Records(hdr.head, c)[i])
        BY DEF Records, Sample1
      <3>2. \A i, j \in 1 .. c :
               i # j => SampleIn(Records(hdr.head, c)[i]) # SampleIn(Records(hdr.head, c)[j])
        <4> HIDE DEF F, c
        <4> QED BY <2>1, <2>2, SamplesDiffer
      <3> HIDE DEF F, c
      <3> QED BY <3>1, <3>2
    <2>4. \A i \in 1 .. c : F[i] \in Log!ToSet(LogRing)
      <3> SUFFICES ASSUME NEW i \in 1 .. c PROVE F[i] \in Log!ToSet(LogRing)
        OBVIOUS
      <3>1. i - 1 \in 0 .. c - 1
        BY <2>1
      <3> DEFINE s == ReplaySlot(hdr.head, c, i - 1)
      <3>2. s \in Live(head, count) /\ F[i] = SampleIn(slots[s])
        BY <2>1, <2>2, <3>1, ReplayReadsLive DEF Sample1
      <3> HIDE DEF s
      <3>3. PICK j \in 0 .. count - 1 : ReplaySlot(head, count, j) = s
        BY <2>1, <3>2, ReadsEachOnce
      <3>4. j + 1 \in 1 .. count /\ (j + 1) - 1 = j
        BY <2>1
      <3>5. LogRing = [m \in 1 .. count |-> Sample1(head, count, m)]
        BY <1>1 DEF LogRing, RingHead, RingCount
      <3>6. j + 1 \in DOMAIN LogRing /\ LogRing[j + 1] = SampleIn(slots[s])
        BY <3>3, <3>4, <3>5 DEF Sample1
      <3> QED BY <3>2, <3>6 DEF Log!ToSet
    <2>5. F = [i \in 1 .. c |-> F[i]]
      OBVIOUS
    <2> HIDE DEF F, c
    <2>6. F \in Log!SetToAllKPermutations(Log!ToSet(LogRing))
      BY <2>1, <2>3, <2>4, <2>5, FaultLeaves
    <2>7. MaxFaults > 0
      BY <1>6, SizesAssumption
    <2>8. Log!LogFault
      BY <1>2, <1>3, <1>4, <2>6, <2>7 DEF Log!LogFault
    <2> QED BY <2>8 DEF Log!LogNext
  <1> QED BY <1>5, <1>6

\* A start takes the log over, or begins an empty one for another table.
LEMMA StartKeeps ==
  ASSUME RingInv, RingInv', Start
  PROVE  [Log!LogNext]_<<LogOf, TableOf>>
  <1> USE DEF RingInv
  <1>1. ~up /\ up' /\ UNCHANGED slots /\ TableOf' = names'
    BY DEF Start, up, TableOf
  <1>2. LogOf = LogRing /\ LogOf' = LogRing'
    BY LogIs, LogIsNext
  <1>3. CASE Reusable(hdr, names')
    <2>1. TableOf' = TableOf
      BY <1>1, <1>3 DEF Reusable, TableOf
    <2>2. LogRing' = LogRing
      BY <1>1, <1>3 DEF Start, Reusable, LogRing, RingHead, RingCount, Sample1, ReplaySlot
    <2> QED BY <1>2, <2>1, <2>2
  <1>4. CASE ~Reusable(hdr, names')
    <2>1. RingCount' = 0
      BY <1>1, <1>4 DEF Start, Reinit, RingCount
    <2>2. LogRing' = <<>>
      BY <2>1 DEF LogRing
    <2>3. CASE TableOf' # TableOf
      <3>1. Log!Reconfigure
        BY <1>2, <2>2, <2>3 DEF Log!Reconfigure
      <3> QED BY <3>1 DEF Log!LogNext
    <2>4. CASE TableOf' = TableOf
      <3>1. hdr = NoHeader
        <4> SUFFICES ASSUME hdr # NoHeader PROVE FALSE
          OBVIOUS
        <4>1. hdr.names = names' /\ hdr.head \in Slot /\ hdr.count \in 0 .. Capacity
          BY <1>1, <2>4 DEF TableOf, TypeOK, Header
        <4> QED BY <1>4, <4>1 DEF Reusable
      <3>2. RingCount = 0
        BY <1>1, <3>1 DEF RingCount
      <3>3. LogRing = <<>>
        BY <3>2 DEF LogRing
      <3> QED BY <1>2, <2>2, <2>4, <3>3
    <2> QED BY <2>3, <2>4
  <1> QED BY <1>3, <1>4

\* Every step of the ring is a step of the log, or none.
LEMMA StepImplements ==
  ASSUME PowerLoss = FALSE, RingInv, RingInv', MaxFaults = 0 => Orderly, [Next]_vars
  PROVE  [Log!LogNext]_<<LogOf, TableOf>>
  <1> USE DEF memory, file, safe, bounds
  <1>0. ASSUME UNCHANGED <<slots, names, head, count>>, up, up'
        PROVE  UNCHANGED <<LogOf, TableOf>>
    <2>1. LogRing' = LogRing
      BY <1>0 DEF LogRing, RingHead, RingCount, Sample1, ReplaySlot
    <2> QED BY <1>0, <2>1, LogIs, LogIsNext DEF TableOf
  <1>1. ASSUME NEW n \in Target, Sample(n) PROVE [Log!LogNext]_<<LogOf, TableOf>>
    BY <1>1, <1>0 DEF Sample, up
  <1>2. CASE RunReceive \/ DrainReceive
    BY <1>2, WriteAppends DEF RunReceive, DrainReceive, Receive, up
  <1>3. CASE RunTick \/ RunTickSync \/ RunCancelled \/ LastSync \/ DrainDone
    BY <1>3, <1>0 DEF RunTick, RunTickSync, RunCancelled, LastSync, DrainDone, AfterCancel, up
  <1>4. CASE Cancel \/ CloseAfterRun \/ CloseTimeout
    BY <1>4, <1>0 DEF Cancel, CloseAfterRun, CloseTimeout, up
  <1>5. CASE Exit \/ Kill
    BY <1>5, EndLeaves
  <1>6. CASE WriteBack \/ PowerFail
    BY <1>6 DEF WriteBack, PowerFail
  <1>7. CASE Start
    BY <1>7, StartKeeps
  <1>8. CASE OpenFails \/ UNCHANGED vars
    <2>1. UNCHANGED <<pc, hdr, slots, names, head, count>>
      BY <1>8 DEF OpenFails, vars
    <2>2. UNCHANGED TableOf
      BY <2>1 DEF TableOf, up
    <2>3. LogRing' = LogRing
      BY <2>1 DEF LogRing, RingHead, RingCount, Sample1, ReplaySlot, up
    <2> QED BY <2>2, <2>3, LogIs, LogIsNext
  <1> QED
    BY <1>1, <1>2, <1>3, <1>4, <1>5, <1>6, <1>7, <1>8 DEF Next, Run

\* The file ring implements a log of the last Capacity samples: a start with the table of
\* the file continues it, and only a fault loses or reorders entries (PLAN.md:452-462).
THEOREM RingImplementsLog ==
  ASSUME NamesFit, PowerLoss = FALSE
  PROVE  Spec => ImplementsLog
  <1>1. Init => Log!LogInit
    <2> SUFFICES ASSUME Init PROVE Log!LogInit
      OBVIOUS
    <2>1. ~up /\ hdr = NoHeader /\ Recoverable = <<>>
      BY DEF Init, up, Recoverable
    <2>2. LogOf = <<>>
      BY <2>1 DEF LogOf
    <2>3. TableOf = <<>>
      BY <2>1 DEF TableOf
    <2> QED BY <2>2, <2>3 DEF Log!LogInit
  <1>2. RingInv /\ RingInv' /\ (MaxFaults = 0 => Orderly) /\ [Next]_vars
          => [Log!LogNext]_<<LogOf, TableOf>>
    BY StepImplements
  <1>3. Spec => []RingInv
    BY InvCorrect, PTL DEF RingInv
  <1>4. CASE MaxFaults = 0
    <2>1. RingInv /\ RingInv' /\ Orderly /\ [Next]_vars => [Log!LogNext]_<<LogOf, TableOf>>
      BY <1>2
    <2> QED BY <1>1, <1>3, <1>4, <2>1, OrderlyCorrect, PTL DEF Spec, ImplementsLog, Log!LogSpec
  <1>5. CASE MaxFaults # 0
    <2>1. RingInv /\ RingInv' /\ [Next]_vars => [Log!LogNext]_<<LogOf, TableOf>>
      BY <1>2, <1>5
    <2> QED BY <1>1, <1>3, <2>1, PTL DEF Spec, ImplementsLog, Log!LogSpec
  <1> QED BY <1>4, <1>5
=============================================================================
