-------------------------- MODULE HostStat_proofs --------------------------
(***************************************************************************)
(* Proofs about HostStat, for any interfaces: the rates that are shown are *)
(* real, a load is a share unless iowait fell just between the two         *)
(* readings it is made of, and the figures of the links lose no change.    *)
(***************************************************************************)
EXTENDS HostStat, TLAPS

(***************************************************************************)
(* The inductive invariant.                                                *)
(***************************************************************************)

\* What an interface had carried when its counter began at zero, or has carried
\* if it is away.
Base(i) == carried[i] - (IF i \in present THEN bytes[i] ELSE 0)

\* A reading r of a counter is not from the future, and its counter began no later
\* than one that began at b.
Past(r, total, b) == r.bytes <= r.total /\ r.total <= total /\ r.total - r.bytes <= b

\* Readings are ordered in time: the one remembered, the one just made, and now.
Ordered(i) ==
    /\ bytes[i] <= carried[i]
    /\ read[i] # None => Past(read[i], carried[i], Base(i))
    /\ rateStates[i] # None =>
         /\ Past(rateStates[i], carried[i], Base(i)) /\ rateStates[i].at <= at
         /\ read[i] # None => Past(rateStates[i], read[i].total, read[i].total - read[i].bytes)

\* A collection has a time; what is remembered of the CPU is its last reading.
Stamped ==
    /\ pc # "idle" => at >= 0
    /\ prevCpu # None => prevCpu = [idle |-> cpu.idle, total |-> Total(cpu), iowait |-> cpu.iowait]

IInv ==
    /\ TypeOK /\ Stamped
    /\ \A i \in Iface : Ordered(i)
    /\ RateIsReal /\ LoadRecovers

(***************************************************************************)
(* Lemmas.                                                                 *)
(***************************************************************************)

LEMMA Bounds == MaxTime \in Nat /\ MaxBytes \in Nat /\ MaxCpu \in Nat
  BY HostAssumption

LEMMA InitOrdered == Init => IInv
  <1> SUFFICES ASSUME Init PROVE IInv
    OBVIOUS
  <1> USE Bounds DEF Init, Never
  <1>1. cpu \in Counters
    BY DEF Counters, Total
  <1>2. shown \in [ifs : [Iface -> {None} \cup ShowType], load : {None} \cup LoadType]
    OBVIOUS
  <1>3. TypeOK
    BY <1>1, <1>2 DEF TypeOK
  <1>4. Stamped
    BY DEF Stamped
  <1>5. \A i \in Iface : Ordered(i)
    BY DEF Ordered
  <1>6. RateIsReal /\ LoadRecovers
    BY DEF RateIsReal, LoadRecovers
  <1> QED BY <1>3, <1>4, <1>5, <1>6 DEF IInv

\* Time passes, and links go up and down.
LEMMA QuietOrdered ==
  ASSUME IInv, Time \/ \E i \in Iface : Flap(i)
  PROVE  IInv'
  <1> USE Bounds
  <1>1. /\ now' \in 0 .. MaxTime /\ now' >= now /\ link' \in [Iface -> BOOLEAN]
        /\ UNCHANGED <<present, bytes, carried, cpu, pc, at, todo, read>>
        /\ UNCHANGED <<linkStates, rateStates, prevCpu, shown>>
    <2>1. now \in 0 .. MaxTime /\ link \in [Iface -> BOOLEAN]
      BY DEF IInv, TypeOK
    <2>2. CASE Time
      BY <2>1, <2>2 DEF Time, host, trackers
    <2>3. CASE \E i \in Iface : Flap(i)
      BY <2>1, <2>3 DEF Flap, trackers
    <2> QED BY <2>2, <2>3
  <1>2. TypeOK'
    BY <1>1 DEF IInv, TypeOK, Never
  <1>3. Stamped' /\ \A i \in Iface : Ordered(i)'
    BY <1>1 DEF IInv, Stamped, Ordered, Base, Past
  <1>4. RateIsReal' /\ LoadRecovers'
    BY <1>1 DEF IInv, RateIsReal, LoadRecovers
  <1> QED BY <1>2, <1>3, <1>4 DEF IInv

\* What the host does to one interface does not reach the others.
LEMMA HostOrdered ==
  ASSUME IInv, NEW i \in Iface,
         bytes' \in [Iface -> 0 .. MaxBytes], carried' \in [Iface -> 0 .. MaxBytes],
         present' \subseteq Iface, Ordered(i)',
         \A j \in Iface \ {i} :
            bytes'[j] = bytes[j] /\ carried'[j] = carried[j] /\ (j \in present' <=> j \in present),
         UNCHANGED <<now, link, cpu, pc, at, todo, read>>,
         UNCHANGED <<linkStates, rateStates, prevCpu, shown>>
  PROVE  IInv'
  <1>1. TypeOK'
    BY DEF IInv, TypeOK
  <1>2. \A j \in Iface : Ordered(j)'
    BY DEF IInv, Ordered, Base, Past
  <1>3. Stamped' /\ RateIsReal' /\ LoadRecovers'
    BY DEF IInv, Stamped, RateIsReal, LoadRecovers
  <1> QED BY <1>1, <1>2, <1>3 DEF IInv

\* The types of what is read and remembered of an interface.
LEMMA ReadingTypes ==
  ASSUME TypeOK, NEW i \in Iface
  PROVE  /\ bytes[i] \in 0 .. MaxBytes /\ carried[i] \in 0 .. MaxBytes
         /\ read[i] # None => read[i] \in ReadType
         /\ rateStates[i] # None => rateStates[i] \in RateType
         /\ linkStates[i] # None => linkStates[i] \in LinkType
  BY DEF TypeOK

LEMMA CarryOrdered == ASSUME IInv, NEW i \in Iface, Carry(i) PROVE IInv'
  <1> USE Bounds
  <1>1. TypeOK
    BY DEF IInv
  <1>2. /\ i \in present /\ carried[i] < MaxBytes
        /\ bytes'[i] = bytes[i] + 1 /\ carried'[i] = carried[i] + 1
        /\ \A j \in Iface \ {i} : bytes'[j] = bytes[j] /\ carried'[j] = carried[j]
        /\ UNCHANGED <<now, link, cpu, pc, at, todo, read, present>>
        /\ UNCHANGED <<linkStates, rateStates, prevCpu, shown>>
    BY DEF IInv, TypeOK, Carry, trackers
  <1>3. Ordered(i) /\ bytes[i] \in 0 .. MaxBytes /\ carried[i] \in 0 .. MaxBytes
    BY <1>1, ReadingTypes DEF IInv
  <1>4. bytes'[i] \in 0 .. MaxBytes /\ carried'[i] \in 0 .. MaxBytes
    BY <1>2, <1>3 DEF Ordered
  <1>5. bytes' \in [Iface -> 0 .. MaxBytes] /\ carried' \in [Iface -> 0 .. MaxBytes]
    BY <1>4 DEF Carry, IInv, TypeOK
  <1>6. Base(i)' = Base(i)
    BY <1>2, <1>3 DEF Base
  <1>7. Ordered(i)'
    BY <1>1, <1>2, <1>3, <1>6, ReadingTypes DEF Ordered, Past, ReadType, RateType
  <1>8. present' \subseteq Iface
    BY <1>1, <1>2 DEF TypeOK
  <1> QED BY <1>2, <1>5, <1>7, <1>8, HostOrdered

LEMMA UnplugOrdered == ASSUME IInv, NEW i \in Iface, Unplug(i) PROVE IInv'
  <1>1. TypeOK
    BY DEF IInv
  <1>2. /\ i \in present /\ present' = present \ {i}
        /\ UNCHANGED <<now, link, cpu, pc, at, todo, read, bytes, carried>>
        /\ UNCHANGED <<linkStates, rateStates, prevCpu, shown>>
    BY DEF Unplug, trackers
  <1>3. Ordered(i) /\ bytes[i] \in 0 .. MaxBytes /\ carried[i] \in 0 .. MaxBytes
    BY <1>1, ReadingTypes DEF IInv
  <1>4. Base(i) \in Int /\ Base(i)' \in Int /\ Base(i) <= Base(i)'
    BY <1>2, <1>3, Bounds DEF Base
  <1>5. Ordered(i)'
    BY <1>1, <1>2, <1>3, <1>4, Bounds, ReadingTypes DEF Ordered, Past, ReadType, RateType
  <1>6. /\ bytes' \in [Iface -> 0 .. MaxBytes] /\ carried' \in [Iface -> 0 .. MaxBytes]
        /\ present' \subseteq Iface
        /\ \A j \in Iface \ {i} :
              bytes'[j] = bytes[j] /\ carried'[j] = carried[j] /\ (j \in present' <=> j \in present)
    BY <1>1, <1>2 DEF TypeOK
  <1> QED BY <1>2, <1>5, <1>6, HostOrdered

\* An interface comes: its counter begins now.
LEMMA PlugOrdered == ASSUME IInv, NEW i \in Iface, Plug(i) PROVE IInv'
  <1>1. TypeOK
    BY DEF IInv
  <1>2. /\ i \notin present /\ present' = present \cup {i} /\ bytes' = [bytes EXCEPT ![i] = 0]
        /\ UNCHANGED <<now, link, cpu, pc, at, todo, read, carried>>
        /\ UNCHANGED <<linkStates, rateStates, prevCpu, shown>>
    BY DEF Plug, trackers
  <1>3. Ordered(i) /\ bytes[i] \in 0 .. MaxBytes /\ carried[i] \in 0 .. MaxBytes
    BY <1>1, ReadingTypes DEF IInv
  <1>4. bytes'[i] = 0 /\ bytes' \in [Iface -> 0 .. MaxBytes]
    BY <1>1, <1>2, Bounds DEF TypeOK
  <1>5. Base(i)' = Base(i)
    BY <1>2, <1>3, <1>4 DEF Base
  <1>6. Ordered(i)'
    BY <1>1, <1>2, <1>3, <1>4, <1>5 DEF Ordered, Past
  <1>7. /\ carried' \in [Iface -> 0 .. MaxBytes] /\ present' \subseteq Iface
        /\ \A j \in Iface \ {i} :
              bytes'[j] = bytes[j] /\ carried'[j] = carried[j] /\ (j \in present' <=> j \in present)
    BY <1>1, <1>2 DEF TypeOK
  <1> QED BY <1>2, <1>4, <1>6, <1>7, HostOrdered

LEMMA StartOrdered == ASSUME IInv, Start \/ List PROVE IInv'
  <1> USE Bounds
  <1>1. /\ at' \in 0 .. now /\ at' >= at /\ pc' \in {"list", "read", "cpu"}
        /\ todo' \subseteq Iface
        /\ UNCHANGED <<now, present, link, bytes, carried, cpu, read>>
        /\ UNCHANGED <<linkStates, rateStates, prevCpu, shown>>
    <2>1. /\ now \in 0 .. MaxTime /\ at \in -1 .. now /\ (pc # "idle" => at >= 0)
          /\ present \subseteq Iface /\ todo \subseteq Iface
      BY DEF IInv, TypeOK, Stamped, Never
    <2>2. CASE Start
      BY <2>1, <2>2 DEF Start, host, trackers
    <2>3. CASE List
      BY <2>1, <2>3 DEF List, host, trackers
    <2> QED BY <2>2, <2>3
  <1>2. TypeOK'
    BY <1>1 DEF IInv, TypeOK, Never
  <1>3. Stamped' /\ RateIsReal' /\ LoadRecovers'
    BY <1>1 DEF IInv, Stamped, RateIsReal, LoadRecovers
  <1>4. ASSUME NEW i \in Iface PROVE Ordered(i)'
    <2>1. rateStates[i] # None /\ rateStates[i].at <= at => rateStates[i].at <= at'
      BY <1>1, ReadingTypes DEF IInv, TypeOK, RateType, Never
    <2> QED BY <1>1, <2>1 DEF IInv, Ordered, Base, Past
  <1> QED BY <1>2, <1>3, <1>4 DEF IInv

\* An interface is read: what it shows is of now.
LEMMA ReadOrdered == ASSUME IInv, NEW i \in Iface, Read(i) PROVE IInv'
  <1> USE Bounds
  <1> DEFINE r == [bytes |-> IF i \in present THEN bytes[i] ELSE 0,
                   up |-> i \in present /\ link[i], total |-> carried[i]]
  <1>1. TypeOK
    BY DEF IInv
  <1>2. /\ read' = [read EXCEPT ![i] = r] /\ todo' \subseteq Iface
        /\ UNCHANGED <<now, present, link, bytes, carried, cpu, pc, at>>
        /\ UNCHANGED <<linkStates, rateStates, prevCpu, shown>>
    BY <1>1 DEF Read, host, trackers, TypeOK
  <1>3. Ordered(i) /\ bytes[i] \in 0 .. MaxBytes /\ carried[i] \in 0 .. MaxBytes
    BY <1>1, ReadingTypes DEF IInv
  <1>4. /\ r \in ReadType /\ r.total = carried[i] /\ r.total - r.bytes = Base(i)
        /\ r.bytes <= r.total
    <2>1. link[i] \in BOOLEAN /\ r.up \in BOOLEAN
      BY <1>1 DEF TypeOK
    <2>2. r.bytes \in 0 .. MaxBytes
      BY <1>3
    <2>3. r.total - r.bytes = Base(i) /\ r.bytes <= r.total
      BY <1>3 DEF Base, Ordered
    <2> QED BY <1>3, <2>1, <2>2, <2>3 DEF ReadType
  <1> HIDE DEF r
  <1>5. read'[i] = r /\ \A j \in Iface \ {i} : read'[j] = read[j]
    BY <1>1, <1>2 DEF TypeOK
  <1>6. TypeOK'
    BY <1>1, <1>2, <1>4 DEF TypeOK
  <1>7. Ordered(i)'
    <2>1. carried[i] \in Int /\ Base(i) \in Int
      BY <1>3 DEF Base
    <2> QED BY <1>2, <1>3, <1>4, <1>5, <2>1 DEF Ordered, Past, Base
  <1>8. \A j \in Iface \ {i} : Ordered(j)'
    BY <1>2, <1>5 DEF IInv, Ordered, Past, Base
  <1>9. Stamped' /\ RateIsReal' /\ LoadRecovers'
    BY <1>2 DEF IInv, Stamped, RateIsReal, LoadRecovers
  <1> QED BY <1>6, <1>7, <1>8, <1>9 DEF IInv

\* Integer division rounds down.
LEMMA DivBound ==
  ASSUME NEW a \in Nat, NEW d \in Nat \ {0}
  PROVE  a \div d \in Nat /\ (a \div d) * d <= a
  OBVIOUS

\* The trackers make figures of a reading and of the one before it.
LEMMA TrackOrdered == ASSUME IInv, Track PROVE IInv'
  <1> USE Bounds
  <1>1. TypeOK /\ at \in 0 .. MaxTime
    BY DEF IInv, TypeOK, Stamped, Track, Never
  <1>2. /\ UNCHANGED <<now, present, link, bytes, carried, cpu, at, todo, prevCpu>>
        /\ pc' = "cpu" /\ read' = [i \in Iface |-> None]
    BY DEF Track, host
  <1> DEFINE new(i) == [link |-> TrackLink(i), rate |-> Rate(i), at |-> at,
                        dt |-> IF rateStates[i] = None THEN 0 ELSE at - rateStates[i].at,
                        moved |-> read[i].total - (IF rateStates[i] = None THEN 0 ELSE rateStates[i].total)]
             last(i) == [bytes |-> read[i].bytes, at |-> at, total |-> read[i].total]
  <1>3. /\ linkStates' = [i \in Iface |-> IF read[i] = None THEN linkStates[i] ELSE TrackLink(i)]
        /\ rateStates' = [i \in Iface |-> IF read[i] = None THEN rateStates[i] ELSE last(i)]
        /\ shown' = [shown EXCEPT !.ifs = [i \in Iface |-> IF read[i] = None THEN shown.ifs[i] ELSE new(i)]]
    BY DEF Track, Kept
  <1>4. ASSUME NEW i \in Iface, read[i] # None
        PROVE  /\ last(i) \in RateType /\ TrackLink(i) \in LinkType /\ new(i) \in ShowType
               /\ new(i).rate * new(i).dt <= new(i).moved
    <2>1. read[i] \in ReadType /\ read[i].bytes \in 0 .. MaxBytes /\ read[i].total \in 0 .. MaxBytes
          /\ read[i].up \in BOOLEAN
      BY <1>1, <1>4, ReadingTypes DEF ReadType
    <2>2. last(i) \in RateType
      BY <1>1, <2>1 DEF RateType
    <2>3. TrackLink(i) \in LinkType
      <3>1. linkStates[i] # None => linkStates[i] \in LinkType
        BY <1>1, ReadingTypes
      <3>2. CASE linkStates[i] = None
        BY <3>2, <2>1 DEF TrackLink, Kept, LinkType, Never
      <3>3. CASE linkStates[i] # None
        <4>1. linkStates[i].changes + 1 \in Nat
          BY <3>1, <3>3 DEF LinkType
        <4>2. at \in Never .. MaxTime
          BY <1>1 DEF Never
        <4> QED BY <3>1, <3>3, <4>1, <4>2, <2>1 DEF TrackLink, Kept, LinkType
      <3> QED BY <3>2, <3>3
    <2>4. /\ new(i).rate \in Nat /\ new(i).dt \in 0 .. MaxTime /\ new(i).moved \in 0 .. MaxBytes
          /\ new(i).rate * new(i).dt <= new(i).moved
      <3>1. CASE rateStates[i] = None
        <4>1. new(i).rate = 0 /\ new(i).dt = 0 /\ new(i).moved = read[i].total
          BY <3>1, <2>1 DEF Rate
        <4> QED BY <4>1, <2>1
      <3>2. CASE rateStates[i] # None
        <4> DEFINE rs == rateStates[i]
                   a  == Delta(rs.bytes, read[i].bytes)
                   d  == at - rs.at
        <4>1. /\ rs.bytes \in 0 .. MaxBytes /\ rs.at \in 0 .. MaxTime /\ rs.total \in 0 .. MaxBytes
              /\ rs.at <= at /\ rs.total <= read[i].total
              /\ rs.total - rs.bytes <= read[i].total - read[i].bytes
          <5>1. rs \in RateType /\ Ordered(i)
            BY <1>1, <3>2, ReadingTypes DEF IInv
          <5> QED BY <5>1, <1>4, <3>2 DEF RateType, Ordered, Past
        <4>2. d \in 0 .. MaxTime /\ new(i).dt = d
          BY <1>1, <3>2, <4>1
        <4>3. new(i).moved = read[i].total - rs.total /\ new(i).moved \in 0 .. MaxBytes
          BY <2>1, <3>2, <4>1
        <4>4. a \in Nat /\ a <= new(i).moved
          BY <2>1, <4>1, <4>3 DEF Delta
        <4>5. CASE at <= rs.at
          <5>1. new(i).rate = 0 /\ d = 0
            BY <4>5, <1>1, <4>1 DEF Rate
          <5> QED BY <5>1, <4>2, <4>3
        <4>6. CASE ~(at <= rs.at)
          <5>1. new(i).rate = a \div d /\ d \in Nat \ {0}
            BY <4>6, <3>2, <1>1, <4>1 DEF Rate
          <5>2. a \div d \in Nat /\ (a \div d) * d <= a
            BY <4>4, <5>1, DivBound
          <5> HIDE DEF a, d, new, rs
          <5> DEFINE p == (a \div d) * d
          <5>3. p \in Int /\ p <= a
            BY <5>1, <5>2
          <5> HIDE DEF p
          <5>4. p <= new(i).moved
            BY <5>3, <4>3, <4>4
          <5> QED BY <5>1, <5>2, <5>4, <4>2, <4>3 DEF p
        <4> QED BY <4>5, <4>6
      <3> QED BY <3>1, <3>2
    <2>5. new(i) \in ShowType
      BY <1>1, <2>3, <2>4 DEF ShowType
    <2> QED BY <2>2, <2>3, <2>4, <2>5
  <1>5. TypeOK'
    <2>1. /\ linkStates' \in [Iface -> {None} \cup LinkType]
          /\ rateStates' \in [Iface -> {None} \cup RateType]
      <3> HIDE DEF last
      <3> QED BY <1>1, <1>3, <1>4 DEF TypeOK
    <2>2. shown' \in [ifs : [Iface -> {None} \cup ShowType], load : {None} \cup LoadType]
      <3> HIDE DEF new
      <3> QED BY <1>1, <1>3, <1>4 DEF TypeOK
    <2> QED BY <1>1, <1>2, <2>1, <2>2 DEF TypeOK
  <1>6. \A i \in Iface : Ordered(i)'
    <2> SUFFICES ASSUME NEW i \in Iface PROVE Ordered(i)'
      OBVIOUS
    <2>1. Base(i)' = Base(i) /\ read'[i] = None /\ Ordered(i)
      BY <1>2 DEF Base, IInv
    <2>2. CASE read[i] = None
      BY <1>2, <1>3, <2>1, <2>2 DEF Ordered
    <2>3. CASE read[i] # None
      BY <1>1, <1>2, <1>3, <2>1, <2>3 DEF Ordered, Past
    <2> QED BY <2>2, <2>3
  <1>7. RateIsReal'
    <2> SUFFICES ASSUME NEW i \in Iface, shown'.ifs[i] # None
                 PROVE  shown'.ifs[i].rate * shown'.ifs[i].dt <= shown'.ifs[i].moved
      BY DEF RateIsReal
    <2> HIDE DEF new
    <2>1. shown'.ifs[i] = IF read[i] = None THEN shown.ifs[i] ELSE new(i)
      BY <1>1, <1>3 DEF TypeOK
    <2>2. CASE read[i] = None
      BY <2>1, <2>2 DEF IInv, RateIsReal
    <2>3. CASE read[i] # None
      BY <2>1, <2>3, <1>4
    <2> QED BY <2>2, <2>3
  <1>8. Stamped' /\ LoadRecovers'
    <2>1. shown'.load = shown.load
      BY <1>1, <1>3 DEF TypeOK
    <2> QED BY <1>1, <1>2, <2>1 DEF IInv, Stamped, LoadRecovers
  <1> QED BY <1>5, <1>6, <1>7, <1>8 DEF IInv

\* The load is made of two readings of the CPU, one right after the other.
LEMMA LoadOrdered == ASSUME IInv, Load PROVE IInv'
  <1> USE Bounds
  <1>1. TypeOK /\ cpu \in Counters /\ Stamped
    BY DEF IInv, TypeOK
  <1>2. UNCHANGED <<now, present, link, bytes, carried, at, todo, read, linkStates, rateStates>>
        /\ pc' = "idle"
    BY DEF Load
  <1>3. PICK l : shown' = [shown EXCEPT !.load = l] /\
          \/ l = None /\ UNCHANGED <<cpu, prevCpu>>
          \/ \E c \in Counted :
                /\ cpu' = c /\ prevCpu' = [idle |-> c.idle, total |-> Total(c), iowait |-> c.iowait]
                /\ l \in {LoadOf(c), None}
    BY DEF Load
  <1>4. /\ cpu' \in Counters /\ prevCpu' \in {None} \cup [idle : Nat, total : Nat, iowait : Nat]
        /\ prevCpu' # None => prevCpu' = [idle |-> cpu'.idle, total |-> Total(cpu'), iowait |-> cpu'.iowait]
    <2>1. CASE UNCHANGED <<cpu, prevCpu>>
      BY <2>1, <1>1 DEF TypeOK, Stamped
    <2>2. ASSUME NEW c \in Counted, cpu' = c,
                 prevCpu' = [idle |-> c.idle, total |-> Total(c), iowait |-> c.iowait]
          PROVE  /\ cpu' \in Counters /\ prevCpu' \in [idle : Nat, total : Nat, iowait : Nat]
                 /\ prevCpu' = [idle |-> cpu'.idle, total |-> Total(cpu'), iowait |-> cpu'.iowait]
      BY <2>2 DEF Counted, Counters, Total
    <2> QED BY <1>3, <2>1, <2>2
  <1>5. ASSUME l # None
        PROVE  l \in LoadType /\ (~l.fell => 0 <= l.idle /\ l.idle <= l.total)
    <2>1. PICK c \in Counted : l = LoadOf(c)
      BY <1>3, <1>5
    <2>2. /\ prevCpu # None /\ l = Deltas(prevCpu, c) /\ Deltas(prevCpu, c).total # 0
          /\ prevCpu = [idle |-> cpu.idle, total |-> Total(cpu), iowait |-> cpu.iowait]
      BY <1>1, <1>5, <2>1 DEF LoadOf, Stamped
    <2>3. /\ c.busy \in Nat /\ c.idle \in Nat /\ c.iowait \in Nat
          /\ cpu.busy \in Nat /\ cpu.idle \in Nat /\ cpu.iowait \in Nat
          /\ c.busy >= cpu.busy /\ c.idle >= cpu.idle
      BY <1>1 DEF Counted, Counters
    <2>4. /\ l.idle = c.idle - cpu.idle /\ l.total = Total(c) - Total(cpu)
          /\ l.fell = (c.iowait < cpu.iowait) /\ l.total # 0
          /\ l = [idle |-> l.idle, total |-> l.total, fell |-> l.fell]
      BY <2>2 DEF Deltas
    <2>5. l.idle \in Int /\ l.total \in Int \ {0} /\ l.fell \in BOOLEAN
      BY <2>3, <2>4 DEF Total
    <2>6. l \in LoadType
      BY <2>4, <2>5 DEF LoadType
    <2>7. ~l.fell => 0 <= l.idle /\ l.idle <= l.total
      <3>1. ~l.fell => ~(c.iowait < cpu.iowait)
        BY <2>4
      <3>2. ~(c.iowait < cpu.iowait) => 0 <= l.idle /\ l.idle <= l.total
        BY <2>3, <2>4 DEF Total
      <3> QED BY <3>1, <3>2
    <2> QED BY <2>6, <2>7
  <1>6. shown'.load = l /\ shown'.ifs = shown.ifs
        /\ shown' \in [ifs : [Iface -> {None} \cup ShowType], load : {None} \cup LoadType]
    BY <1>1, <1>3, <1>5 DEF TypeOK
  <1>7. TypeOK'
    BY <1>1, <1>2, <1>4, <1>6 DEF TypeOK
  <1>8. Stamped' /\ LoadRecovers' /\ RateIsReal'
    BY <1>2, <1>4, <1>5, <1>6 DEF IInv, Stamped, LoadRecovers, RateIsReal
  <1>9. \A i \in Iface : Ordered(i)'
    BY <1>2 DEF IInv, Ordered, Base, Past
  <1> QED BY <1>7, <1>8, <1>9 DEF IInv

LEMMA StepOrdered == IInv /\ [Next]_vars => IInv'
  <1> SUFFICES ASSUME IInv, [Next]_vars PROVE IInv'
    OBVIOUS
  <1>1. CASE UNCHANGED vars
    BY <1>1 DEF vars, IInv, TypeOK, Stamped, Ordered, Base, Past, RateIsReal, LoadRecovers
  <1> QED BY <1>1, QuietOrdered, CarryOrdered, UnplugOrdered, PlugOrdered, StartOrdered,
             ReadOrdered, TrackOrdered, LoadOrdered DEF Next

(***************************************************************************)
(* Theorems.                                                               *)
(***************************************************************************)

\* The invariant holds of every state.
THEOREM OrderedAlways == Spec => []IInv
  <1> QED BY InitOrdered, StepOrdered, PTL DEF Spec

\* Every variable keeps its type; no rate and no number of bytes is negative.
THEOREM TypeCorrect == Spec => []TypeOK
  <1>1. IInv => TypeOK
    BY DEF IInv
  <1> QED BY <1>1, OrderedAlways, PTL

\* No rate shows more bytes than were carried between the two readings it is made
\* of, however interfaces come and go (throughput.go:21-45, hoststat_linux.go:23-37).
THEOREM RatesAreReal == Spec => []RateIsReal
  <1>1. IInv => RateIsReal
    BY DEF IInv
  <1> QED BY <1>1, OrderedAlways, PTL

\* A fall of iowait spoils one load at most: the next is a share again
\* (hoststat_linux.go:89-98, 115-135).
THEOREM LoadsRecover == Spec => []LoadRecovers
  <1>1. IInv => LoadRecovers
    BY DEF IInv
  <1> QED BY <1>1, OrderedAlways, PTL

(***************************************************************************)
(* The history of the links.                                               *)
(***************************************************************************)

\* What is shown of a link is what its tracker remembers; its last change is not in
\* the future, and there is one if it has changed.
Linked(i) ==
    LET st == linkStates[i]
    IN  /\ shown.ifs[i] # None => st # None /\ shown.ifs[i].link = st
        /\ st # None => st.last <= at /\ (st.last = Never <=> st.changes = 0)

\* Nothing but a collection's tracking touches what is remembered of the links.
LEMMA QuietLinked ==
  ASSUME IInv, [Next]_vars, ~Track, NEW i \in Iface, Linked(i)
  PROVE  Linked(i)' /\ shown'.ifs = shown.ifs
  <1> USE Bounds
  <1>1. linkStates' = linkStates /\ shown'.ifs = shown.ifs
    <2> USE DEF host, trackers
    <2>1. CASE Load
      BY <2>1 DEF Load, IInv, TypeOK
    <2>2. CASE ~Load
      BY <2>2 DEF Next, Time, Start, List, Carry, Flap, Unplug, Plug, Read, vars
    <2> QED BY <2>1, <2>2
  <1>2. at' \in Int /\ at \in Int /\ at <= at'
    <2>0. now \in 0 .. MaxTime /\ at \in -1 .. now
      BY DEF IInv, TypeOK, Never
    <2>1. CASE Start
      BY <2>0, <2>1 DEF Start
    <2>2. CASE ~Start
      <3>1. at' = at
        BY <2>2 DEF Next, Time, List, Carry, Flap, Unplug, Plug, Read, Load, vars
      <3> QED BY <2>0, <3>1
    <2> QED BY <2>1, <2>2
  <1>3. linkStates[i] # None => linkStates[i].last \in Int
    BY ReadingTypes DEF IInv, LinkType, Never
  <1> QED BY <1>1, <1>2, <1>3 DEF Linked

\* A step of the link's tracker: a change counts one, and is of the time of the
\* collection (linktracker.go:21-40).
LEMMA TrackLinked ==
  ASSUME IInv, Track, NEW i \in Iface, Linked(i)
  PROVE  /\ Linked(i)'
         /\ shown.ifs[i] # None =>
              LET old == shown.ifs[i].link
                  new == shown'.ifs[i].link
              IN  /\ new.changes >= old.changes /\ new.last >= old.last
                  /\ new.up # old.up <=> (new.changes - old.changes) % 2 = 1
                  /\ new.up # old.up => new.last = shown'.ifs[i].at
  <1> USE Bounds
  <1>1. TypeOK /\ at \in 0 .. MaxTime /\ at' = at
    BY DEF IInv, TypeOK, Stamped, Track, Never
  <1> DEFINE st == linkStates[i]
             r  == read[i]
             new == TrackLink(i)
  <1>2. /\ st # None => /\ st.up \in BOOLEAN /\ st.last \in Never .. MaxTime /\ st.changes \in Nat
        /\ r # None => r.up \in BOOLEAN
    BY <1>1, ReadingTypes DEF LinkType, ReadType
  <1>3. /\ linkStates'[i] = IF r = None THEN st ELSE new
        /\ r = None => shown'.ifs[i] = shown.ifs[i]
        /\ r # None => shown'.ifs[i].link = new /\ shown'.ifs[i].at = at
    <2>1. linkStates'[i] = IF r = None THEN st ELSE new
      BY DEF Track, Kept
    <2>2. shown'.ifs[i] = IF r = None THEN shown.ifs[i]
            ELSE [link |-> new, rate |-> Rate(i), at |-> at,
                  dt |-> IF rateStates[i] = None THEN 0 ELSE at - rateStates[i].at,
                  moved |-> read[i].total - (IF rateStates[i] = None THEN 0 ELSE rateStates[i].total)]
      BY <1>1 DEF Track, TypeOK
    <2> QED BY <2>1, <2>2
  <1>4. ASSUME st = None, r # None
        PROVE  new = [up |-> r.up, last |-> Never, changes |-> 0]
    BY <1>4 DEF TrackLink, Kept
  <1>5. ASSUME st # None, r # None
        PROVE  new = IF r.up = st.up THEN st
                     ELSE [up |-> r.up, last |-> at, changes |-> st.changes + 1]
    BY <1>5 DEF TrackLink, Kept
  <1>6. r # None => new \in LinkType
    <2>1. CASE st = None /\ r # None
      BY <1>2, <1>4, <2>1 DEF LinkType, Never
    <2>2. CASE st # None /\ r # None
      <3>1. st \in LinkType /\ st.changes + 1 \in Nat /\ at \in Never .. MaxTime
        BY <1>1, <1>2, <2>2, ReadingTypes DEF Never
      <3> QED BY <1>2, <1>5, <2>2, <3>1 DEF LinkType
    <2> QED BY <2>1, <2>2
  <1> HIDE DEF new, r
  <1>7. CASE r = None
    <2>1. Linked(i)'
      BY <1>1, <1>3, <1>7 DEF Linked
    <2>2. shown.ifs[i] # None =>
            shown'.ifs[i] = shown.ifs[i] /\ shown.ifs[i].link = st /\ st # None
      BY <1>3, <1>7 DEF Linked
    <2>3. st # None => st.changes - st.changes = 0 /\ st.changes >= st.changes /\ st.last >= st.last
      BY <1>2 DEF Never
    <2> QED BY <2>1, <2>2, <2>3
  <1>8. CASE r # None
    <2>1. linkStates'[i] = new /\ new # None /\ shown'.ifs[i].link = new /\ shown'.ifs[i].at = at
      BY <1>3, <1>6, <1>8, NoneAssumption
    <2>2. new.last <= at /\ (new.last = Never <=> new.changes = 0)
      <3>1. CASE st = None
        BY <1>1, <1>4, <1>8, <3>1 DEF Never
      <3>2. CASE st # None
        <4>1. st.last <= at /\ (st.last = Never <=> st.changes = 0)
          BY <3>2 DEF Linked
        <4>2. CASE r.up = st.up
          BY <1>5, <1>8, <3>2, <4>1, <4>2
        <4>3. CASE r.up # st.up
          <5>1. new.last = at /\ new.changes = st.changes + 1
            BY <1>5, <1>8, <3>2, <4>3
          <5> QED BY <1>1, <1>2, <3>2, <5>1 DEF Never
        <4> QED BY <4>2, <4>3
      <3> QED BY <3>1, <3>2
    <2>3. Linked(i)'
      BY <1>1, <2>1, <2>2 DEF Linked
    <2>4. ASSUME st # None
          PROVE  /\ new.changes >= st.changes /\ new.last >= st.last
                 /\ new.up # st.up <=> (new.changes - st.changes) % 2 = 1
                 /\ new.up # st.up => new.last = at
      <3>1. st.last <= at /\ st.last \in Int /\ st.changes \in Nat
        BY <1>2, <2>4 DEF Linked, Never
      <3>2. CASE r.up = st.up
        <4>1. new = st /\ st.changes - st.changes = 0
          BY <1>5, <1>8, <2>4, <3>1, <3>2
        <4> QED BY <3>1, <4>1
      <3>3. CASE r.up # st.up
        <4>1. new.up = r.up /\ new.last = at /\ new.changes = st.changes + 1
          BY <1>5, <1>8, <2>4, <3>3
        <4>2. new.changes - st.changes = 1
          BY <3>1, <4>1
        <4> QED BY <1>1, <3>1, <3>3, <4>1, <4>2
      <3> QED BY <3>2, <3>3
    <2>5. shown.ifs[i] # None => st # None /\ shown.ifs[i].link = st
      BY DEF Linked
    <2> QED BY <2>1, <2>3, <2>4, <2>5
  <1> QED BY <1>7, <1>8

\* What one step does to the figures of an interface.
StepHistory(i) ==
    shown.ifs[i] # None /\ shown.ifs'[i] # None =>
      LET old == shown.ifs[i].link
          new == shown'.ifs[i].link
      IN  /\ new.changes >= old.changes /\ new.last >= old.last
          /\ new.up # old.up <=> (new.changes - old.changes) % 2 = 1
          /\ new.up # old.up => new.last = shown'.ifs[i].at
          /\ new.last = Never <=> new.changes = 0

LEMMA StepLinked ==
  ASSUME IInv, [Next]_vars, \A i \in Iface : Linked(i)
  PROVE  \A i \in Iface : Linked(i)' /\ StepHistory(i)
  <1> SUFFICES ASSUME NEW i \in Iface PROVE Linked(i)' /\ StepHistory(i)
    OBVIOUS
  <1>1. Linked(i)' => (shown'.ifs[i] # None =>
            (shown'.ifs[i].link.last = Never <=> shown'.ifs[i].link.changes = 0))
    BY DEF Linked
  <1>2. CASE Track
    BY <1>1, <1>2, TrackLinked DEF StepHistory
  <1>3. CASE ~Track
    <2>1. Linked(i)' /\ shown'.ifs = shown.ifs
      BY <1>3, QuietLinked
    <2>2. shown.ifs[i] # None => shown.ifs[i].link \in LinkType
      <3>1. shown.ifs[i] # None => shown.ifs[i] \in ShowType
        BY DEF IInv, TypeOK
      <3> QED BY <3>1 DEF ShowType
    <2>3. ASSUME NEW x \in LinkType
          PROVE  x.changes >= x.changes /\ x.last >= x.last /\ (x.changes - x.changes) % 2 # 1
      <3>1. x.changes \in Nat /\ x.last \in Int
        BY Bounds DEF LinkType, Never
      <3>2. x.changes - x.changes = 0
        BY <3>1
      <3> QED BY <3>1, <3>2
    <2> QED BY <1>1, <2>1, <2>2, <2>3 DEF StepHistory
  <1> QED BY <1>2, <1>3

\* Of two snapshots that show an interface the later one has no fewer changes of its
\* link, and a state that differs tells of a change at its own time: the figures of
\* an alert on the link lose nothing that the trackers saw (linktracker.go:21-40).
THEOREM LinkHistoryKept == Spec => LinkHistory
  <1>1. Init => \A i \in Iface : Linked(i)
    BY DEF Init, Linked
  <1>2. IInv /\ [Next]_vars /\ (\A i \in Iface : Linked(i))
          => (\A i \in Iface : Linked(i))' /\ \A i \in Iface : StepHistory(i)
    BY StepLinked
  <1>3. (\A i \in Iface : StepHistory(i)) =>
          [\A i \in Iface :
             shown.ifs[i] # None /\ shown.ifs'[i] # None =>
               LET old == shown.ifs[i].link
                   new == shown'.ifs[i].link
               IN  /\ new.changes >= old.changes /\ new.last >= old.last
                   /\ new.up # old.up <=> (new.changes - old.changes) % 2 = 1
                   /\ new.up # old.up => new.last = shown'.ifs[i].at
                   /\ new.last = Never <=> new.changes = 0]_shown
    BY DEF StepHistory
  <1> QED BY <1>1, <1>2, <1>3, OrderedAlways, PTL DEF Spec, LinkHistory
=============================================================================
