------------------------- MODULE StreamHub_proofs -------------------------
(***************************************************************************)
(* Proofs about StreamHub, for any clients, any capacity of the channels   *)
(* and any number of changes: a broadcast never meets a closed channel,    *)
(* updates reach a client in the order of their snapshots, and a client    *)
(* that has nothing left to read is current unless it was dropped for.     *)
(***************************************************************************)
EXTENDS StreamHub, SequenceTheorems, TLAPS

(***************************************************************************)
(* The inductive invariant.                                                *)
(***************************************************************************)

Inside == {"added", "snapped", "loop", "writing", "leaving"}

\* The map and the closed channels follow from where the handlers are.
Placed ==
    /\ clients = {c \in Client : pc[c] \in Inside}
    /\ closed = {c \in Client : pc[c] = "gone"}
    /\ \A c \in Client : pc[c] \in {"away", "accepted"} => ch[c] = <<>>

\* Snapshots are broadcast in the order in which they are taken.
Forward == latest <= store /\ (taken # None => latest <= taken /\ taken <= store)

\* What c is being sent and what waits for it is in order, and none of it is
\* newer than the last broadcast.
InOrder(c) ==
    /\ \A i, j \in DOMAIN ch[c] : i <= j => ch[c][i] <= ch[c][j]
    /\ \A i \in DOMAIN ch[c] : ch[c][i] <= latest
    /\ pc[c] = "writing" => held[c] <= latest /\ \A i \in DOMAIN ch[c] : held[c] <= ch[c][i]

\* The last thing c has been sent, is being sent or is going to be sent is as new
\* as the last broadcast.
UpToDate(c) ==
    /\ pc[c] \in Inside /\ ch[c] # <<>> => ch[c][Len(ch[c])] >= latest
    /\ pc[c] \in {"snapped", "writing"} /\ ch[c] = <<>> => held[c] >= latest
    /\ pc[c] = "loop" /\ ~ctxDone[c] /\ ch[c] = <<>> => seen[c] >= latest

Fed == \A c \in Client : InOrder(c) /\ (~dropped[c] => UpToDate(c))

IInv == TypeOK /\ Placed /\ Forward /\ Fed

(***************************************************************************)
(* Lemmas.                                                                 *)
(***************************************************************************)

Rising(s)    == \A i, j \in DOMAIN s : i <= j => s[i] <= s[j]
AtMost(s, v) == \A i \in DOMAIN s : s[i] <= v

\* The pieces that QueueRunsForward puts together.
LEMMA EmptyRises == <<>> \in Seq(Int) /\ Rising(<<>>) /\ DOMAIN <<>> = {}
  BY DEF Rising

LEMMA ShortRises ==
  ASSUME NEW x \in Int
  PROVE  /\ <<x>> \in Seq(Int) /\ Rising(<<x>>) /\ DOMAIN <<x>> = {1} /\ <<x>>[1] = x
         /\ \A i \in DOMAIN <<x>> : <<x>>[i] = x
  BY DEF Rising

\* Two rising sequences, the second of which begins where the first ends.
LEMMA ConcatRises ==
  ASSUME NEW s \in Seq(Int), NEW t \in Seq(Int), Rising(s), Rising(t),
         \A i \in DOMAIN s, j \in DOMAIN t : s[i] <= t[j]
  PROVE  /\ s \o t \in Seq(Int) /\ Rising(s \o t)
         /\ \A v \in Int : AtMost(s, v) /\ AtMost(t, v) => AtMost(s \o t, v)
  <1> DEFINE u == s \o t
             m == Len(s)
             n == Len(t)
  <1>1. /\ m \in Nat /\ n \in Nat /\ DOMAIN s = 1 .. m /\ DOMAIN t = 1 .. n
        /\ u \in Seq(Int) /\ Len(u) = m + n
        /\ \A i \in 1 .. m + n : u[i] = IF i <= m THEN s[i] ELSE t[i - m]
    BY ConcatProperties, LenProperties
  <1>2. DOMAIN u = 1 .. m + n
    BY <1>1, LenProperties
  <1> HIDE DEF u, m, n
  <1>3. \A i \in 1 .. m : u[i] = s[i]
    BY <1>1
  <1>4. \A i \in 1 .. m + n : i \notin 1 .. m => i - m \in 1 .. n /\ u[i] = t[i - m]
    <2> SUFFICES ASSUME NEW i \in 1 .. m + n, i \notin 1 .. m
                 PROVE  i - m \in 1 .. n /\ u[i] = t[i - m]
      OBVIOUS
    <2>1. ~(i <= m) /\ i - m \in 1 .. n
      BY <1>1
    <2> QED BY <2>1, <1>1
  <1>5. Rising(u)
    <2> SUFFICES ASSUME NEW i \in 1 .. m + n, NEW j \in 1 .. m + n, i <= j
                 PROVE  u[i] <= u[j]
      BY <1>2 DEF Rising
    <2>1. CASE i \in 1 .. m /\ j \in 1 .. m
      <3>1. s[i] <= s[j]
        BY <2>1, <1>1 DEF Rising
      <3> QED BY <2>1, <3>1, <1>3
    <2>2. CASE i \in 1 .. m /\ j \notin 1 .. m
      <3>1. u[i] = s[i] /\ u[j] = t[j - m] /\ j - m \in 1 .. n
        BY <2>2, <1>3, <1>4
      <3>2. s[i] <= t[j - m]
        BY <2>2, <3>1, <1>1
      <3> QED BY <3>1, <3>2
    <2>3. CASE i \notin 1 .. m
      <3>1. j \notin 1 .. m
        BY <2>3, <1>1
      <3>2. /\ u[i] = t[i - m] /\ i - m \in 1 .. n
            /\ u[j] = t[j - m] /\ j - m \in 1 .. n
        BY <2>3, <3>1, <1>4
      <3>3. i - m <= j - m
        BY <1>1
      <3>4. t[i - m] <= t[j - m]
        BY <3>2, <3>3, <1>1 DEF Rising
      <3> QED BY <3>2, <3>4
    <2> QED BY <2>1, <2>2, <2>3
  <1>6. ASSUME NEW v \in Int, AtMost(s, v), AtMost(t, v)
        PROVE  AtMost(u, v)
    <2> SUFFICES ASSUME NEW i \in 1 .. m + n PROVE u[i] <= v
      BY <1>2 DEF AtMost
    <2>1. CASE i \in 1 .. m
      <3>1. s[i] <= v
        BY <2>1, <1>1, <1>6 DEF AtMost
      <3> QED BY <2>1, <3>1, <1>3
    <2>2. CASE i \notin 1 .. m
      <3>1. u[i] = t[i - m] /\ i - m \in 1 .. n
        BY <2>2, <1>4
      <3>2. t[i - m] <= v
        BY <3>1, <1>1, <1>6 DEF AtMost
      <3> QED BY <3>1, <3>2
    <2> QED BY <2>1, <2>2
  <1> QED BY <1>1, <1>5, <1>6 DEF u

LEMMA InitFed == Init => IInv
  <1> SUFFICES ASSUME Init PROVE IInv
    OBVIOUS
  <1> USE HubAssumption DEF Init, None, Version
  <1>1. TypeOK
    <2>1. <<>> \in Seq(Version) /\ Len(<<>>) = 0
      OBVIOUS
    <2> QED BY <2>1 DEF TypeOK
  <1>2. Placed
    BY DEF Placed, Inside
  <1>3. Forward
    BY DEF Forward
  <1>4. Fed
    <2>1. DOMAIN <<>> = {}
      OBVIOUS
    <2>2. \A c \in Client : ch[c] = <<>> /\ pc[c] = "away"
      OBVIOUS
    <2> QED BY <2>1, <2>2 DEF Fed, InOrder, UpToDate, Inside
  <1> QED BY <1>1, <1>2, <1>3, <1>4 DEF IInv

\* A change of the store leaves the snapshots that were taken behind it.
LEMMA ChangeFed == ASSUME IInv, Change PROVE IInv'
  <1> USE HubAssumption DEF IInv, Change, hub, handlers, None, Version
  <1>1. TypeOK'
    BY DEF TypeOK
  <1>2. Placed'
    BY DEF Placed
  <1>3. Forward'
    BY DEF Forward, TypeOK
  <1>4. Fed'
    BY DEF Fed, InOrder, UpToDate
  <1> QED BY <1>1, <1>2, <1>3, <1>4

LEMMA TickFed == ASSUME IInv, Tick PROVE IInv'
  <1> USE HubAssumption DEF IInv, Tick, Snapshot, store_, handlers, None, Version
  <1>1. TypeOK'
    BY DEF TypeOK
  <1>2. Placed'
    BY DEF Placed
  <1>3. Forward'
    BY DEF Forward, TypeOK
  <1>4. Fed'
    BY DEF Fed, InOrder, UpToDate
  <1> QED BY <1>1, <1>2, <1>3, <1>4

\* A broadcast appends the newest snapshot, or finds the channel full.
LEMMA BroadcastFed == ASSUME IInv, Broadcast PROVE IInv'
  <1> USE HubAssumption DEF IInv, Broadcast, store_, handlers, None, Version
  <1>1. /\ taken \in 0 .. MaxVersion /\ latest' = taken /\ latest <= taken /\ taken <= store
        /\ latest \in -1 .. MaxVersion /\ store \in 0 .. MaxVersion
    BY DEF TypeOK, Forward
  <1>2. \A c \in Client :
          /\ ch[c] \in Seq(Version) /\ Len(ch[c]) <= ChanCap /\ Len(ch[c]) \in Nat
          /\ DOMAIN ch[c] = 1 .. Len(ch[c])
          /\ \A i \in DOMAIN ch[c] : ch[c][i] \in Version
          /\ held[c] \in -1 .. MaxVersion
    BY ElementOfSeq, LenProperties DEF TypeOK
  <1>3. \A c \in Client :
          \/ /\ ch'[c] = Append(ch[c], taken) /\ ~dropped'[c] /\ c \in clients
             /\ Len(ch[c]) < ChanCap
          \/ ch'[c] = ch[c] /\ (dropped'[c] \/ c \notin clients)
    BY DEF HasRoom, Queued
  <1>4. ASSUME NEW c \in Client, ch'[c] = Append(ch[c], taken)
        PROVE  /\ Len(ch'[c]) = Len(ch[c]) + 1 /\ ch'[c] \in Seq(Version)
               /\ DOMAIN ch'[c] = 1 .. Len(ch[c]) + 1 /\ DOMAIN ch[c] = 1 .. Len(ch[c])
               /\ ch'[c][Len(ch[c]) + 1] = taken
               /\ \A i \in 1 .. Len(ch[c]) : ch'[c][i] = ch[c][i]
    <2>1. /\ Append(ch[c], taken) \in Seq(Version)
          /\ Len(Append(ch[c], taken)) = Len(ch[c]) + 1
          /\ \A i \in 1 .. Len(ch[c]) : Append(ch[c], taken)[i] = ch[c][i]
          /\ Append(ch[c], taken)[Len(ch[c]) + 1] = taken
      BY <1>1, <1>2, AppendProperties
    <2>2. DOMAIN Append(ch[c], taken) = 1 .. Len(ch[c]) + 1
      BY <2>1, LenProperties
    <2> QED BY <1>2, <1>4, <2>1, <2>2
  <1>5. TypeOK'
    <2>1. \A c \in Client : ch'[c] \in Seq(Version) /\ Len(ch'[c]) <= ChanCap
      BY <1>2, <1>3, <1>4
    <2>2. ch' \in [Client -> Seq(Version)] /\ dropped' \in [Client -> BOOLEAN]
      BY <2>1
    <2> QED BY <1>1, <2>1, <2>2 DEF TypeOK
  <1>6. Placed'
    <2>1. \A c \in Client : pc[c] \in {"away", "accepted"} => c \notin clients
      BY DEF Placed, Inside
    <2> QED BY <2>1, <1>3 DEF Placed
  <1>7. Forward'
    BY <1>1 DEF Forward
  <1>8. Fed'
    <2> SUFFICES ASSUME NEW c \in Client PROVE InOrder(c)' /\ (~dropped'[c] => UpToDate(c)')
      BY DEF Fed
    <2> USE DEF Fed
    <2>1. CASE ch'[c] = Append(ch[c], taken) /\ ~dropped'[c] /\ c \in clients
      <3>1. /\ \A i \in DOMAIN ch[c] : ch[c][i] <= taken
            /\ pc[c] = "writing" => held[c] <= taken
        BY <1>1, <1>2 DEF InOrder
      <3> DEFINE n == Len(ch[c])
      <3>2. /\ n \in Nat /\ DOMAIN ch'[c] = 1 .. n + 1 /\ DOMAIN ch[c] = 1 .. n
            /\ ch'[c][n + 1] = taken /\ \A i \in 1 .. n : ch'[c][i] = ch[c][i]
        BY <2>1, <1>2, <1>4
      <3>3. \A i, j \in DOMAIN ch'[c] : i <= j => ch'[c][i] <= ch'[c][j]
        <4> SUFFICES ASSUME NEW i \in 1 .. n + 1, NEW j \in 1 .. n + 1, i <= j
                     PROVE  ch'[c][i] <= ch'[c][j]
          BY <3>2
        <4>1. CASE j \in 1 .. n
          <5>1. i \in 1 .. n
            BY <3>2, <4>1
          <5> QED BY <3>2, <4>1, <5>1 DEF InOrder
        <4>2. CASE j = n + 1
          <5>1. i \in 1 .. n \/ i = n + 1
            BY <3>2
          <5> QED BY <1>1, <3>1, <3>2, <4>2, <5>1
        <4> QED BY <3>2, <4>1, <4>2
      <3>4. \A i \in DOMAIN ch'[c] : ch'[c][i] <= taken
        BY <1>1, <3>1, <3>2
      <3>5. pc[c] = "writing" => \A i \in DOMAIN ch'[c] : held[c] <= ch'[c][i]
        BY <3>1, <3>2 DEF InOrder
      <3>6. InOrder(c)'
        BY <1>1, <3>1, <3>3, <3>4, <3>5 DEF InOrder
      <3>7. ch'[c] # <<>> /\ ch'[c][Len(ch'[c])] = taken
        BY <2>1, <1>2, <1>4
      <3>8. UpToDate(c)'
        BY <3>7, <1>1 DEF UpToDate
      <3> QED BY <3>6, <3>8
    <2>2. CASE ch'[c] = ch[c] /\ (dropped'[c] \/ c \notin clients)
      <3>1. InOrder(c)'
        <4>1. \A i \in DOMAIN ch[c] : ch[c][i] <= taken
          BY <1>1, <1>2 DEF InOrder
        <4>2. pc[c] = "writing" => held[c] <= taken
          BY <1>1, <1>2 DEF InOrder
        <4> QED BY <2>2, <1>1, <4>1, <4>2 DEF InOrder
      <3>2. c \notin clients => UpToDate(c)'
        BY <2>2 DEF Placed, Inside, UpToDate
      <3> QED BY <3>1, <3>2, <2>2
    <2> QED BY <1>3, <2>1, <2>2
  <1> QED BY <1>5, <1>6, <1>7, <1>8

\* What a handler does to its own client leaves the others fed.
LEMMA OthersFed ==
  ASSUME Fed, latest' = latest, NEW d \in Client, ch'[d] = ch[d], dropped'[d] = dropped[d],
         pc'[d] = pc[d], held'[d] = held[d], seen'[d] = seen[d],
         ctxDone'[d] = ctxDone[d]
  PROVE  InOrder(d)' /\ (~dropped'[d] => UpToDate(d)')
  BY DEF Fed, InOrder, UpToDate

\* A handler goes on, and its client stays where it was: in the map, or out of it.
LEMMA StaysPlaced ==
  ASSUME TypeOK, Placed, NEW c \in Client, NEW to, pc' = [pc EXCEPT ![c] = to],
         pc[c] \in Inside, to \in Inside, clients' = clients, closed' = closed,
         \A d \in Client \ {c} : ch'[d] = ch[d]
  PROVE  Placed'
  <1>1. pc'[c] = to /\ \A d \in Client \ {c} : pc'[d] = pc[d]
    BY DEF TypeOK
  <1> QED BY <1>1 DEF Placed, Inside

LEMMA AcceptFed == ASSUME IInv, NEW c \in Client, Accept(c) PROVE IInv'
  <1> USE HubAssumption DEF IInv, Accept, Goto, store_, hub
  <1>1. /\ pc[c] = "away" /\ pc'[c] = "accepted"
        /\ \A d \in Client \ {c} : pc'[d] = pc[d]
    BY DEF TypeOK
  <1>2. TypeOK'
    BY DEF TypeOK, Connected
  <1>3. Placed' /\ Forward'
    BY <1>1 DEF Placed, Inside, Forward
  <1>4. InOrder(c)' /\ UpToDate(c)'
    BY <1>1 DEF Fed, InOrder, UpToDate, Inside
  <1>5. Fed'
    BY <1>1, <1>4, OthersFed DEF Fed
  <1> QED BY <1>2, <1>3, <1>5

\* A client joins with an empty channel.
LEMMA AddFed == ASSUME IInv, NEW c \in Client, Add(c) PROVE IInv'
  <1> USE HubAssumption DEF IInv, Add, Goto, Joined, store_
  <1>1. /\ pc[c] = "accepted" /\ pc'[c] = "added" /\ ch[c] = <<>>
        /\ \A d \in Client \ {c} : pc'[d] = pc[d]
    BY DEF TypeOK, Placed
  <1>2. TypeOK'
    BY DEF TypeOK, Connected
  <1>3. Placed' /\ Forward'
    BY <1>1 DEF Placed, Inside, Forward
  <1>4. InOrder(c)' /\ UpToDate(c)'
    BY <1>1 DEF Fed, InOrder, UpToDate, Inside
  <1>5. Fed'
    BY <1>1, <1>4, OthersFed DEF Fed
  <1> QED BY <1>2, <1>3, <1>5

\* The immediate snapshot is as new as any broadcast.
LEMMA TakeFirstFed == ASSUME IInv, NEW c \in Client, TakeFirst(c) PROVE IInv'
  <1> USE HubAssumption DEF IInv, TakeFirst, Goto, store_, hub
  <1>1. /\ pc[c] = "added" /\ pc'[c] = "snapped" /\ held'[c] = store
        /\ \A d \in Client \ {c} : pc'[d] = pc[d] /\ held'[d] = held[d]
    BY DEF TypeOK
  <1>2. TypeOK'
    BY DEF TypeOK, Connected
  <1>3. Placed' /\ Forward'
    BY <1>1, StaysPlaced DEF Inside, Forward
  <1>4. InOrder(c)' /\ (~dropped'[c] => UpToDate(c)')
    <2>1. latest <= store /\ latest \in Version \cup {None} /\ store \in Version
      BY DEF Forward, TypeOK
    <2> QED BY <1>1, <2>1 DEF Fed, InOrder, UpToDate, Inside, Version, None
  <1>5. Fed'
    BY <1>1, <1>4, OthersFed DEF Fed
  <1> QED BY <1>2, <1>3, <1>5

\* What is written has been held: the client is as up to date as it was going to be.
LEMMA WriteFirstFed == ASSUME IInv, NEW c \in Client, WriteFirst(c) PROVE IInv'
  <1> USE HubAssumption DEF IInv, WriteFirst, Goto, store_, hub
  <1>1. /\ pc[c] = "snapped" /\ pc'[c] = "loop" /\ ~ctxDone[c] => seen'[c] = held[c]
        /\ \A d \in Client \ {c} : pc'[d] = pc[d] /\ seen'[d] = seen[d]
    BY DEF TypeOK
  <1>2. TypeOK'
    BY DEF TypeOK, Connected
  <1>3. Placed' /\ Forward'
    BY <1>1, StaysPlaced DEF Inside, Forward
  <1>4. InOrder(c)' /\ (~dropped'[c] => UpToDate(c)')
    BY <1>1 DEF Fed, InOrder, UpToDate, Inside
  <1>5. Fed'
    BY <1>1, <1>4, OthersFed DEF Fed
  <1> QED BY <1>2, <1>3, <1>5

\* The oldest update is taken from the channel.
LEMMA ReceiveFed == ASSUME IInv, NEW c \in Client, Receive(c) PROVE IInv'
  <1> USE HubAssumption DEF IInv, Receive, Goto, store_
  <1> DEFINE n == Len(ch[c])
  <1>1. /\ pc[c] = "loop" /\ pc'[c] = "writing" /\ held'[c] = Head(ch[c]) /\ ch'[c] = Tail(ch[c])
        /\ \A d \in Client \ {c} : pc'[d] = pc[d] /\ held'[d] = held[d] /\ ch'[d] = ch[d]
    BY DEF TypeOK
  <1>2. ch[c] \in Seq(Version) /\ n \in Nat \ {0} /\ n <= ChanCap /\ DOMAIN ch[c] = 1 .. n
    BY EmptySeq, LenProperties DEF TypeOK
  <1>3. /\ held'[c] = ch[c][1] /\ held'[c] \in Version
        /\ ch'[c] \in Seq(Version) /\ Len(ch'[c]) = n - 1 /\ DOMAIN ch'[c] = 1 .. n - 1
        /\ \A i \in 1 .. n - 1 : ch'[c][i] = ch[c][i + 1]
    <2>1. /\ Head(ch[c]) = ch[c][1] /\ Head(ch[c]) \in Version
          /\ Tail(ch[c]) \in Seq(Version) /\ Len(Tail(ch[c])) = n - 1
          /\ \A i \in 1 .. Len(Tail(ch[c])) : Tail(ch[c])[i] = ch[c][i + 1]
      BY <1>2, HeadTailProperties
    <2>2. DOMAIN Tail(ch[c]) = 1 .. n - 1
      BY <2>1, LenProperties
    <2> QED BY <1>1, <2>1, <2>2
  <1>4. TypeOK'
    <2>1. \A d \in Client : ch'[d] \in Seq(Version) /\ Len(ch'[d]) <= ChanCap
      BY <1>1, <1>2, <1>3 DEF TypeOK
    <2>2. \A d \in Client : held'[d] \in Version \cup {None}
      BY <1>1, <1>3 DEF TypeOK
    <2> QED BY <2>1, <2>2 DEF TypeOK, Connected
  <1>5. Placed' /\ Forward'
    BY <1>1, StaysPlaced DEF Inside, Forward
  <1>6. InOrder(c)' /\ (~dropped'[c] => UpToDate(c)')
    <2>1. InOrder(c) /\ (~dropped[c] => ch[c][n] >= latest)
      BY <1>1, <1>2 DEF Fed, UpToDate, Inside
    <2>2. \A i, j \in 1 .. n : i <= j => ch[c][i] <= ch[c][j]
      BY <2>1, <1>2 DEF InOrder
    <2>3. \A i \in 1 .. n : ch[c][i] <= latest
      BY <2>1, <1>2 DEF InOrder
    <2>4. \A i, j \in 1 .. n - 1 : i <= j => ch'[c][i] <= ch'[c][j]
      BY <1>2, <1>3, <2>2
    <2>5. \A i \in 1 .. n - 1 : ch'[c][i] <= latest /\ held'[c] <= ch'[c][i]
      BY <1>2, <1>3, <2>2, <2>3
    <2>6. held'[c] <= latest
      BY <1>2, <1>3, <2>3
    <2>7. InOrder(c)'
      BY <1>1, <1>3, <2>4, <2>5, <2>6 DEF InOrder
    <2>8. ch'[c] = <<>> => n = 1
      <3>1. ch'[c] = <<>> => Len(ch'[c]) = 0
        BY <1>3, EmptySeq
      <3>2. n = Len(ch'[c]) + 1
        BY <1>2, <1>3
      <3>3. SUFFICES ASSUME ch'[c] = <<>> PROVE n = 1
        OBVIOUS
      <3>4. Len(ch'[c]) = 0
        BY <3>1, <3>3
      <3> QED BY <3>2, <3>4
    <2>9. ch'[c] # <<>> => n > 1 /\ ch'[c][Len(ch'[c])] = ch[c][n]
      BY <1>2, <1>3, EmptySeq
    <2>10. ~dropped[c] => UpToDate(c)'
      BY <1>1, <1>3, <2>1, <2>8, <2>9 DEF UpToDate
    <2> QED BY <2>7, <2>10
  <1>7. Fed'
    BY <1>1, <1>6, OthersFed DEF Fed
  <1> QED BY <1>4, <1>5, <1>7

LEMMA WriteFed == ASSUME IInv, NEW c \in Client, Write(c) PROVE IInv'
  <1> USE HubAssumption DEF IInv, Write, Goto, store_, hub
  <1>1. /\ pc[c] = "writing" /\ pc'[c] = "loop" /\ seen'[c] = held[c]
        /\ \A d \in Client \ {c} : pc'[d] = pc[d] /\ seen'[d] = seen[d]
    BY DEF TypeOK
  <1>2. TypeOK'
    BY DEF TypeOK, Connected
  <1>3. Placed' /\ Forward'
    BY <1>1, StaysPlaced DEF Inside, Forward
  <1>4. InOrder(c)' /\ (~dropped'[c] => UpToDate(c)')
    BY <1>1 DEF Fed, InOrder, UpToDate, Inside
  <1>5. Fed'
    BY <1>1, <1>4, OthersFed DEF Fed
  <1> QED BY <1>2, <1>3, <1>5

\* A handler that is on its way out is still in the map.
LEMMA LeavingFed ==
  ASSUME IInv, NEW c \in Client, Done(c) \/ WriteFails(c)
  PROVE  IInv'
  <1> USE HubAssumption DEF IInv, Done, WriteFails, Goto, store_, hub
  <1>1. /\ pc[c] \in {"loop", "writing"} /\ pc' = [pc EXCEPT ![c] = "leaving"]
        /\ pc'[c] = "leaving" /\ \A d \in Client \ {c} : pc'[d] = pc[d]
    BY DEF TypeOK
  <1>2. TypeOK'
    BY DEF TypeOK, Connected
  <1>3. Placed' /\ Forward'
    BY <1>1, StaysPlaced DEF Inside, Forward
  <1>4. InOrder(c)' /\ (~dropped'[c] => UpToDate(c)')
    BY <1>1 DEF Fed, InOrder, UpToDate, Inside
  <1>5. Fed'
    BY <1>1, <1>4, OthersFed DEF Fed
  <1> QED BY <1>2, <1>3, <1>5

LEMMA RemoveFed == ASSUME IInv, NEW c \in Client, Remove(c) PROVE IInv'
  <1> USE HubAssumption DEF IInv, Remove, Goto, Left, store_
  <1>1. /\ pc[c] = "leaving" /\ pc'[c] = "gone"
        /\ \A d \in Client \ {c} : pc'[d] = pc[d]
    BY DEF TypeOK
  <1>2. TypeOK'
    BY DEF TypeOK, Connected
  <1>3. Placed' /\ Forward'
    BY <1>1 DEF Placed, Inside, Forward
  <1>4. InOrder(c)' /\ UpToDate(c)'
    BY <1>1 DEF Fed, InOrder, UpToDate, Inside
  <1>5. Fed'
    BY <1>1, <1>4, OthersFed DEF Fed
  <1> QED BY <1>2, <1>3, <1>5

LEMMA HangUpFed == ASSUME IInv, NEW c \in Client, HangUp(c) PROVE IInv'
  <1> USE HubAssumption DEF IInv, HangUp, store_, hub
  <1>1. ctxDone'[c] /\ \A d \in Client \ {c} : ctxDone'[d] = ctxDone[d]
    BY DEF TypeOK
  <1>2. TypeOK'
    BY DEF TypeOK
  <1>3. Placed' /\ Forward'
    BY DEF Placed, Forward
  <1>4. InOrder(c)' /\ (~dropped'[c] => UpToDate(c)')
    BY <1>1 DEF Fed, InOrder, UpToDate
  <1>5. Fed'
    BY <1>1, <1>4, OthersFed DEF Fed
  <1> QED BY <1>2, <1>3, <1>5

LEMMA StallFed == ASSUME IInv, NEW c \in Client, Stall(c) PROVE IInv'
  <1> USE HubAssumption DEF IInv, Stall, store_, hub
  <1>1. TypeOK'
    BY DEF TypeOK
  <1>2. Placed' /\ Forward'
    BY DEF Placed, Forward
  <1>3. Fed'
    BY DEF Fed, InOrder, UpToDate
  <1> QED BY <1>1, <1>2, <1>3

LEMMA StepFed == IInv /\ [Next]_vars => IInv'
  <1> SUFFICES ASSUME IInv, [Next]_vars PROVE IInv'
    OBVIOUS
  <1>1. CASE Cancel
    BY <1>1 DEF Cancel, hub, handlers, IInv, TypeOK, Placed, Forward, Fed, InOrder, UpToDate
  <1>2. CASE \E c \in Client : Accept(c)
    BY <1>2, AcceptFed
  <1>3. CASE \E c \in Client : Handle(c)
    <2>1. PICK c \in Client : Handle(c)
      BY <1>3
    <2> QED BY <2>1, AddFed, TakeFirstFed, WriteFirstFed, ReceiveFed, WriteFed, LeavingFed,
               RemoveFed DEF Handle
  <1>4. CASE \E c \in Client : WriteFails(c)
    BY <1>4, LeavingFed
  <1>5. CASE \E c \in Client : HangUp(c)
    BY <1>5, HangUpFed
  <1>6. CASE \E c \in Client : Stall(c)
    BY <1>6, StallFed
  <1>7. CASE UNCHANGED vars
    BY <1>7 DEF vars, IInv, TypeOK, Placed, Forward, Fed, InOrder, UpToDate
  <1> QED BY <1>1, <1>2, <1>3, <1>4, <1>5, <1>6, <1>7, ChangeFed, TickFed, BroadcastFed DEF Next

(***************************************************************************)
(* Theorems.                                                               *)
(***************************************************************************)

\* The invariant holds of every state, whether or not the clients are served fairly.
THEOREM FedAlways == Spec => []IInv
  <1> QED BY InitFed, StepFed, PTL DEF Spec

\* Every variable keeps its type, and no channel holds more than its capacity.
THEOREM TypeCorrect == Spec => []TypeOK
  <1>1. IInv => TypeOK
    BY DEF IInv
  <1> QED BY <1>1, FedAlways, PTL

\* Whoever is in the map has an open channel: a broadcast never panics, whenever
\* clients come and go (ws.go:33-51).
THEOREM BroadcastIsSafe == Spec => []NeverSendsOnClosed
  <1>1. IInv => NeverSendsOnClosed
    BY DEF IInv, Placed, Inside, NeverSendsOnClosed
  <1> QED BY <1>1, FedAlways, PTL

\* A client that has nothing left to read has been sent the newest broadcast or
\* something newer, unless that broadcast found its channel full (ws.go:82-88).
THEOREM IdleClientIsCurrent == Spec => []IdleIsCurrent
  <1>1. IInv => IdleIsCurrent
    BY DEF IInv, Fed, UpToDate, IdleIsCurrent
  <1> QED BY <1>1, FedAlways, PTL

\* Updates go to a client in the order in which they were taken from the store
\* (ws.go:42-71, 90-104).
THEOREM UpdatesInOrder == Spec => []QueueRunsForward
  <1>1. IInv => QueueRunsForward
    <2> SUFFICES ASSUME IInv, NEW c \in Client
                 PROVE  LET q == (IF pc[c] = "writing" THEN <<held[c]>> ELSE <<>>) \o ch[c]
                                   \o (IF taken # None THEN <<taken>> ELSE <<>>) \o <<store>>
                        IN  \A i, j \in DOMAIN q : i <= j => q[i] <= q[j]
      BY DEF QueueRunsForward
    <2> DEFINE now  == IF pc[c] = "writing" THEN <<held[c]>> ELSE <<>>
               next == IF taken # None THEN <<taken>> ELSE <<>>
    <2>1. /\ latest \in Int /\ store \in Int /\ held[c] \in Int /\ ch[c] \in Seq(Int)
          /\ taken \in Int /\ latest <= store
          /\ taken # None => latest <= taken /\ taken <= store
      <3>1. Seq(Version) \subseteq Seq(Int)
        BY HubAssumption, SeqMonotonic DEF Version
      <3> QED BY <3>1, HubAssumption DEF IInv, TypeOK, Forward, Version, None
    <2>2. InOrder(c)
      BY DEF IInv, Fed
    <2>3. /\ now \in Seq(Int) /\ Rising(now)
          /\ \A i \in DOMAIN now : pc[c] = "writing" /\ now[i] = held[c]
      BY <2>1, ShortRises, EmptyRises
    <2>4. /\ next \in Seq(Int) /\ Rising(next)
          /\ \A i \in DOMAIN next : taken # None /\ next[i] = taken
      <3>1. CASE taken # None
        <4>1. next = <<taken>>
          BY <3>1
        <4>2. taken \in Int
          BY <2>1
        <4>3. /\ <<taken>> \in Seq(Int) /\ Rising(<<taken>>)
              /\ \A i \in DOMAIN <<taken>> : <<taken>>[i] = taken
          BY <4>2, ShortRises
        <4> QED BY <3>1, <4>1, <4>3
      <3>2. CASE taken = None
        <4>1. next = <<>>
          BY <3>2
        <4> QED BY <4>1, EmptyRises
      <3> QED BY <3>1, <3>2
    <2>5. /\ <<store>> \in Seq(Int) /\ Rising(<<store>>)
          /\ \A i \in DOMAIN <<store>> : <<store>>[i] = store
      BY <2>1, ShortRises
    <2> HIDE DEF now, next
    <2>6. /\ now \o ch[c] \in Seq(Int) /\ Rising(now \o ch[c])
          /\ AtMost(now \o ch[c], latest) /\ AtMost(now \o ch[c], store)
      <3>1. Rising(ch[c]) /\ AtMost(ch[c], latest) /\ AtMost(now, latest)
        BY <2>2, <2>3 DEF Rising, AtMost, InOrder
      <3>2. \A i \in DOMAIN now, j \in DOMAIN ch[c] : now[i] <= ch[c][j]
        BY <2>2, <2>3 DEF InOrder
      <3>3. /\ now \o ch[c] \in Seq(Int) /\ Rising(now \o ch[c])
            /\ AtMost(now \o ch[c], latest)
        BY <2>1, <2>3, <3>1, <3>2, ConcatRises
      <3>4. \A i \in DOMAIN (now \o ch[c]) : (now \o ch[c])[i] \in Int
        BY <3>3, ElementOfSeq, LenProperties
      <3> QED BY <2>1, <3>3, <3>4 DEF AtMost
    <2> DEFINE waiting == now \o ch[c]
    <2> HIDE DEF waiting
    <2>7. /\ waiting \o next \in Seq(Int) /\ Rising(waiting \o next)
          /\ AtMost(waiting \o next, store)
      <3>1. /\ waiting \in Seq(Int) /\ Rising(waiting)
            /\ AtMost(waiting, latest) /\ AtMost(waiting, store)
        BY <2>6 DEF waiting
      <3>2. \A i \in DOMAIN waiting : waiting[i] \in Int /\ waiting[i] <= latest
        BY <3>1, ElementOfSeq, LenProperties DEF AtMost
      <3>3. \A i \in DOMAIN waiting, j \in DOMAIN next : waiting[i] <= next[j]
        BY <2>1, <2>4, <3>2
      <3>4. AtMost(next, store)
        BY <2>1, <2>4 DEF AtMost
      <3> QED BY <2>1, <2>4, <3>1, <3>3, <3>4, ConcatRises
    <2> DEFINE due == waiting \o next
    <2> HIDE DEF due
    <2>8. Rising(due \o <<store>>)
      <3>1. due \in Seq(Int) /\ Rising(due) /\ AtMost(due, store)
        BY <2>7 DEF due
      <3>2. \A i \in DOMAIN due, j \in DOMAIN <<store>> : due[i] <= <<store>>[j]
        BY <2>5, <3>1 DEF AtMost
      <3> QED BY <2>5, <3>1, <3>2, ConcatRises
    <2> QED BY <2>8 DEF Rising, due, waiting, now, next
  <1> QED BY <1>1, FedAlways, PTL
=============================================================================
