---------------------------- MODULE Scrape_proofs ----------------------------
(***************************************************************************)
(* Proofs about PingStore and Scrape.                                      *)
(*                                                                         *)
(* Five invariants carry the theorems: TypeOK, all that FiguresInOrder     *)
(* needs; OrderInv, the order of the samples and of the log, for           *)
(* WindowIsWhole; TimeInv, how old the newest sample of a worker may be,   *)
(* for DownByLoss; FollowInv, what a restart would show of a series, for   *)
(* SinkFollows; and ScrapeInv, what the totals, the snapshot and the pages *)
(* say of the series, for the theorems about Scrape.                       *)
(***************************************************************************)
EXTENDS Scrape, SequenceTheorems, FiniteSetTheorems, WellFoundedInduction, TLAPS

(***************************************************************************)
(* The order of the samples.                                               *)
(***************************************************************************)

\* No two workers have one name.
OwnNames == \A v, w \in Worker : NameOf[v] = NameOf[w] => v = w

\* Oldest first.
Falls(s) == \A i, j \in DOMAIN s : i <= j => s[j].age <= s[i].age

\* The sample that a worker has taken is not older than what there is of its name.
Newest(w) ==
    pc[w] \in {"stamped", "added"} =>
        /\ \A i \in DOMAIN samples[NameOf[w]] : smp[w].age <= samples[NameOf[w]][i].age
        /\ \A i \in DOMAIN log : log[i].by = w => smp[w].age <= log[i].age

OrderInv ==
    /\ TypeOK
    /\ \A n \in Name : Falls(samples[n])
    /\ \A i, j \in DOMAIN log : i <= j /\ log[i].by = log[j].by => log[j].age <= log[i].age
    /\ \A w \in Worker : smp[w].by = w /\ Newest(w)

(***************************************************************************)
(* The time between two samples.                                           *)
(***************************************************************************)

LastOf(s) == s[Len(s)]

\* How old the newest live sample of a worker may be.
InTime(w) ==
    LET s == samples[NameOf[w]]
        a == LastOf(s).age
    IN  s # <<>> /\ LastOf(s).live /\ pc[w] # "off" =>
            /\ a <= Interval + Timeout
            /\ pc[w] = "waiting" => a <= Interval
            /\ pc[w] = "waiting" /\ ~fired[w] => a + next[w] <= Interval
            /\ pc[w] = "probing" => a + left[w] <= Interval + Timeout
            /\ pc[w] = "added" => a = 0

\* A series that ends with a live sample has a worker that goes on.
Alive(n) ==
    samples[n] # <<>> /\ LastOf(samples[n]).live => \E w \in Worker : NameOf[w] = n /\ pc[w] # "off"

TimeInv ==
    /\ TypeOK
    /\ \A w \in Worker : InTime(w) /\ (pc[w] = "stamped" => smp[w].age = 0) /\ (~up => pc[w] = "off")
    /\ \A n \in Name : Alive(n) /\ (~up => samples[n] = <<>>)

(***************************************************************************)
(* The totals, and the pages.                                              *)
(***************************************************************************)

Least(i, j) == IF i < j THEN i ELSE j

LiveOk(s) == {i \in DOMAIN s : s[i].live /\ Ok(s[i])}

\* The live samples of a series are the last k.
LiveLast(s, k) == k <= Len(s) /\ \A i \in DOMAIN s : s[i].live <=> i > Len(s) - k

\* The totals, sent, received and last, fit the series.
Session(s, se, re, la) ==
    /\ LiveLast(s, Least(se, RingCap))
    /\ re <= se
    /\ se <= RingCap => re = Cardinality(LiveOk(s))
    /\ LiveOk(s) # {} => re > 0
    /\ \A i \in LiveOk(s) : (\A j \in LiveOk(s) : j <= i) => la = s[i].rtt
    /\ re = 0 <=> la = NoRtt

\* Later figures are not behind earlier ones.
Ahead(oldSent, oldRecv, newSent, newRecv) ==
    oldSent <= newSent /\ oldRecv <= newRecv /\ newRecv - oldRecv <= newSent - oldSent

InHistogram(s) == Cardinality(Answers(s))

\* The figures f of a snapshot are not ahead of the series and its totals.
SnapFits(s, se, re, f) ==
    /\ f \in Figures /\ f.recv <= f.sent
    /\ Ahead(f.sent, f.recv, se, re)
    /\ f.ok <= InHistogram(s) + (se - f.sent)

\* Nor is the page p.
PageFits(s, se, re, p) ==
    /\ p.figures.recv <= p.figures.sent /\ p.figures.ok <= p.count + p.since
    /\ Ahead(p.figures.sent, p.figures.recv, se, re)
    /\ p.count <= InHistogram(s) \/ Len(s) = RingCap

Shown(n) ==
    /\ n \in todo => SnapFits(samples[n], sent[n], received[n], snap[n])
    /\ page[n] # None => PageFits(samples[n], sent[n], received[n], page[n])
    /\ page[n] # None /\ n \in todo =>
         Ahead(page[n].figures.sent, page[n].figures.recv, snap[n].sent, snap[n].recv)

ScrapeInv ==
    /\ ScrapeTypeOK
    /\ \A w \in Worker : smp[w].live
    /\ \A n \in Name : Session(samples[n], sent[n], received[n], last[n]) /\ Shown(n)

(***************************************************************************)
(* Samples, and the series they are added to.                              *)
(***************************************************************************)

LEMMA Sizes == Window \in Nat \ {0} /\ RingCap \in Nat \ {0} /\ LogCap \in Nat \ {0}
               /\ Interval \in Nat \ {0} /\ Timeout \in Nat /\ Old \in Nat /\ Old = Window + 1
  BY PingAssumption DEF Old

LEMMA RttIs == NoRtt = -1 /\ \A r \in Rtt : r \in Nat /\ r # NoRtt
  BY PingAssumption DEF NoRtt

LEMMA LeastOfNats ==
  ASSUME NEW T, T \subseteq Nat, T # {}
  PROVE  \E m \in T : \A k \in T : m <= k
  <1> DEFINE R == OpToRel(<, Nat)
  <1>1. IsWellFoundedOn(R, Nat)
    BY NatLessThanWellFounded
  <1>2. \E m \in T : \A k \in T : <<k, m>> \notin R
    <2> HIDE DEF R
    <2> QED BY <1>1, WFMin
  <1>3. PICK m \in T : \A k \in T : <<k, m>> \notin R
    BY <1>2
  <1>4. ASSUME NEW k \in T PROVE m <= k
    <2>1. m \in Nat /\ k \in Nat
      OBVIOUS
    <2>2. ~(k < m)
      BY <1>3, <2>1 DEF OpToRel
    <2> QED BY <2>1, <2>2
  <1> QED BY <1>4

LEMMA SampleType ==
  ASSUME NEW x \in Sample
  PROVE  /\ x.by \in Worker /\ x.age \in 0 .. Old /\ x.age \in Nat /\ x.age <= Old
         /\ x.rtt \in Rtt \cup {NoRtt} /\ x.live \in BOOLEAN /\ x.kept \in BOOLEAN
  BY Sizes DEF Sample, Age

LEMMA SeqType ==
  ASSUME NEW s \in Seq(Sample)
  PROVE  Len(s) \in Nat /\ DOMAIN s = 1 .. Len(s) /\ \A i \in 1 .. Len(s) : s[i] \in Sample
  OBVIOUS

LEMMA TakenType ==
  ASSUME NEW w \in Worker, NEW r \in Rtt \cup {NoRtt}, NEW k \in BOOLEAN
  PROVE  /\ Taken(w, r, k) \in Sample /\ Taken(w, r, k).by = w /\ Taken(w, r, k).age = 0
         /\ Taken(w, r, k).rtt = r /\ Taken(w, r, k).live /\ Taken(w, r, k).kept = k
  <1>1. 0 \in Age
    BY Sizes DEF Age
  <1>2. Taken(w, r, k) = [by |-> w, age |-> 0, rtt |-> r, live |-> TRUE, kept |-> k]
    BY DEF Taken
  <1>3. CASE k = TRUE
    BY <1>1, <1>2, <1>3 DEF Sample
  <1>4. CASE k = FALSE
    BY <1>1, <1>2, <1>4 DEF Sample
  <1> QED BY <1>3, <1>4

\* The sample of a lookup that failed, as TakenType has it.
LEMMA LostType ==
  ASSUME NEW w \in Worker
  PROVE  /\ Taken(w, NoRtt, FALSE) \in Sample /\ Taken(w, NoRtt, FALSE).by = w
         /\ Taken(w, NoRtt, FALSE).age = 0 /\ Taken(w, NoRtt, FALSE).rtt = NoRtt
         /\ Taken(w, NoRtt, FALSE).live
  <1>1. 0 \in Age
    BY Sizes DEF Age
  <1> QED BY <1>1 DEF Taken, Sample

LEMMA NoSampleType ==
  ASSUME NEW w \in Worker
  PROVE  NoSample(w) \in Sample /\ NoSample(w).by = w /\ NoSample(w).age = 0 /\ NoSample(w).live
  BY LostType DEF NoSample

\* How many samples an addition drops.
Drop(s) == IF Len(s) < RingCap THEN 0 ELSE 1

LEMMA AddedIs ==
  ASSUME NEW s \in Seq(Sample), Len(s) <= RingCap, NEW x \in Sample
  PROVE  /\ Added(s, x) \in Seq(Sample)
         /\ Len(Added(s, x)) = Len(s) + 1 - Drop(s)
         /\ Len(Added(s, x)) \in 1 .. RingCap
         /\ DOMAIN Added(s, x) = 1 .. Len(s) + 1 - Drop(s)
         /\ Added(s, x)[Len(s) + 1 - Drop(s)] = x
         /\ \A i \in 1 .. Len(s) - Drop(s) : Added(s, x)[i] = s[i + Drop(s)]
         /\ Drop(s) \in {0, 1} /\ (Drop(s) = 1 <=> Len(s) = RingCap) /\ Len(s) \in Nat
  <1> USE Sizes
  <1> DEFINE u == Append(s, x)
             n == Len(s)
  <1>1. u \in Seq(Sample) /\ Len(u) = n + 1 /\ u[n + 1] = x /\ (\A i \in 1 .. n : u[i] = s[i]) /\ n \in Nat
    OBVIOUS
  <1> HIDE DEF u
  <1>2. CASE n < RingCap
    <2>1. Added(s, x) = u /\ Drop(s) = 0
      BY <1>1, <1>2 DEF Added, Trim, Drop, u
    <2> QED BY <1>1, <1>2, <2>1
  <1>3. CASE ~(n < RingCap)
    <2>1. n = RingCap /\ Drop(s) = 1
      BY <1>1, <1>3 DEF Drop
    <2> DEFINE v == SubSeq(u, 2, n + 1)
    <2>2. Added(s, x) = v
      <3>1. Len(u) > RingCap /\ Len(u) - RingCap + 1 = 2
        BY <1>1, <2>1
      <3>2. Added(s, x) = Trim(u)
        BY DEF Added, u
      <3> QED BY <1>1, <3>1, <3>2 DEF Trim
    <2>3. v \in Seq(Sample) /\ Len(v) = n /\ \A i \in 1 .. n : v[i] = u[i + 1]
      BY <1>1, <2>1
    <2> HIDE DEF v
    <2>4. v[n] = x /\ (\A i \in 1 .. n - 1 : v[i] = s[i + 1]) /\ DOMAIN v = 1 .. n
      BY <1>1, <2>1, <2>3
    <2>5. n + 1 - Drop(s) = n /\ n - Drop(s) = n - 1 /\ n \in 1 .. RingCap /\ (Drop(s) = 1 <=> n = RingCap)
      BY <1>1, <2>1
    <2> QED BY <1>1, <2>1, <2>2, <2>3, <2>4, <2>5
  <1> QED BY <1>2, <1>3

\* The elements of a longer series: the new one is last, the others were there.
LEMMA AddedElem ==
  ASSUME NEW s \in Seq(Sample), Len(s) <= RingCap, NEW x \in Sample, NEW i \in DOMAIN Added(s, x)
  PROVE  \/ i = Len(Added(s, x)) /\ Added(s, x)[i] = x
         \/ i # Len(Added(s, x)) /\ i + Drop(s) \in DOMAIN s /\ Added(s, x)[i] = s[i + Drop(s)]
  <1> DEFINE t == Added(s, x)
             d == Drop(s)
             n == Len(s)
  <1>1. /\ Len(t) = n + 1 - d /\ DOMAIN t = 1 .. n + 1 - d /\ t[n + 1 - d] = x
        /\ (\A k \in 1 .. n - d : t[k] = s[k + d]) /\ d \in {0, 1} /\ n \in Nat
    BY AddedIs
  <1>2. DOMAIN s = 1 .. n
    OBVIOUS
  <1> HIDE DEF t, d, n
  <1>3. CASE i = n + 1 - d
    BY <1>1, <1>3 DEF t
  <1>4. CASE i # n + 1 - d
    <2>1. i \in 1 .. n - d /\ i + d \in 1 .. n
      BY <1>1, <1>4 DEF t
    <2> QED BY <1>1, <1>2, <1>4, <2>1 DEF t, d
  <1> QED BY <1>3, <1>4

\* A unit of time passes for a sample, and for a series.
Older(x) == [x EXCEPT !.age = IF @ = Old THEN Old ELSE @ + 1]

Aged(s) == [i \in DOMAIN s |-> Older(s[i])]

LEMMA OlderIs ==
  ASSUME NEW x \in Sample
  PROVE  /\ Older(x) \in Sample /\ Older(x).by = x.by /\ Older(x).rtt = x.rtt /\ Older(x).live = x.live
         /\ Older(x).kept = x.kept
         /\ Older(x).age = IF x.age = Old THEN Old ELSE x.age + 1
  BY Sizes DEF Sample, Age, Older

LEMMA OlderKeepsOrder ==
  ASSUME NEW x \in Sample, NEW y \in Sample, x.age <= y.age
  PROVE  Older(x).age <= Older(y).age
  BY OlderIs, SampleType, Sizes

LEMMA AgedIs ==
  ASSUME NEW s \in Seq(Sample)
  PROVE  /\ Aged(s) \in Seq(Sample) /\ Len(Aged(s)) = Len(s) /\ DOMAIN Aged(s) = DOMAIN s
         /\ \A i \in DOMAIN s : Aged(s)[i] = Older(s[i]) /\ s[i] \in Sample
  <1>1. \A i \in DOMAIN s : s[i] \in Sample /\ Older(s[i]) \in Sample
    BY OlderIs
  <1>2. DOMAIN s = 1 .. Len(s) /\ Len(s) \in Nat
    OBVIOUS
  <1>3. Aged(s) = [i \in 1 .. Len(s) |-> Older(s[i])]
    BY <1>2 DEF Aged
  <1> QED BY <1>1, <1>2, <1>3

\* What a step of time does.
LEMMA TickIs ==
  ASSUME Tick
  PROVE  /\ samples' = [n \in Name |-> Aged(samples[n])] /\ log' = Aged(log)
         /\ smp' = [w \in Worker |-> IF pc[w] \in {"stamped", "added"} THEN Older(smp[w]) ELSE smp[w]]
         /\ next' = [w \in Worker |-> IF next[w] = 1 THEN Interval ELSE next[w] - 1]
         /\ fired' = [w \in Worker |-> fired[w] \/ (pc[w] # "off" /\ next[w] = 1)]
         /\ left' = [w \in Worker |-> IF pc[w] = "probing" THEN left[w] - 1 ELSE 0]
         /\ UNCHANGED <<up, ip, pc, addr>>
         /\ \A w \in Worker : pc[w] = "probing" => left[w] > 0
         /\ Prompt => \A w \in Worker : pc[w] \in {"off", "probing"} \/ (pc[w] = "waiting" /\ ~fired[w])
  BY DEF Tick, Aged, Older

(***************************************************************************)
(* The replay.                                                             *)
(***************************************************************************)

\* A sample, loaded.
Dead(x) == [x EXCEPT !.live = FALSE]

LEMMA DeadIs ==
  ASSUME NEW x \in Sample
  PROVE  Dead(x) \in Sample /\ Dead(x).by = x.by /\ Dead(x).age = x.age /\ Dead(x).rtt = x.rtt /\ ~Dead(x).live
         /\ Dead(x).kept = x.kept
  BY DEF Dead, Sample

LEMMA ReplayedLoads ==
  \A n : Replayed(n) = Loaded(log, Under(n)) /\ Replayed(n)' = Loaded(log', Under(n))
  BY DEF Replayed, Loaded, Under

LEMMA UnderIs ==
  ASSUME NEW n, NEW x \in Sample
  PROVE  (x \in Under(n) <=> NameOf[x.by] = n) /\ (Older(x) \in Under(n) <=> x \in Under(n))
  BY OlderIs DEF Under

Load(recs, f, S, k) ==
    IF k = 0 THEN <<>>
    ELSE IF recs[k] \in S THEN Added(f[k - 1], Dead(recs[k])) ELSE f[k - 1]

IsLoaded(recs, f, S, m) == f = [k \in 0 .. m |-> Load(recs, f, S, k)]

LEMMA LoadedExists ==
  ASSUME NEW recs, NEW S, NEW m \in Nat
  PROVE  \E f : IsLoaded(recs, f, S, m)
  <1> DEFINE None0 == {k \in 0 .. m : ~ \E f : IsLoaded(recs, f, S, k)}
  <1> SUFFICES ASSUME None0 # {} PROVE FALSE
    <2>1. m \in 0 .. m
      OBVIOUS
    <2> QED BY <2>1
  <1>1. PICK l \in None0 : \A k \in None0 : l <= k
    <2>1. None0 \subseteq Nat
      OBVIOUS
    <2> HIDE DEF None0
    <2> QED BY <2>1, LeastOfNats
  <1>2. l \in 0 .. m /\ ~ \E f : IsLoaded(recs, f, S, l)
    BY <1>1
  <1>3. l # 0
    <2> DEFINE z == [i \in 0 .. 0 |-> <<>>]
    <2>1. IsLoaded(recs, z, S, 0)
      BY DEF IsLoaded, Load
    <2> HIDE DEF z
    <2> QED BY <1>2, <2>1
  <1>4. l - 1 \in 0 .. m /\ l - 1 \notin None0
    <2> HIDE DEF None0
    <2>1. l - 1 \in 0 .. m /\ ~(l <= l - 1)
      BY <1>2, <1>3
    <2> QED BY <1>1, <2>1
  <1>5. PICK f : IsLoaded(recs, f, S, l - 1)
    BY <1>4
  <1> DEFINE h == [i \in 0 .. l |-> IF i = l THEN Load(recs, f, S, l) ELSE f[i]]
  <1>6. \A i \in 0 .. l : h[i] = Load(recs, h, S, i)
    <2> SUFFICES ASSUME NEW i \in 0 .. l PROVE h[i] = Load(recs, h, S, i)
      OBVIOUS
    <2>1. CASE i = l
      <3>1. l - 1 \in 0 .. l /\ l - 1 # l /\ l \in 0 .. l
        BY <1>2, <1>3
      <3>2. h[l - 1] = f[l - 1] /\ h[l] = Load(recs, f, S, l)
        BY <3>1
      <3> HIDE DEF h
      <3> QED BY <1>3, <2>1, <3>2 DEF Load
    <2>2. CASE i # l
      <3>1. i \in 0 .. l - 1
        BY <1>2, <1>3, <2>2
      <3>2. f[i] = Load(recs, f, S, i)
        BY <1>5, <3>1 DEF IsLoaded
      <3>3. i # 0 => i - 1 \in 0 .. l /\ i - 1 # l
        BY <1>2, <3>1
      <3>4. h[i] = f[i] /\ (i # 0 => h[i - 1] = f[i - 1])
        BY <2>2, <3>3
      <3> HIDE DEF h
      <3> QED BY <3>2, <3>4 DEF Load
    <2> QED BY <2>1, <2>2
  <1>7. IsLoaded(recs, h, S, l)
    <2>1. h = [i \in 0 .. l |-> h[i]]
      OBVIOUS
    <2>2. h = [i \in 0 .. l |-> Load(recs, h, S, i)]
      <3> HIDE DEF h
      <3> QED BY <1>6, <2>1
    <2> HIDE DEF h
    <2> QED BY <2>2 DEF IsLoaded
  <1> HIDE DEF h
  <1> QED BY <1>2, <1>7

LEMMA LoadedIs ==
  ASSUME NEW recs, NEW S, Len(recs) \in Nat
  PROVE  \E f : /\ Loaded(recs, S) = f[Len(recs)] /\ f[0] = <<>>
                /\ \A k \in 1 .. Len(recs) :
                     f[k] = IF recs[k] \in S THEN Added(f[k - 1], Dead(recs[k])) ELSE f[k - 1]
  <1> DEFINE m == Len(recs)
             f == CHOOSE f : IsLoaded(recs, f, S, m)
  <1>1. IsLoaded(recs, f, S, m)
    BY LoadedExists
  <1>2. Loaded(recs, S) = f[m]
    <2> DEFINE Step(g, k) == IF k = 0 THEN <<>>
                             ELSE IF recs[k] \in S THEN Added(g[k - 1], [recs[k] EXCEPT !.live = FALSE])
                             ELSE g[k - 1]
    <2>1. ASSUME NEW g PROVE [k \in 0 .. m |-> Step(g, k)] = [k \in 0 .. m |-> Load(recs, g, S, k)]
      BY DEF Load, Dead
    <2>2. f = CHOOSE g : g = [k \in 0 .. m |-> Load(recs, g, S, k)]
      BY DEF IsLoaded
    <2> DEFINE h == CHOOSE g : g = [k \in 0 .. m |-> Step(g, k)]
    <2>3. \A g : g = [k \in 0 .. m |-> Step(g, k)] <=> g = [k \in 0 .. m |-> Load(recs, g, S, k)]
      <3> HIDE DEF Step, m
      <3> QED BY <2>1
    <2>4. h = f
      <3> HIDE DEF Step, m, f
      <3> QED BY <2>2, <2>3
    <2>5. Loaded(recs, S) = h[m]
      BY DEF Loaded
    <2> HIDE DEF h, f
    <2> QED BY <2>4, <2>5
  <1> HIDE DEF f
  <1>3. \A k \in 0 .. m : f[k] = Load(recs, f, S, k)
    BY <1>1 DEF IsLoaded
  <1>4. f[0] = <<>>
    <2>1. 0 \in 0 .. m
      OBVIOUS
    <2> QED BY <1>3, <2>1 DEF Load
  <1>5. \A k \in 1 .. m : f[k] = IF recs[k] \in S THEN Added(f[k - 1], Dead(recs[k])) ELSE f[k - 1]
    <2>1. \A k \in 1 .. m : k \in 0 .. m /\ k # 0
      OBVIOUS
    <2> QED BY <1>3, <2>1 DEF Load
  <1> QED BY <1>2, <1>4, <1>5

LEMMA ReplayedIs ==
  ASSUME NEW n, log \in Seq(Sample)
  PROVE  \E f : /\ Replayed(n) = f[Len(log)] /\ f[0] = <<>>
                /\ \A k \in 1 .. Len(log) :
                     f[k] = IF NameOf[log[k].by] = n THEN Added(f[k - 1], Dead(log[k])) ELSE f[k - 1]
  <1>1. Len(log) \in Nat /\ \A k \in 1 .. Len(log) : log[k] \in Sample
    OBVIOUS
  <1>2. PICK f : /\ Loaded(log, Under(n)) = f[Len(log)] /\ f[0] = <<>>
                 /\ \A k \in 1 .. Len(log) :
                      f[k] = IF log[k] \in Under(n) THEN Added(f[k - 1], Dead(log[k])) ELSE f[k - 1]
    <2> DEFINE S == Under(n)
    <2> HIDE DEF S
    <2>1. \E f : /\ Loaded(log, S) = f[Len(log)] /\ f[0] = <<>>
                  /\ \A k \in 1 .. Len(log) :
                       f[k] = IF log[k] \in S THEN Added(f[k - 1], Dead(log[k])) ELSE f[k - 1]
      BY <1>1, LoadedIs
    <2> QED BY <2>1 DEF S
  <1>3. \A k \in 1 .. Len(log) : log[k] \in Under(n) <=> NameOf[log[k].by] = n
    BY <1>1, UnderIs
  <1>4. \A k \in 1 .. Len(log) :
          f[k] = IF NameOf[log[k].by] = n THEN Added(f[k - 1], Dead(log[k])) ELSE f[k - 1]
    BY <1>2, <1>3
  <1> QED BY <1>2, <1>4, ReplayedLoads

\* What is loaded up to the k-th record of the log is of records of the name.
LoadedOK(s, n, k) ==
    /\ s \in Seq(Sample) /\ Len(s) <= RingCap
    /\ \A i \in DOMAIN s : ~s[i].live
    /\ \A i \in DOMAIN s :
         \E j \in 1 .. k : s[i].age = log[j].age /\ s[i].kept = log[j].kept /\ NameOf[log[j].by] = n

LEMMA LoadedGrows ==
  ASSUME log \in Seq(Sample), NEW n, NEW k \in 1 .. Len(log), NEW s, LoadedOK(s, n, k - 1)
  PROVE  LoadedOK(IF NameOf[log[k].by] = n THEN Added(s, Dead(log[k])) ELSE s, n, k)
  <1>1. \A j \in 1 .. k - 1 : j \in 1 .. k
    OBVIOUS
  <1>2. CASE NameOf[log[k].by] # n
    BY <1>1, <1>2 DEF LoadedOK
  <1>3. CASE NameOf[log[k].by] = n
    <2> DEFINE x == Dead(log[k])
               t == Added(s, x)
    <2>1. x \in Sample /\ ~x.live /\ x.age = log[k].age /\ x.kept = log[k].kept /\ s \in Seq(Sample) /\ Len(s) <= RingCap
      <3>1. log[k] \in Sample
        OBVIOUS
      <3> QED BY <3>1, DeadIs DEF LoadedOK
    <2> HIDE DEF x
    <2>2. t \in Seq(Sample) /\ Len(t) <= RingCap
      BY <2>1, AddedIs
    <2>3. ASSUME NEW i \in DOMAIN t
          PROVE  /\ ~t[i].live
                 /\ \E j \in 1 .. k : t[i].age = log[j].age /\ t[i].kept = log[j].kept /\ NameOf[log[j].by] = n
      <3>1. t[i] = x \/ \E l \in DOMAIN s : t[i] = s[l]
        BY <2>1, AddedElem
      <3> HIDE DEF t
      <3>2. CASE t[i] = x
        <4>1. k \in 1 .. k
          OBVIOUS
        <4> QED BY <1>3, <2>1, <3>2, <4>1
      <3>3. CASE \E l \in DOMAIN s : t[i] = s[l]
        BY <1>1, <3>3 DEF LoadedOK
      <3> QED BY <3>1, <3>2, <3>3
    <2> QED BY <1>3, <2>2, <2>3 DEF LoadedOK, x
  <1> QED BY <1>2, <1>3

LEMMA LoadedAll ==
  ASSUME log \in Seq(Sample), NEW n, NEW f, f[0] = <<>>,
         \A k \in 1 .. Len(log) :
            f[k] = IF NameOf[log[k].by] = n THEN Added(f[k - 1], Dead(log[k])) ELSE f[k - 1]
  PROVE  \A k \in 0 .. Len(log) : LoadedOK(f[k], n, k)
  <1> DEFINE Wrong == {k \in 0 .. Len(log) : ~LoadedOK(f[k], n, k)}
  <1> SUFFICES ASSUME Wrong # {} PROVE FALSE
    OBVIOUS
  <1>1. PICK m \in Wrong : \A k \in Wrong : m <= k
    <2>1. Wrong \subseteq Nat
      OBVIOUS
    <2> HIDE DEF Wrong
    <2> QED BY <2>1, LeastOfNats
  <1>2. m \in 0 .. Len(log) /\ ~LoadedOK(f[m], n, m) /\ Len(log) \in Nat
    BY <1>1
  <1>3. m # 0
    <2>1. LoadedOK(<<>>, n, 0)
      <3>1. <<>> \in Seq(Sample) /\ Len(<<>>) = 0 /\ DOMAIN <<>> = {}
        OBVIOUS
      <3> QED BY <3>1, Sizes DEF LoadedOK
    <2> QED BY <1>2, <2>1
  <1>4. m \in 1 .. Len(log) /\ m - 1 \in 0 .. Len(log) /\ m - 1 \notin Wrong
    <2>1. m \in 1 .. Len(log) /\ m - 1 \in 0 .. Len(log) /\ ~(m <= m - 1)
      BY <1>2, <1>3
    <2> HIDE DEF Wrong
    <2> QED BY <1>1, <2>1
  <1>5. LoadedOK(f[m - 1], n, m - 1)
    BY <1>4
  <1> HIDE DEF Wrong
  <1>6. f[m] = IF NameOf[log[m].by] = n THEN Added(f[m - 1], Dead(log[m])) ELSE f[m - 1]
    BY <1>4
  <1> QED BY <1>2, <1>4, <1>5, <1>6, LoadedGrows

LEMMA ReplayedType ==
  ASSUME log \in Seq(Sample), NEW n
  PROVE  Replayed(n) \in Seq(Sample) /\ Len(Replayed(n)) <= RingCap
         /\ \A i \in DOMAIN Replayed(n) : ~Replayed(n)[i].live
  <1>1. Len(log) \in Nat /\ Len(log) \in 0 .. Len(log)
    OBVIOUS
  <1>2. PICK f : /\ Replayed(n) = f[Len(log)] /\ f[0] = <<>>
                 /\ \A k \in 1 .. Len(log) :
                      f[k] = IF NameOf[log[k].by] = n THEN Added(f[k - 1], Dead(log[k])) ELSE f[k - 1]
    BY <1>1, ReplayedIs
  <1>3. LoadedOK(f[Len(log)], n, Len(log))
    BY <1>1, <1>2, LoadedAll
  <1> QED BY <1>2, <1>3 DEF LoadedOK

\* What is replayed of a history is in it.
LEMMA ReplayedKept ==
  ASSUME log \in Seq(Sample), NEW n, \A j \in DOMAIN log : log[j].kept
  PROVE  \A i \in DOMAIN Replayed(n) : Replayed(n)[i].kept
  <1>1. Len(log) \in Nat /\ Len(log) \in 0 .. Len(log) /\ DOMAIN log = 1 .. Len(log)
    OBVIOUS
  <1>2. PICK f : /\ Replayed(n) = f[Len(log)] /\ f[0] = <<>>
                 /\ \A k \in 1 .. Len(log) :
                      f[k] = IF NameOf[log[k].by] = n THEN Added(f[k - 1], Dead(log[k])) ELSE f[k - 1]
    BY <1>1, ReplayedIs
  <1>3. LoadedOK(f[Len(log)], n, Len(log))
    BY <1>1, <1>2, LoadedAll
  <1>4. \A i \in DOMAIN f[Len(log)] : \E j \in 1 .. Len(log) : f[Len(log)][i].kept = log[j].kept
    BY <1>3 DEF LoadedOK
  <1> QED BY <1>1, <1>2, <1>4

\* A sample that is not older than the others keeps a series in order.
LEMMA AddedFalls ==
  ASSUME NEW s \in Seq(Sample), Len(s) <= RingCap, NEW x \in Sample, Falls(s),
         \A i \in DOMAIN s : x.age <= s[i].age
  PROVE  Falls(Added(s, x))
  <1> DEFINE t == Added(s, x)
             d == Drop(s)
  <1>1. t \in Seq(Sample) /\ DOMAIN t = 1 .. Len(t) /\ Len(t) \in Nat /\ d \in {0, 1}
    BY AddedIs
  <1> SUFFICES ASSUME NEW i \in DOMAIN t, NEW j \in DOMAIN t, i <= j PROVE t[j].age <= t[i].age
    BY DEF Falls
  <1>2. (i = Len(t) /\ t[i] = x) \/ (i # Len(t) /\ i + d \in DOMAIN s /\ t[i] = s[i + d])
    BY AddedElem
  <1>3. (j = Len(t) /\ t[j] = x) \/ (j # Len(t) /\ j + d \in DOMAIN s /\ t[j] = s[j + d])
    BY AddedElem
  <1>4. x.age <= x.age
    BY SampleType
  <1> HIDE DEF t, d
  <1>5. i \in 1 .. Len(t) /\ j \in 1 .. Len(t) /\ i + d <= j + d
    BY <1>1
  <1>6. CASE j = Len(t) /\ t[j] = x
    BY <1>2, <1>4, <1>6
  <1>7. CASE j # Len(t) /\ j + d \in DOMAIN s /\ t[j] = s[j + d]
    <2>1. i # Len(t)
      BY <1>1, <1>5, <1>7
    <2> QED BY <1>2, <1>5, <1>7, <2>1 DEF Falls
  <1> QED BY <1>3, <1>6, <1>7

\* If the records of the name are, oldest first, so is what is loaded of them.
LEMMA ReplayedFalls ==
  ASSUME log \in Seq(Sample), NEW n,
         \A i, j \in DOMAIN log : i <= j /\ NameOf[log[i].by] = n /\ NameOf[log[j].by] = n => log[j].age <= log[i].age
  PROVE  Falls(Replayed(n))
  <1>1. Len(log) \in Nat /\ Len(log) \in 0 .. Len(log) /\ DOMAIN log = 1 .. Len(log)
    OBVIOUS
  <1>2. PICK f : /\ Replayed(n) = f[Len(log)] /\ f[0] = <<>>
                 /\ \A k \in 1 .. Len(log) :
                      f[k] = IF NameOf[log[k].by] = n THEN Added(f[k - 1], Dead(log[k])) ELSE f[k - 1]
    BY <1>1, ReplayedIs
  <1>3. \A k \in 0 .. Len(log) : LoadedOK(f[k], n, k)
    BY <1>2, LoadedAll
  <1> DEFINE Wrong == {k \in 0 .. Len(log) : ~Falls(f[k])}
  <1>4. SUFFICES ASSUME Wrong # {} PROVE FALSE
    BY <1>1, <1>2
  <1>5. PICK m \in Wrong : \A k \in Wrong : m <= k
    <2>1. Wrong \subseteq Nat
      OBVIOUS
    <2> HIDE DEF Wrong
    <2> QED BY <1>4, <2>1, LeastOfNats
  <1>6. m \in 0 .. Len(log) /\ ~Falls(f[m])
    BY <1>5
  <1>7. m # 0
    <2>1. Falls(<<>>)
      BY DEF Falls
    <2> QED BY <1>2, <1>6, <2>1
  <1>8. m \in 1 .. Len(log) /\ m - 1 \in 0 .. Len(log) /\ m - 1 \notin Wrong
    <2>1. m \in 1 .. Len(log) /\ m - 1 \in 0 .. Len(log) /\ ~(m <= m - 1)
      BY <1>1, <1>6, <1>7
    <2> HIDE DEF Wrong
    <2> QED BY <1>5, <2>1
  <1>9. Falls(f[m - 1]) /\ LoadedOK(f[m - 1], n, m - 1)
    BY <1>3, <1>8
  <1> HIDE DEF Wrong
  <1>10. f[m] = IF NameOf[log[m].by] = n THEN Added(f[m - 1], Dead(log[m])) ELSE f[m - 1]
    BY <1>2, <1>8
  <1> DEFINE s == f[m - 1]
             x == Dead(log[m])
             t == Added(s, x)
  <1>11. NameOf[log[m].by] = n /\ f[m] = t
    BY <1>6, <1>9, <1>10
  <1>12. x \in Sample /\ x.age = log[m].age /\ s \in Seq(Sample) /\ Len(s) <= RingCap
    <2>1. log[m] \in Sample
      BY <1>1, <1>8
    <2> QED BY <1>9, <2>1, DeadIs DEF LoadedOK
  <1>13. \A i \in DOMAIN s : x.age <= s[i].age
    <2> SUFFICES ASSUME NEW i \in DOMAIN s PROVE x.age <= s[i].age
      OBVIOUS
    <2>1. PICK j \in 1 .. m - 1 : s[i].age = log[j].age /\ NameOf[log[j].by] = n
      BY <1>9 DEF LoadedOK
    <2>2. j \in DOMAIN log /\ m \in DOMAIN log /\ j <= m
      BY <1>1, <1>8
    <2> QED BY <1>11, <1>12, <2>1, <2>2
  <1>14. Falls(t)
    BY <1>9, <1>12, <1>13, AddedFalls
  <1> QED BY <1>6, <1>11, <1>14

(***************************************************************************)
(* Types.                                                                  *)
(***************************************************************************)

Series == {s \in Seq(Sample) : Len(s) <= RingCap}

LEMMA SeriesType ==
  ASSUME TypeOK
  PROVE  samples \in [Name -> Series] /\ NameOf \in [Worker -> Name]
  BY PingAssumption DEF TypeOK, Series

LEMMA AddSeries ==
  ASSUME TypeOK, NEW n \in Name, NEW x \in Sample, samples' = [samples EXCEPT ![n] = Added(@, x)]
  PROVE  /\ samples' \in [Name -> Series]
         /\ samples'[n] = Added(samples[n], x)
         /\ \A k \in Name \ {n} : samples'[k] = samples[k]
  <1>1. samples \in [Name -> Series] /\ samples[n] \in Series
    BY SeriesType
  <1> DEFINE t == Added(samples[n], x)
  <1>2. t \in Series
    BY <1>1, AddedIs DEF Series
  <1>3. samples' = [samples EXCEPT ![n] = t]
    OBVIOUS
  <1> HIDE DEF t
  <1>4. samples' \in [Name -> Series] /\ samples'[n] = t /\ \A k \in Name \ {n} : samples'[k] = samples[k]
    BY <1>1, <1>2, <1>3
  <1> QED BY <1>4 DEF t

\* A record more in the log.
LEMMA LoggedIs ==
  ASSUME NEW x \in Sample, log \in Seq(Sample), Len(log) <= LogCap,
         log' = IF Len(Logged(x)) > LogCap THEN Tail(Logged(x)) ELSE Logged(x)
  PROVE  \E d \in {0, 1} :
            /\ log' \in Seq(Sample) /\ Len(log') <= LogCap /\ Len(log') = Len(log) + 1 - d
            /\ log'[Len(log')] = x
            /\ \A i \in DOMAIN log' : i # Len(log') => i + d \in DOMAIN log /\ log'[i] = log[i + d]
  <1> USE Sizes
  <1> DEFINE u == Append(log, x)
             n == Len(log)
  <1>1. u \in Seq(Sample) /\ Len(u) = n + 1 /\ u[n + 1] = x /\ (\A i \in 1 .. n : u[i] = log[i]) /\ n \in Nat
        /\ DOMAIN log = 1 .. n /\ DOMAIN u = 1 .. n + 1
    OBVIOUS
  <1>2. log' = IF Len(u) > LogCap THEN Tail(u) ELSE u
    BY DEF Logged
  <1> HIDE DEF u
  <1>3. CASE Len(u) > LogCap
    <2> DEFINE v == Tail(u)
    <2>1. v \in Seq(Sample) /\ Len(v) = n /\ DOMAIN v = 1 .. n /\ \A i \in 1 .. n : v[i] = u[i + 1]
      BY <1>1
    <2>2. n >= 1 /\ n <= LogCap
      BY <1>1, <1>3
    <2>3. log' = v
      BY <1>2, <1>3
    <2> HIDE DEF v
    <2>4. v[n] = x /\ \A i \in 1 .. n : i # n => i + 1 \in 1 .. n /\ v[i] = log[i + 1]
      <3>1. n \in 1 .. n /\ \A i \in 1 .. n : i # n => i + 1 \in 1 .. n
        <4>1. n \in Nat /\ n >= 1
          BY <1>1, <2>2
        <4> HIDE DEF n
        <4> QED BY <4>1
      <3> HIDE DEF n
      <3>2. v[n] = x
        BY <1>1, <2>1, <3>1
      <3>3. ASSUME NEW i \in 1 .. n, i # n PROVE v[i] = log[i + 1]
        <4>1. v[i] = u[i + 1] /\ i + 1 \in 1 .. n
          BY <2>1, <3>1, <3>3
        <4> QED BY <1>1, <4>1
      <3> QED BY <3>1, <3>2, <3>3
    <2>5. n = n + 1 - 1
      BY <1>1
    <2> HIDE DEF n
    <2> WITNESS 1 \in {0, 1}
    <2> QED BY <1>1, <2>1, <2>2, <2>3, <2>4, <2>5 DEF n
  <1>4. CASE ~(Len(u) > LogCap)
    <2>1. log' = u
      BY <1>2, <1>4
    <2>2. \A i \in 1 .. n + 1 : i # n + 1 => i + 0 \in 1 .. n /\ u[i] = log[i + 0]
      BY <1>1
    <2>3. n + 1 - 0 = n + 1 /\ n + 1 <= LogCap
      BY <1>1, <1>4
    <2> WITNESS 0 \in {0, 1}
    <2> QED BY <1>1, <2>1, <2>2, <2>3
  <1> QED BY <1>3, <1>4

LEMMA LeftIs ==
  ASSUME NEW T, NEW l \in Seq(T), Len(l) <= LogCap, NEW m \in Left(l)
  PROVE  m \in Seq(T) /\ Len(m) <= LogCap
  <1>1. PICK w \in 0 .. Len(l), c \in 0 .. Len(l) :
          m = SubSeq(SubSeq(l, Len(l) - w + 1, Len(l)) \o SubSeq(l, 1, Len(l) - w), 1, c)
    <2> DEFINE W == IF Len(l) < LogCap THEN {0} ELSE 0 .. Len(l)
    <2>1. PICK t \in Turned(l), c \in 0 .. Len(l) : m = SubSeq(t, 1, c)
      BY DEF Left
    <2>2. PICK w \in W : t = SubSeq(l, Len(l) - w + 1, Len(l)) \o SubSeq(l, 1, Len(l) - w)
      BY Zenon, <2>1 DEF Turned
    <2>3. W \subseteq 0 .. Len(l)
      OBVIOUS
    <2> HIDE DEF W
    <2> QED BY <2>1, <2>2, <2>3
  <1> DEFINE n == Len(l)
             a == SubSeq(l, n - w + 1, n)
             b == SubSeq(l, 1, n - w)
             q == a \o b
  <1>2. n \in Nat /\ n - w \in 0 .. n /\ w \in 0 .. n /\ c \in 0 .. n /\ n <= LogCap
    OBVIOUS
  <1>3. a \in Seq(T) /\ Len(a) = w /\ b \in Seq(T) /\ Len(b) = n - w
    BY <1>2
  <1>4. m = SubSeq(q, 1, c)
    BY <1>1
  <1>5. q \in Seq(T) /\ Len(q) = n
    <2> HIDE DEF a, b, n
    <2> QED BY <1>2, <1>3
  <1> HIDE DEF q, n
  <1>6. SubSeq(q, 1, c) \in Seq(T) /\ Len(SubSeq(q, 1, c)) = c
    BY <1>2, <1>5
  <1> QED BY <1>2, <1>4, <1>6, Sizes

LEMMA WorkerType ==
  ASSUME TypeOK, NEW w \in Worker
  PROVE  /\ smp[w] \in Sample /\ NameOf[w] \in Name /\ samples[NameOf[w]] \in Series
         /\ pc[w] \in {"off", "waiting", "probing", "stamped", "added"}
         /\ next[w] \in 1 .. Interval /\ fired[w] \in BOOLEAN /\ left[w] \in 0 .. Timeout
  <1>1. samples[NameOf[w]] \in Series /\ NameOf[w] \in Name
    BY SeriesType
  <1> QED BY <1>1 DEF TypeOK

LEMMA InitType == Init => TypeOK
  <1> SUFFICES ASSUME Init PROVE TypeOK
    OBVIOUS
  <1> USE Sizes
  <1>1. <<>> \in Seq(Sample) /\ Len(<<>>) = 0
    OBVIOUS
  <1>2. /\ up = FALSE /\ samples = [n \in Name |-> <<>>] /\ ip = [n \in Name |-> NoAddr] /\ log = <<>>
        /\ pc = [w \in Worker |-> "off"] /\ smp = [w \in Worker |-> NoSample(w)] /\ addr \in [Worker -> Addr]
        /\ next = [w \in Worker |-> Interval] /\ fired = [w \in Worker |-> FALSE]
        /\ left = [w \in Worker |-> 0]
    BY DEF Init
  <1>3. up \in BOOLEAN /\ fired \in [Worker -> BOOLEAN]
    BY <1>2
  <1>4. smp \in [Worker -> Sample]
    BY <1>2, NoSampleType
  <1>5. samples \in [Name -> Seq(Sample)] /\ \A n \in Name : Len(samples[n]) <= RingCap
    BY <1>1, <1>2
  <1>6. next \in [Worker -> 1 .. Interval] /\ left \in [Worker -> 0 .. Timeout]
    BY <1>2
  <1> QED BY <1>1, <1>2, <1>3, <1>4, <1>5, <1>6 DEF TypeOK

LEMMA StartType ==
  ASSUME TypeOK, Start
  PROVE  TypeOK'
  <1> USE Sizes
  <1>1. /\ up' = TRUE /\ ip' \in [Name -> Addr \cup {NoAddr}] /\ samples' = [n \in Name |-> Replayed(n)]
        /\ pc' \in [Worker -> {"waiting", "off"}] /\ next' = [w \in Worker |-> Interval]
        /\ UNCHANGED <<log, smp, addr, fired, left>>
    BY DEF Start
  <1>2. samples' \in [Name -> Seq(Sample)] /\ \A n \in Name : Len(samples'[n]) <= RingCap
    <2>1. \A n \in Name : Replayed(n) \in Seq(Sample) /\ Len(Replayed(n)) <= RingCap
      BY ReplayedType DEF TypeOK
    <2> QED BY <1>1, <2>1
  <1>3. up' \in BOOLEAN /\ next' \in [Worker -> 1 .. Interval]
    BY <1>1
  <1>4. pc' \in [Worker -> {"off", "waiting", "probing", "stamped", "added"}]
    BY <1>1
  <1> QED BY <1>1, <1>2, <1>3, <1>4 DEF TypeOK

LEMMA StopType ==
  ASSUME TypeOK, Stop
  PROVE  TypeOK'
  <1> USE Sizes
  <1>1. /\ up' = FALSE /\ samples' = [n \in Name |-> <<>>] /\ ip' = [n \in Name |-> NoAddr]
        /\ pc' = [w \in Worker |-> "off"] /\ smp' = [w \in Worker |-> NoSample(w)]
        /\ fired' = [w \in Worker |-> FALSE] /\ left' = [w \in Worker |-> 0]
        /\ UNCHANGED <<addr, next>>
    BY DEF Stop
  <1>2. log' \in Seq(Sample) /\ Len(log') <= LogCap
    <2>1. log \in Seq(Sample) /\ Len(log) <= LogCap
      BY DEF TypeOK
    <2>2. log' = log \/ log' \in Left(log)
      BY DEF Stop
    <2> QED BY <2>1, <2>2, LeftIs
  <1>3. <<>> \in Seq(Sample) /\ Len(<<>>) = 0
    OBVIOUS
  <1>4. samples' \in [Name -> Seq(Sample)] /\ \A n \in Name : Len(samples'[n]) <= RingCap
    BY <1>1, <1>3
  <1>5. smp' \in [Worker -> Sample]
    BY <1>1, NoSampleType
  <1>6. left' \in [Worker -> 0 .. Timeout]
    BY <1>1
  <1>8. up' \in BOOLEAN
    BY <1>1
  <1>7. fired' \in [Worker -> BOOLEAN]
    BY <1>1
  <1> QED BY <1>1, <1>2, <1>4, <1>5, <1>6, <1>7, <1>8 DEF TypeOK

LEMMA TickType ==
  ASSUME TypeOK, Tick
  PROVE  TypeOK'
  <1> USE Sizes
  <1>1. /\ samples' = [n \in Name |-> Aged(samples[n])] /\ log' = Aged(log)
        /\ smp' = [w \in Worker |-> IF pc[w] \in {"stamped", "added"} THEN Older(smp[w]) ELSE smp[w]]
        /\ next' = [w \in Worker |-> IF next[w] = 1 THEN Interval ELSE next[w] - 1]
        /\ fired' = [w \in Worker |-> fired[w] \/ (pc[w] # "off" /\ next[w] = 1)]
        /\ left' = [w \in Worker |-> IF pc[w] = "probing" THEN left[w] - 1 ELSE 0]
        /\ UNCHANGED <<up, ip, pc, addr>>
        /\ \A w \in Worker : pc[w] = "probing" => left[w] > 0
    BY TickIs
  <1>2. samples' \in [Name -> Seq(Sample)] /\ \A n \in Name : Len(samples'[n]) <= RingCap
    <2>1. \A n \in Name : Aged(samples[n]) \in Seq(Sample) /\ Len(Aged(samples[n])) = Len(samples[n])
      BY AgedIs DEF TypeOK
    <2> QED BY <1>1, <2>1 DEF TypeOK
  <1>3. log' \in Seq(Sample) /\ Len(log') <= LogCap
    BY <1>1, AgedIs DEF TypeOK
  <1>4. smp' \in [Worker -> Sample]
    BY <1>1, OlderIs DEF TypeOK
  <1>5. next' \in [Worker -> 1 .. Interval] /\ left' \in [Worker -> 0 .. Timeout]
    <2>1. \A w \in Worker : next[w] \in 1 .. Interval /\ left[w] \in 0 .. Timeout
      BY DEF TypeOK
    <2>2. \A w \in Worker : (IF next[w] = 1 THEN Interval ELSE next[w] - 1) \in 1 .. Interval
      BY <2>1
    <2>3. \A w \in Worker : (IF pc[w] = "probing" THEN left[w] - 1 ELSE 0) \in 0 .. Timeout
      BY <1>1, <2>1
    <2> QED BY <1>1, <2>2, <2>3
  <1>6. fired' \in [Worker -> BOOLEAN]
    BY <1>1
  <1> QED BY <1>1, <1>2, <1>3, <1>4, <1>5, <1>6 DEF TypeOK

LEMMA WorkType ==
  ASSUME TypeOK, NEW w \in Worker, Work(w)
  PROVE  TypeOK'
  <1> USE Sizes
  <1>1. samples' \in [Name -> Series] => samples' \in [Name -> Seq(Sample)] /\ \A n \in Name : Len(samples'[n]) <= RingCap
    BY DEF Series
  <1>2. CASE Probe(w)
    <2>1. addr' \in [Worker -> Addr]
      BY <1>2 DEF Probe, TypeOK
    <2>2. fired' \in [Worker -> BOOLEAN] /\ left' \in [Worker -> 0 .. Timeout]
      BY <1>2 DEF Probe, TypeOK
    <2>3. pc' \in [Worker -> {"off", "waiting", "probing", "stamped", "added"}]
      BY <1>2 DEF Probe, TypeOK
    <2> QED BY <1>2, <2>1, <2>2, <2>3 DEF Probe, TypeOK
  <1>3. CASE Unresolved(w)
    <2>1. samples' \in [Name -> Series]
      BY <1>3, AddSeries, TakenType, WorkerType DEF Unresolved
    <2>2. fired' \in [Worker -> BOOLEAN]
      BY <1>3 DEF Unresolved, TypeOK
    <2> QED BY <1>1, <1>3, <2>1, <2>2 DEF Unresolved, TypeOK
  <1>4. CASE Sampled(w)
    <2>1. smp' \in [Worker -> Sample]
      <3>1. PICK r \in Rtt \cup {NoRtt}, k \in BOOLEAN : smp' = [smp EXCEPT ![w] = Taken(w, r, k)]
        BY <1>4 DEF Sampled, Outcomes, Kept
      <3>2. Taken(w, r, k) \in Sample
        BY <3>1, TakenType
      <3> QED BY <3>1, <3>2 DEF TypeOK
    <2>2. left' \in [Worker -> 0 .. Timeout]
      BY <1>4 DEF Sampled, TypeOK
    <2>3. pc' \in [Worker -> {"off", "waiting", "probing", "stamped", "added"}]
      BY <1>4 DEF Sampled, TypeOK
    <2> QED BY <1>4, <2>1, <2>2, <2>3 DEF Sampled, TypeOK
  <1>5. CASE AddPing(w)
    <2>1. samples' \in [Name -> Series]
      BY <1>5, AddSeries, WorkerType DEF AddPing
    <2>2. pc' \in [Worker -> {"off", "waiting", "probing", "stamped", "added"}]
      BY <1>5 DEF AddPing, TypeOK
    <2> QED BY <1>1, <1>5, <2>1, <2>2 DEF AddPing, TypeOK
  <1>6. CASE Persist(w)
    <2>1. log' \in Seq(Sample) /\ Len(log') <= LogCap
      <3>1. smp[w] \in Sample /\ log \in Seq(Sample) /\ Len(log) <= LogCap
        BY WorkerType DEF TypeOK
      <3>2. CASE ~smp[w].kept
        BY <1>6, <3>1, <3>2 DEF Persist
      <3>3. CASE smp[w].kept
        BY <1>6, <3>1, <3>3, LoggedIs DEF Persist
      <3> QED BY <3>2, <3>3
    <2>2. smp' \in [Worker -> Sample]
      BY <1>6, NoSampleType DEF Persist, TypeOK
    <2>3. pc' \in [Worker -> {"off", "waiting", "probing", "stamped", "added"}]
      BY <1>6 DEF Persist, TypeOK
    <2> QED BY <1>6, <2>1, <2>2, <2>3 DEF Persist, TypeOK
  <1> QED BY <1>2, <1>3, <1>4, <1>5, <1>6 DEF Work

LEMMA NextType == TypeOK /\ [Next]_vars => TypeOK'
  <1> SUFFICES ASSUME TypeOK, [Next]_vars PROVE TypeOK'
    OBVIOUS
  <1>2. CASE UNCHANGED vars
    BY <1>2 DEF vars, TypeOK, worker
  <1> QED BY <1>2, StartType, StopType, TickType, WorkType DEF Next

\* Every variable keeps its type; no series is longer than its ring and the log never
\* longer than the file, whatever a kill leaves of it (store.go:124-170).
THEOREM TypeCorrect == Spec => []TypeOK
  BY InitType, NextType, PTL DEF Spec

(***************************************************************************)
(* The order of the samples.                                               *)
(***************************************************************************)

LogFalls == \A i, j \in DOMAIN log : i <= j /\ log[i].by = log[j].by => log[j].age <= log[i].age

\* What a worker has taken is the same, and so is what there is of its name.
LEMMA NewestSame ==
  ASSUME NEW w \in Worker, Newest(w), pc'[w] = pc[w], smp'[w] = smp[w],
         samples'[NameOf[w]] = samples[NameOf[w]], log' = log
  PROVE  Newest(w)'
  BY DEF Newest

LEMMA OrderStart ==
  ASSUME OwnNames, OrderInv, Start
  PROVE  OrderInv'
  <1>1. /\ samples' = [n \in Name |-> Replayed(n)] /\ log' = log /\ smp' = smp
        /\ pc' \in [Worker -> {"waiting", "off"}]
    BY DEF Start
  <1>2. TypeOK' /\ log \in Seq(Sample)
    BY StartType DEF OrderInv, TypeOK
  <1>3. ASSUME NEW n \in Name PROVE Falls(samples'[n])
    <2>1. \A i, j \in DOMAIN log : i <= j /\ NameOf[log[i].by] = n /\ NameOf[log[j].by] = n => log[j].age <= log[i].age
      <3> SUFFICES ASSUME NEW i \in DOMAIN log, NEW j \in DOMAIN log, i <= j,
                          NameOf[log[i].by] = n, NameOf[log[j].by] = n
                   PROVE  log[j].age <= log[i].age
        OBVIOUS
      <3>1. log[i] \in Sample /\ log[j] \in Sample
        BY <1>2
      <3>2. log[i].by \in Worker /\ log[j].by \in Worker
        BY <3>1, SampleType
      <3>3. log[i].by = log[j].by
        BY <3>2 DEF OwnNames
      <3> QED BY <3>3 DEF OrderInv
    <2>2. Falls(Replayed(n))
      BY <1>2, <2>1, ReplayedFalls
    <2> QED BY <1>1, <2>2
  <1>4. ASSUME NEW w \in Worker PROVE smp'[w].by = w /\ Newest(w)'
    BY <1>1 DEF OrderInv, Newest
  <1>5. LogFalls'
    BY <1>1 DEF OrderInv, LogFalls
  <1> QED BY <1>2, <1>3, <1>4, <1>5 DEF OrderInv, LogFalls, Falls

LEMMA OrderStop ==
  ASSUME Kills = FALSE, OrderInv, Stop
  PROVE  OrderInv'
  <1>1. /\ samples' = [n \in Name |-> <<>>]
        /\ pc' = [w \in Worker |-> "off"] /\ smp' = [w \in Worker |-> NoSample(w)]
    BY DEF Stop
  <1>2. TypeOK' /\ log \in Seq(Sample) /\ Len(log) <= LogCap /\ Len(log) \in Nat
    BY StopType DEF OrderInv, TypeOK
  <1>3. log' = log
    BY DEF Stop
  <1>4. ASSUME NEW n \in Name PROVE Falls(samples'[n])
    BY <1>1 DEF Falls
  <1>5. ASSUME NEW w \in Worker PROVE smp'[w].by = w /\ Newest(w)'
    BY <1>1, NoSampleType DEF Newest
  <1>6. LogFalls'
    BY <1>3 DEF OrderInv, LogFalls
  <1> QED BY <1>2, <1>4, <1>5, <1>6 DEF OrderInv, LogFalls, Falls

LEMMA OrderTick ==
  ASSUME OrderInv, Tick
  PROVE  OrderInv'
  <1>1. /\ samples' = [n \in Name |-> Aged(samples[n])] /\ log' = Aged(log) /\ pc' = pc
        /\ smp' = [w \in Worker |-> IF pc[w] \in {"stamped", "added"} THEN Older(smp[w]) ELSE smp[w]]
    BY TickIs
  <1>2. TypeOK /\ TypeOK'
    BY TickType DEF OrderInv
  <1>3. DOMAIN log' = DOMAIN log /\ \A i \in DOMAIN log : log'[i] = Older(log[i]) /\ log[i] \in Sample
    BY <1>1, <1>2, AgedIs DEF TypeOK
  <1>4. ASSUME NEW n \in Name
        PROVE  /\ DOMAIN samples'[n] = DOMAIN samples[n]
               /\ \A i \in DOMAIN samples[n] : samples'[n][i] = Older(samples[n][i]) /\ samples[n][i] \in Sample
    <2>1. samples[n] \in Seq(Sample) /\ samples'[n] = Aged(samples[n])
      BY <1>1, <1>2 DEF TypeOK
    <2> QED BY <2>1, AgedIs
  <1>5. ASSUME NEW n \in Name PROVE Falls(samples'[n])
    <2> SUFFICES ASSUME NEW i \in DOMAIN samples[n], NEW j \in DOMAIN samples[n], i <= j
                 PROVE  samples'[n][j].age <= samples'[n][i].age
      BY <1>4 DEF Falls
    <2>1. samples[n][j].age <= samples[n][i].age
      BY DEF OrderInv, Falls
    <2> QED BY <1>4, <2>1, OlderKeepsOrder
  <1>6. LogFalls'
    <2> SUFFICES ASSUME NEW i \in DOMAIN log, NEW j \in DOMAIN log, i <= j, log'[i].by = log'[j].by
                 PROVE  log'[j].age <= log'[i].age
      BY <1>3 DEF LogFalls
    <2>1. log[i].by = log[j].by
      BY <1>3, OlderIs
    <2>2. log[j].age <= log[i].age
      BY <2>1 DEF OrderInv
    <2> QED BY <1>3, <2>2, OlderKeepsOrder
  <1>7. ASSUME NEW w \in Worker PROVE smp'[w].by = w /\ Newest(w)'
    <2>1. smp[w] \in Sample /\ NameOf[w] \in Name /\ smp[w].by = w /\ Newest(w)
      BY <1>2, WorkerType DEF OrderInv
    <2>2. smp'[w].by = w
      BY <1>1, <2>1, OlderIs
    <2>3. ASSUME pc[w] \in {"stamped", "added"}
          PROVE  /\ \A i \in DOMAIN samples'[NameOf[w]] : smp'[w].age <= samples'[NameOf[w]][i].age
                 /\ \A i \in DOMAIN log' : log'[i].by = w => smp'[w].age <= log'[i].age
      <3>1. smp'[w] = Older(smp[w])
        BY <1>1, <2>3
      <3>2. ASSUME NEW i \in DOMAIN samples[NameOf[w]]
            PROVE  smp'[w].age <= samples'[NameOf[w]][i].age
        <4>1. smp[w].age <= samples[NameOf[w]][i].age
          BY <2>1, <2>3 DEF Newest
        <4> QED BY <1>4, <2>1, <3>1, <4>1, OlderKeepsOrder
      <3>3. ASSUME NEW i \in DOMAIN log, log'[i].by = w
            PROVE  smp'[w].age <= log'[i].age
        <4>1. log[i].by = w
          BY <1>3, <3>3, OlderIs
        <4>2. smp[w].age <= log[i].age
          BY <2>1, <2>3, <4>1 DEF Newest
        <4> QED BY <1>3, <2>1, <3>1, <4>2, OlderKeepsOrder
      <3> QED BY <1>3, <1>4, <2>1, <3>2, <3>3
    <2> QED BY <1>1, <2>2, <2>3 DEF Newest
  <1> QED BY <1>2, <1>5, <1>6, <1>7 DEF OrderInv, LogFalls, Falls

\* A record more, younger than those of its worker, keeps the log in order.
LEMMA OrderLogged ==
  ASSUME log \in Seq(Sample), Len(log) <= LogCap, LogFalls, NEW x \in Sample,
         \A i \in DOMAIN log : log[i].by = x.by => x.age <= log[i].age,
         log' = IF Len(Logged(x)) > LogCap THEN Tail(Logged(x)) ELSE Logged(x)
  PROVE  LogFalls' /\ \A i \in DOMAIN log' : log'[i].by # x.by => \E k \in DOMAIN log : log'[i] = log[k]
  <1>1. PICK d \in {0, 1} :
          /\ log' \in Seq(Sample) /\ Len(log') <= LogCap /\ Len(log') = Len(log) + 1 - d
          /\ log'[Len(log')] = x
          /\ \A i \in DOMAIN log' : i # Len(log') => i + d \in DOMAIN log /\ log'[i] = log[i + d]
    BY LoggedIs
  <1> DEFINE m == Len(log')
  <1>2. m \in Nat /\ DOMAIN log' = 1 .. m /\ x.age <= x.age
    BY <1>1, SampleType
  <1> HIDE DEF m
  <1>3. ASSUME NEW i \in DOMAIN log'
        PROVE  (i = m /\ log'[i] = x) \/ (i # m /\ i + d \in DOMAIN log /\ log'[i] = log[i + d])
    BY <1>1 DEF m
  <1>4. LogFalls'
    <2> SUFFICES ASSUME NEW i \in DOMAIN log', NEW j \in DOMAIN log', i <= j, log'[i].by = log'[j].by
                 PROVE  log'[j].age <= log'[i].age
      BY DEF LogFalls
    <2>1. CASE j = m /\ log'[j] = x
      BY <1>2, <1>3, <2>1
    <2>2. CASE j # m /\ j + d \in DOMAIN log /\ log'[j] = log[j + d]
      <3>1. i # m /\ i + d <= j + d
        BY <1>1, <1>2, <2>2
      <3> QED BY <1>3, <2>2, <3>1 DEF LogFalls
    <2> QED BY <1>3, <2>1, <2>2
  <1> QED BY <1>3, <1>4

LEMMA OrderWork ==
  ASSUME OwnNames, OrderInv, NEW w \in Worker, Work(w)
  PROVE  OrderInv'
  <1> DEFINE n == NameOf[w]
             s == samples[n]
  <1>1. TypeOK /\ TypeOK'
    BY WorkType DEF OrderInv
  <1>2. /\ smp[w] \in Sample /\ n \in Name /\ s \in Seq(Sample) /\ Len(s) <= RingCap /\ log \in Seq(Sample)
        /\ smp[w].by = w /\ Newest(w) /\ Falls(s) /\ LogFalls
    BY <1>1, WorkerType DEF OrderInv, Series, TypeOK, LogFalls
  <1>3. \A v \in Worker \ {w} : NameOf[v] \in Name \ {n} /\ smp[v].by = v /\ Newest(v)
    BY <1>1, WorkerType DEF OwnNames, OrderInv
  <1>4. \A i \in DOMAIN s : s[i] \in Sample /\ s[i].age \in Nat
    BY <1>2, SampleType
  <1>5. \A i \in DOMAIN log : log[i] \in Sample /\ log[i].age \in Nat
    BY <1>2, SampleType
  <1> HIDE DEF s
  <1>6. CASE Probe(w)
    <2>1. /\ pc' = [pc EXCEPT ![w] = "probing"] /\ UNCHANGED <<samples, log, smp>>
      BY <1>6 DEF Probe
    <2>2. pc'[w] = "probing" /\ \A v \in Worker \ {w} : pc'[v] = pc[v]
      BY <1>1, <2>1 DEF TypeOK
    <2>3. \A v \in Worker : Newest(v)'
      <3>1. Newest(w)'
        BY <2>2 DEF Newest
      <3> QED BY <1>3, <2>1, <2>2, <3>1, NewestSame
    <2>4. (\A k \in Name : Falls(samples'[k])) /\ LogFalls' /\ \A v \in Worker : smp'[v].by = v
      BY <1>2, <2>1 DEF OrderInv, LogFalls
    <2> QED BY <1>1, <2>3, <2>4 DEF OrderInv, LogFalls, Falls
  <1>7. CASE Unresolved(w)
    <2> DEFINE x == Taken(w, NoRtt, FALSE)
    <2>1. samples' = [samples EXCEPT ![n] = Added(@, x)] /\ UNCHANGED <<pc, log, smp>> /\ pc[w] = "waiting"
      BY <1>7 DEF Unresolved
    <2>2. x \in Sample /\ x.age = 0
      BY LostType
    <2> HIDE DEF x
    <2>3. samples'[n] = Added(s, x) /\ \A k \in Name \ {n} : samples'[k] = samples[k]
      BY <1>1, <1>2, <2>1, <2>2, AddSeries DEF s
    <2>4. Falls(Added(s, x))
      <3>1. \A i \in DOMAIN s : x.age <= s[i].age
        BY <1>4, <2>2
      <3> QED BY <1>2, <2>2, <3>1, AddedFalls
    <2>5. \A v \in Worker : Newest(v)'
      <3>1. Newest(w)'
        BY <2>1 DEF Newest
      <3> QED BY <1>3, <2>1, <2>3, <3>1, NewestSame
    <2>6. (\A k \in Name : Falls(samples'[k])) /\ LogFalls' /\ \A v \in Worker : smp'[v].by = v
      BY <1>2, <2>1, <2>3, <2>4 DEF OrderInv, LogFalls
    <2> QED BY <1>1, <2>5, <2>6 DEF OrderInv, LogFalls, Falls
  <1>8. CASE Sampled(w)
    <2>1. PICK r \in Rtt \cup {NoRtt}, b \in BOOLEAN : smp' = [smp EXCEPT ![w] = Taken(w, r, b)]
      BY <1>8 DEF Sampled, Outcomes, Kept
    <2>2. pc' = [pc EXCEPT ![w] = "stamped"] /\ UNCHANGED <<samples, log>>
      BY <1>8 DEF Sampled
    <2>3. smp'[w] = Taken(w, r, b) /\ \A v \in Worker \ {w} : pc'[v] = pc[v] /\ smp'[v] = smp[v]
      BY <1>1, <2>1, <2>2 DEF TypeOK
    <2>4. smp'[w].age = 0 /\ smp'[w].by = w
      BY <2>3, TakenType
    <2>5. \A v \in Worker : Newest(v)'
      <3>1. Newest(w)'
        BY <1>4, <1>5, <2>2, <2>4 DEF Newest, s
      <3> QED BY <1>3, <2>2, <2>3, <3>1, NewestSame
    <2>6. (\A k \in Name : Falls(samples'[k])) /\ LogFalls' /\ \A v \in Worker : smp'[v].by = v
      BY <1>2, <2>2, <2>3, <2>4 DEF OrderInv, LogFalls
    <2> QED BY <1>1, <2>5, <2>6 DEF OrderInv, LogFalls, Falls
  <1>9. CASE AddPing(w)
    <2> DEFINE x == smp[w]
    <2>1. /\ samples' = [samples EXCEPT ![n] = Added(@, x)] /\ UNCHANGED <<log, smp>> /\ pc[w] = "stamped"
          /\ pc' = [pc EXCEPT ![w] = "added"]
      BY <1>9 DEF AddPing
    <2>2. x \in Sample /\ x.age <= x.age /\ (\A i \in DOMAIN s : x.age <= s[i].age)
          /\ (\A i \in DOMAIN log : log[i].by = w => x.age <= log[i].age)
      BY <1>2, <2>1, SampleType DEF Newest, s
    <2> HIDE DEF x
    <2>3. samples'[n] = Added(s, x) /\ \A k \in Name \ {n} : samples'[k] = samples[k]
      BY <1>1, <1>2, <2>1, <2>2, AddSeries DEF s
    <2>4. Falls(Added(s, x))
      BY <1>2, <2>2, AddedFalls
    <2>5. \A v \in Worker : Newest(v)'
      <3>1. smp'[w] = x
        BY <2>1 DEF x
      <3>2. \A i \in DOMAIN Added(s, x) : x.age <= Added(s, x)[i].age
        <4> SUFFICES ASSUME NEW i \in DOMAIN Added(s, x) PROVE x.age <= Added(s, x)[i].age
          OBVIOUS
        <4>1. Added(s, x)[i] = x \/ \E k \in DOMAIN s : Added(s, x)[i] = s[k]
          BY <1>2, <2>2, AddedElem
        <4> QED BY <2>2, <4>1
      <3>3. Newest(w)'
        BY <2>1, <2>2, <2>3, <3>1, <3>2 DEF Newest
      <3>4. \A v \in Worker \ {w} : pc'[v] = pc[v]
        BY <1>1, <2>1 DEF TypeOK
      <3> QED BY <1>3, <2>1, <2>3, <3>3, <3>4, NewestSame
    <2>6. (\A k \in Name : Falls(samples'[k])) /\ LogFalls' /\ \A v \in Worker : smp'[v].by = v
      BY <1>2, <2>1, <2>3, <2>4 DEF OrderInv, LogFalls
    <2> QED BY <1>1, <2>5, <2>6 DEF OrderInv, LogFalls, Falls
  <1>10. CASE Persist(w)
    <2> DEFINE x == smp[w]
    <2>1. /\ log' = IF ~x.kept THEN log
                    ELSE IF Len(Logged(x)) > LogCap THEN Tail(Logged(x)) ELSE Logged(x)
          /\ pc[w] = "added" /\ pc' = [pc EXCEPT ![w] = "waiting"] /\ samples' = samples
          /\ smp' = [smp EXCEPT ![w] = NoSample(w)]
      BY <1>10 DEF Persist
    <2>2. x \in Sample /\ x.by = w /\ x.age <= x.age /\ \A i \in DOMAIN log : log[i].by = w => x.age <= log[i].age
      BY <1>2, <2>1, SampleType DEF Newest
    <2> HIDE DEF x
    <2>6. LogFalls' /\ \A i \in DOMAIN log' : log'[i].by # w => \E k \in DOMAIN log : log'[i] = log[k]
      <3>1. log \in Seq(Sample) /\ Len(log) <= LogCap /\ LogFalls
        BY <1>1, <1>2 DEF TypeOK, LogFalls
      <3>2. CASE ~x.kept
        <4>1. log' = log
          BY <2>1, <3>2
        <4> QED BY <3>1, <4>1 DEF LogFalls
      <3>3. CASE x.kept
        BY <2>1, <2>2, <3>1, <3>3, OrderLogged
      <3> QED BY <3>2, <3>3
    <2>7. smp'[w] = NoSample(w) /\ pc'[w] = "waiting" /\ \A v \in Worker \ {w} : pc'[v] = pc[v] /\ smp'[v] = smp[v]
      BY <1>1, <2>1 DEF TypeOK
    <2>8. \A v \in Worker : smp'[v].by = v /\ Newest(v)'
      <3>1. smp'[w].by = w /\ Newest(w)'
        BY <2>7, NoSampleType DEF Newest
      <3>2. ASSUME NEW v \in Worker \ {w} PROVE smp'[v].by = v /\ Newest(v)'
        <4>1. \A i \in DOMAIN log' : log'[i].by = v => \E k \in DOMAIN log : log'[i] = log[k]
          BY <2>6
        <4>2. smp'[v] = smp[v] /\ pc'[v] = pc[v] /\ smp[v].by = v /\ Newest(v) /\ samples' = samples
          BY <1>3, <2>1, <2>7
        <4>3. ASSUME pc[v] \in {"stamped", "added"}, NEW i \in DOMAIN log', log'[i].by = v
              PROVE  smp[v].age <= log'[i].age
          <5>1. PICK k \in DOMAIN log : log'[i] = log[k]
            BY <4>1, <4>3
          <5> QED BY <4>2, <4>3, <5>1 DEF Newest
        <4> QED BY <4>2, <4>3 DEF Newest
      <3> QED BY <3>1, <3>2
    <2>9. \A k \in Name : Falls(samples'[k])
      BY <2>1 DEF OrderInv
    <2> QED BY <1>1, <2>6, <2>8, <2>9 DEF OrderInv, LogFalls, Falls
  <1> QED BY <1>6, <1>7, <1>8, <1>9, <1>10 DEF Work

LEMMA OrderNext ==
  ASSUME OwnNames, Kills = FALSE
  PROVE  OrderInv /\ [Next]_vars => OrderInv'
  <1> SUFFICES ASSUME OrderInv, [Next]_vars PROVE OrderInv'
    OBVIOUS
  <1>1. CASE UNCHANGED vars
    <2>1. UNCHANGED <<samples, log, pc, smp>>
      BY <1>1 DEF vars, worker
    <2>2. TypeOK'
      BY NextType DEF OrderInv
    <2> QED BY <2>1, <2>2 DEF OrderInv, Falls, Newest
  <1> QED BY <1>1, OrderStart, OrderStop, OrderTick, OrderWork DEF Next

LEMMA OrderInit == Init => OrderInv
  <1> SUFFICES ASSUME Init PROVE OrderInv
    OBVIOUS
  <1>1. TypeOK
    BY InitType
  <1>2. /\ samples = [n \in Name |-> <<>>] /\ log = <<>> /\ pc = [w \in Worker |-> "off"]
        /\ smp = [w \in Worker |-> NoSample(w)]
    BY DEF Init
  <1>3. \A n \in Name : Falls(samples[n])
    BY <1>2 DEF Falls
  <1>4. \A w \in Worker : smp[w].by = w /\ Newest(w)
    BY <1>2, NoSampleType DEF Newest
  <1> QED BY <1>1, <1>2, <1>3, <1>4 DEF OrderInv

\* Where no two targets share a name and the process is not killed: the walk from the
\* newest sample that stops at the first old one counts every retained sample of the
\* window, replayed ones included, however late workers add what they have stamped
\* (store.go:273-291).
THEOREM WindowIsWhole == ASSUME OwnNames, Kills = FALSE PROVE Spec => []RollupIsWindow
  <1>1. OrderInv => RollupIsWindow
    <2> SUFFICES ASSUME OrderInv, NEW n \in Name
                 PROVE  WindowOf(samples[n]) = {i \in DOMAIN samples[n] : samples[n][i].age <= Window}
      BY DEF RollupIsWindow
    <2> DEFINE s == samples[n]
    <2>1. s \in Seq(Sample) /\ Falls(s)
      BY DEF OrderInv, TypeOK
    <2> HIDE DEF s
    <2>2. DOMAIN s = 1 .. Len(s) /\ Len(s) \in Nat /\ \A i \in DOMAIN s : s[i].age \in Nat
      BY <2>1, SampleType
    <2>3. ASSUME NEW i \in DOMAIN s, s[i].age <= Window
          PROVE  \A j \in i .. Len(s) : s[j].age <= Window
      <3> SUFFICES ASSUME NEW j \in i .. Len(s) PROVE s[j].age <= Window
        OBVIOUS
      <3>1. j \in DOMAIN s /\ i <= j
        BY <2>2
      <3>2. s[j].age <= s[i].age
        BY <2>1, <3>1 DEF Falls
      <3> QED BY <2>2, <2>3, <3>1, <3>2, Sizes
    <2>4. \A i \in DOMAIN s : i \in i .. Len(s)
      BY <2>2
    <2>5. WindowOf(s) = {i \in DOMAIN s : s[i].age <= Window}
      BY <2>3, <2>4 DEF WindowOf, Recent
    <2> QED BY <2>5 DEF s
  <1>2. OrderInv /\ [Next]_vars => OrderInv'
    BY OrderNext
  <1> QED BY <1>1, <1>2, OrderInit, PTL DEF Spec

(***************************************************************************)
(* The time between two samples.                                           *)
(***************************************************************************)

\* The newest sample of a series that has none yet, or is one longer, or is older.
LEMMA LastAdded ==
  ASSUME NEW s \in Seq(Sample), Len(s) <= RingCap, NEW x \in Sample
  PROVE  Added(s, x) # <<>> /\ LastOf(Added(s, x)) = x
  <1> DEFINE t == Added(s, x)
  <1>1. Len(t) = Len(s) + 1 - Drop(s) /\ t[Len(s) + 1 - Drop(s)] = x /\ Len(t) \in 1 .. RingCap
    BY AddedIs
  <1> HIDE DEF t
  <1>2. Len(t) # 0 /\ t[Len(t)] = x
    BY <1>1, Sizes
  <1>3. t # <<>>
    BY <1>2
  <1> QED BY <1>2, <1>3 DEF LastOf, t

LEMMA LastType ==
  ASSUME NEW s \in Seq(Sample), s # <<>>
  PROVE  Len(s) \in DOMAIN s /\ LastOf(s) \in Sample /\ LastOf(s).age \in Nat /\ LastOf(s).age <= Old
  <1>1. Len(s) \in DOMAIN s /\ s[Len(s)] \in Sample
    OBVIOUS
  <1> QED BY <1>1, SampleType DEF LastOf

LEMMA LastAged ==
  ASSUME NEW s \in Seq(Sample), Aged(s) # <<>>
  PROVE  s # <<>> /\ LastOf(Aged(s)).live = LastOf(s).live /\ LastOf(Aged(s)).age \in Nat
         /\ LastOf(Aged(s)).age <= LastOf(s).age + 1
  <1>1. /\ Aged(s) \in Seq(Sample) /\ Len(Aged(s)) = Len(s)
        /\ \A i \in DOMAIN s : Aged(s)[i] = Older(s[i]) /\ s[i] \in Sample
    BY AgedIs
  <1>2. s # <<>>
    BY <1>1
  <1> DEFINE x == LastOf(s)
             y == LastOf(Aged(s))
  <1>3. Len(s) \in DOMAIN s /\ x \in Sample /\ x.age \in Nat /\ x.age <= Old
    BY <1>2, LastType
  <1>4. y = Older(x)
    BY <1>1, <1>3 DEF LastOf
  <1> HIDE DEF x, y
  <1>5. y.live = x.live /\ y.age = IF x.age = Old THEN Old ELSE x.age + 1
    BY <1>3, <1>4, OlderIs
  <1> QED BY <1>2, <1>3, <1>5, Sizes DEF x, y

\* A worker for whose name there is a new sample is in time.
LEMMA InTimeAfterSample ==
  ASSUME TypeOK', NEW w \in Worker, LastOf(samples'[NameOf[w]]).age = 0
  PROVE  InTime(w)'
  <1> USE Sizes
  <1>1. next'[w] \in 1 .. Interval /\ left'[w] \in 0 .. Timeout
    BY DEF TypeOK
  <1> QED BY <1>1 DEF InTime

\* A worker whose state and series are the same stays in time.
LEMMA InTimeSame ==
  ASSUME NEW w \in Worker, InTime(w), pc'[w] = pc[w], fired'[w] = fired[w], next'[w] = next[w],
         left'[w] = left[w], samples'[NameOf[w]] = samples[NameOf[w]]
  PROVE  InTime(w)'
  BY DEF InTime

LEMMA TimeInit == Init => TimeInv
  <1> SUFFICES ASSUME Init PROVE TimeInv
    OBVIOUS
  <1>1. TypeOK
    BY InitType
  <1>2. samples = [n \in Name |-> <<>>] /\ pc = [w \in Worker |-> "off"] /\ up = FALSE
    BY DEF Init
  <1>3. \A w \in Worker : samples[NameOf[w]] = <<>>
    BY <1>1, <1>2, WorkerType
  <1>4. \A w \in Worker : InTime(w)
    BY <1>3 DEF InTime
  <1> QED BY <1>1, <1>2, <1>4 DEF TimeInv, Alive

LEMMA TimeStart ==
  ASSUME TimeInv, Start
  PROVE  TimeInv'
  <1>1. samples' = [n \in Name |-> Replayed(n)] /\ pc' \in [Worker -> {"waiting", "off"}] /\ up' = TRUE
    BY DEF Start
  <1>2. TypeOK' /\ log \in Seq(Sample) /\ TypeOK
    BY StartType DEF TimeInv, TypeOK
  <1>3. ASSUME NEW n \in Name PROVE samples'[n] # <<>> => ~LastOf(samples'[n]).live
    <2> DEFINE s == Replayed(n)
    <2>1. s \in Seq(Sample) /\ \A i \in DOMAIN s : ~s[i].live
      BY <1>2, ReplayedType
    <2>2. samples'[n] = s
      BY <1>1
    <2> HIDE DEF s
    <2>3. s # <<>> => ~LastOf(s).live
      BY <2>1, LastType DEF LastOf
    <2> QED BY <2>2, <2>3
  <1>4. \A w \in Worker : InTime(w)' /\ pc'[w] # "stamped"
    <2> SUFFICES ASSUME NEW w \in Worker PROVE InTime(w)' /\ pc'[w] # "stamped"
      OBVIOUS
    <2>1. NameOf[w] \in Name
      BY <1>2, WorkerType
    <2> QED BY <1>1, <1>3, <2>1 DEF InTime
  <1>5. \A n \in Name : Alive(n)'
    BY <1>3 DEF Alive
  <1> QED BY <1>1, <1>2, <1>4, <1>5 DEF TimeInv

LEMMA TimeStop ==
  ASSUME TimeInv, Stop
  PROVE  TimeInv'
  <1>1. samples' = [n \in Name |-> <<>>] /\ pc' = [w \in Worker |-> "off"] /\ up' = FALSE
    BY DEF Stop
  <1>2. TypeOK' /\ TypeOK
    BY StopType DEF TimeInv
  <1>3. \A w \in Worker : samples'[NameOf[w]] = <<>>
    BY <1>1, <1>2, WorkerType
  <1>4. \A w \in Worker : InTime(w)'
    BY <1>3 DEF InTime
  <1> QED BY <1>1, <1>2, <1>4 DEF TimeInv, Alive

LEMMA TimeTick ==
  ASSUME Prompt = TRUE, TimeInv, Tick
  PROVE  TimeInv'
  <1> USE Sizes
  <1>1. /\ samples' = [n \in Name |-> Aged(samples[n])]
        /\ next' = [w \in Worker |-> IF next[w] = 1 THEN Interval ELSE next[w] - 1]
        /\ fired' = [w \in Worker |-> fired[w] \/ (pc[w] # "off" /\ next[w] = 1)]
        /\ left' = [w \in Worker |-> IF pc[w] = "probing" THEN left[w] - 1 ELSE 0]
        /\ UNCHANGED <<up, pc>>
        /\ \A w \in Worker : pc[w] = "probing" => left[w] > 0
        /\ \A w \in Worker : pc[w] \in {"off", "probing"} \/ (pc[w] = "waiting" /\ ~fired[w])
    BY TickIs
  <1>2. TypeOK /\ TypeOK'
    BY TickType DEF TimeInv
  <1>3. ASSUME NEW w \in Worker PROVE InTime(w)'
    <2> DEFINE s == samples[NameOf[w]]
               t == Aged(s)
               a == LastOf(s).age
               b == LastOf(t).age
    <2>1. s \in Seq(Sample) /\ samples'[NameOf[w]] = t /\ next[w] \in 1 .. Interval /\ left[w] \in 0 .. Timeout
      BY <1>1, <1>2, WorkerType DEF Series
    <2> SUFFICES ASSUME t # <<>>, LastOf(t).live, pc[w] # "off"
                 PROVE  /\ b <= Interval + Timeout
                        /\ pc[w] = "waiting" => b <= Interval
                        /\ pc[w] = "waiting" /\ ~fired'[w] => b + next'[w] <= Interval
                        /\ pc[w] = "probing" => b + left'[w] <= Interval + Timeout
                        /\ pc[w] = "added" => b = 0
      BY <1>1, <2>1 DEF InTime
    <2>2. s # <<>> /\ LastOf(s).live /\ a \in Nat /\ b \in Nat /\ b <= a + 1
      BY <2>1, LastAged, LastType
    <2>3. /\ a <= Interval + Timeout
          /\ pc[w] = "waiting" /\ ~fired[w] => a + next[w] <= Interval
          /\ pc[w] = "probing" => a + left[w] <= Interval + Timeout
      BY <2>2 DEF TimeInv, InTime
    <2> HIDE DEF a, b, s, t
    <2>4. CASE pc[w] = "waiting" /\ ~fired[w]
      <3>1. fired'[w] <=> next[w] = 1
        BY <1>1, <2>4
      <3>2. next'[w] = IF next[w] = 1 THEN Interval ELSE next[w] - 1
        BY <1>1
      <3>3. a + next[w] <= Interval
        BY <2>3, <2>4
      <3>4. b <= Interval /\ (next[w] # 1 => b + (next[w] - 1) <= Interval)
        BY <2>1, <2>2, <3>3
      <3>5. b <= Interval + Timeout
        BY <2>2, <3>4
      <3> QED BY <2>4, <3>1, <3>2, <3>4, <3>5
    <2>5. CASE pc[w] = "probing"
      <3>1. left'[w] = left[w] - 1 /\ left[w] > 0 /\ a + left[w] <= Interval + Timeout
        BY <1>1, <2>3, <2>5
      <3>2. b + (left[w] - 1) <= Interval + Timeout /\ b <= Interval + Timeout
        BY <2>1, <2>2, <3>1
      <3> QED BY <2>5, <3>1, <3>2
    <2> QED BY <1>1, <2>3, <2>4, <2>5
  <1>4. \A w \in Worker : pc[w] # "stamped"
    BY <1>1
  <1>5. up \/ \A n \in Name : samples'[n] = <<>>
    <2>1. ASSUME ~up, NEW n \in Name PROVE samples'[n] = <<>>
      <3>1. samples[n] = <<>> /\ samples'[n] = Aged(samples[n])
        BY <1>1, <2>1 DEF TimeInv
      <3> QED BY <3>1 DEF Aged
    <2> QED BY <2>1
  <1>6. ASSUME NEW n \in Name PROVE Alive(n)'
    <2> DEFINE s == samples[n]
    <2>1. s \in Seq(Sample) /\ samples'[n] = Aged(s)
      BY <1>1, <1>2 DEF TypeOK
    <2> HIDE DEF s
    <2>2. Aged(s) # <<>> /\ LastOf(Aged(s)).live => s # <<>> /\ LastOf(s).live
      BY <2>1, LastAged
    <2> QED BY <1>1, <2>1, <2>2 DEF TimeInv, Alive, s
  <1> QED BY <1>1, <1>2, <1>3, <1>4, <1>5, <1>6 DEF TimeInv

LEMMA TimeWork ==
  ASSUME TimeInv, NEW w \in Worker, Work(w)
  PROVE  TimeInv'
  <1> USE Sizes
  <1> DEFINE n == NameOf[w]
             s == samples[n]
  <1>1. TypeOK /\ TypeOK'
    BY WorkType DEF TimeInv
  <1>2. smp[w] \in Sample /\ n \in Name /\ s \in Seq(Sample) /\ Len(s) <= RingCap
    BY <1>1, WorkerType DEF Series
  <1>3. pc[w] # "off" /\ up /\ \A v \in Worker : InTime(v) /\ (pc[v] = "stamped" => smp[v].age = 0)
    BY DEF TimeInv, Work, Probe, Unresolved, Sampled, AddPing, Persist
  <1>a. up' /\ pc'[w] # "off" /\ \A v \in Worker \ {w} : pc'[v] = pc[v]
    BY <1>1, <1>3 DEF Work, Probe, Unresolved, Sampled, AddPing, Persist, TypeOK
  <1>b. ASSUME NEW k \in Name PROVE Alive(k)'
    <2>1. CASE k = n
      BY <1>a, <2>1 DEF Alive
    <2>2. CASE k # n
      <3>1. samples'[k] = samples[k]
        BY <1>1, <2>2 DEF Work, Probe, Unresolved, Sampled, AddPing, Persist, TypeOK
      <3> QED BY <1>a, <2>2, <3>1 DEF TimeInv, Alive
    <2> QED BY <2>1, <2>2
  <1> SUFFICES \A v \in Worker : InTime(v)' /\ (pc'[v] = "stamped" => smp'[v].age = 0)
    BY <1>1, <1>a, <1>b DEF TimeInv
  <1>4. \A v \in Worker \ {w} : NameOf[v] \in Name
    BY <1>1, WorkerType
  <1>5. CASE Probe(w)
    <2>1. /\ pc[w] = "waiting" /\ pc' = [pc EXCEPT ![w] = "probing"] /\ fired' = [fired EXCEPT ![w] = FALSE]
          /\ left' = [left EXCEPT ![w] = Timeout] /\ UNCHANGED <<up, samples, smp, next>>
      BY <1>5 DEF Probe
    <2>2. /\ pc'[w] = "probing" /\ left'[w] = Timeout
          /\ \A v \in Worker \ {w} : pc'[v] = pc[v] /\ fired'[v] = fired[v] /\ left'[v] = left[v]
      BY <1>1, <2>1 DEF TypeOK
    <2>3. InTime(w)'
      <3> DEFINE a == LastOf(s).age
      <3> SUFFICES ASSUME s # <<>>, LastOf(s).live
                   PROVE  a <= Interval + Timeout /\ a + Timeout <= Interval + Timeout
        BY <2>1, <2>2 DEF InTime
      <3>1. a <= Interval
        BY <1>3, <2>1 DEF InTime
      <3>2. a \in Nat
        BY <1>2, LastType
      <3> HIDE DEF a
      <3> QED BY <3>1, <3>2
    <2>4. \A v \in Worker : InTime(v)' /\ (pc'[v] = "stamped" => smp'[v].age = 0)
      BY <1>3, <2>1, <2>2, <2>3, InTimeSame
    <2> QED BY <2>4
  <1>6. CASE Unresolved(w)
    <2> DEFINE x == Taken(w, NoRtt, FALSE)
    <2>1. samples' = [samples EXCEPT ![n] = Added(@, x)] /\ UNCHANGED <<up, pc, smp, left, next>>
          /\ fired' = [fired EXCEPT ![w] = FALSE]
      BY <1>6 DEF Unresolved
    <2>2. x \in Sample /\ x.age = 0
      BY LostType
    <2> HIDE DEF x
    <2>3. samples'[n] = Added(s, x) /\ \A k \in Name \ {n} : samples'[k] = samples[k]
      BY <1>1, <1>2, <2>1, <2>2, AddSeries
    <2>4. LastOf(samples'[n]).age = 0
      BY <1>2, <2>2, <2>3, LastAdded
    <2>5. ASSUME NEW v \in Worker PROVE InTime(v)'
      <3>1. CASE NameOf[v] = n
        BY <1>1, <1>3, <2>1, <2>4, <3>1, InTimeAfterSample
      <3>2. CASE NameOf[v] # n
        <4>1. samples'[NameOf[v]] = samples[NameOf[v]] /\ fired'[v] = fired[v]
          BY <1>1, <1>4, <2>1, <2>3, <3>2 DEF TypeOK
        <4> QED BY <1>3, <2>1, <4>1, InTimeSame
      <3> QED BY <3>1, <3>2
    <2> QED BY <1>3, <2>1, <2>5
  <1>7. CASE Sampled(w)
    <2>1. PICK r \in Rtt \cup {NoRtt}, k \in BOOLEAN : smp' = [smp EXCEPT ![w] = Taken(w, r, k)]
      BY <1>7 DEF Sampled, Outcomes, Kept
    <2>2. pc' = [pc EXCEPT ![w] = "stamped"] /\ left' = [left EXCEPT ![w] = 0] /\ UNCHANGED <<up, samples, fired, next>>
      BY <1>7 DEF Sampled
    <2>3. /\ smp'[w] = Taken(w, r, k) /\ pc'[w] = "stamped"
          /\ \A v \in Worker \ {w} : pc'[v] = pc[v] /\ smp'[v] = smp[v] /\ left'[v] = left[v]
      BY <1>1, <2>1, <2>2 DEF TypeOK
    <2>4. smp'[w].age = 0
      BY <2>3, TakenType
    <2>5. InTime(w)'
      BY <1>3, <2>2, <2>3 DEF InTime
    <2>6. \A v \in Worker : InTime(v)' /\ (pc'[v] = "stamped" => smp'[v].age = 0)
      BY <1>3, <2>2, <2>3, <2>4, <2>5, InTimeSame
    <2> QED BY <2>6
  <1>8. CASE AddPing(w)
    <2> DEFINE x == smp[w]
    <2>1. /\ samples' = [samples EXCEPT ![n] = Added(@, x)] /\ UNCHANGED <<up, smp, next, fired, left>>
          /\ pc[w] = "stamped" /\ pc' = [pc EXCEPT ![w] = "added"]
      BY <1>8 DEF AddPing
    <2>2. x \in Sample /\ x.age = 0
      BY <1>2, <1>3, <2>1
    <2> HIDE DEF x
    <2>3. samples'[n] = Added(s, x) /\ \A k \in Name \ {n} : samples'[k] = samples[k]
      BY <1>1, <1>2, <2>1, <2>2, AddSeries
    <2>4. LastOf(samples'[n]).age = 0
      BY <1>2, <2>2, <2>3, LastAdded
    <2>5. pc'[w] = "added" /\ \A v \in Worker \ {w} : pc'[v] = pc[v]
      BY <1>1, <2>1 DEF TypeOK
    <2>6. ASSUME NEW v \in Worker PROVE InTime(v)'
      <3>1. CASE NameOf[v] = n
        BY <1>1, <2>4, <3>1, InTimeAfterSample
      <3>2. CASE NameOf[v] # n
        <4>1. samples'[NameOf[v]] = samples[NameOf[v]] /\ pc'[v] = pc[v]
          BY <1>4, <2>3, <2>5, <3>2
        <4> QED BY <1>3, <2>1, <4>1, InTimeSame
      <3> QED BY <3>1, <3>2
    <2> QED BY <1>3, <2>1, <2>5, <2>6
  <1>9. CASE Persist(w)
    <2>1. /\ pc[w] = "added" /\ pc' = [pc EXCEPT ![w] = "waiting"] /\ smp' = [smp EXCEPT ![w] = NoSample(w)]
          /\ UNCHANGED <<up, samples, next, fired, left>>
      BY <1>9 DEF Persist
    <2>2. pc'[w] = "waiting" /\ \A v \in Worker \ {w} : pc'[v] = pc[v] /\ smp'[v] = smp[v]
      BY <1>1, <2>1 DEF TypeOK
    <2>3. InTime(w)'
      <3>1. CASE s # <<>> /\ LastOf(s).live
        <4>1. LastOf(s).age = 0
          BY <1>3, <2>1, <3>1 DEF InTime
        <4> QED BY <1>1, <2>1, <2>2, <4>1, InTimeAfterSample
      <3>2. CASE ~(s # <<>> /\ LastOf(s).live)
        BY <2>1, <3>2 DEF InTime
      <3> QED BY <3>1, <3>2
    <2>4. \A v \in Worker : InTime(v)' /\ (pc'[v] = "stamped" => smp'[v].age = 0)
      BY <1>3, <2>1, <2>2, <2>3, InTimeSame
    <2> QED BY <2>4
  <1> QED BY <1>5, <1>6, <1>7, <1>8, <1>9 DEF Work

LEMMA TimeNext ==
  ASSUME Prompt = TRUE
  PROVE  TimeInv /\ [Next]_vars => TimeInv'
  <1> SUFFICES ASSUME TimeInv, [Next]_vars PROVE TimeInv'
    OBVIOUS
  <1>1. CASE UNCHANGED vars
    <2>1. UNCHANGED <<up, samples, pc, smp, fired, next, left>>
      BY <1>1 DEF vars, worker
    <2>2. TypeOK'
      BY NextType DEF TimeInv
    <2> QED BY <2>1, <2>2 DEF TimeInv, InTime, Alive
  <1> QED BY <1>1, TimeStart, TimeStop, TimeTick, TimeWork DEF Next

\* A series is emptied only by a stop.
LEMMA SeriesGoOn ==
  ASSUME TimeInv, [Next]_vars, NEW n \in Name, samples[n] # <<>>, up'
  PROVE  samples'[n] # <<>>
  <1>1. up /\ TypeOK
    BY DEF TimeInv
  <1>2. samples[n] \in Seq(Sample) /\ Len(samples[n]) <= RingCap
    BY <1>1 DEF TypeOK
  <1>3. CASE Tick
    <2>1. samples'[n] = Aged(samples[n])
      BY <1>3, TickIs
    <2>2. Len(Aged(samples[n])) = Len(samples[n])
      BY <1>2, AgedIs
    <2>3. Len(samples[n]) # 0
      BY <1>2
    <2> QED BY <2>1, <2>2, <2>3
  <1>4. ASSUME NEW w \in Worker, NEW x \in Sample, samples' = [samples EXCEPT ![NameOf[w]] = Added(@, x)]
        PROVE  samples'[n] # <<>>
    <2>1. NameOf[w] \in Name
      BY <1>1, WorkerType
    <2>2. samples'[NameOf[w]] = Added(samples[NameOf[w]], x) /\ \A k \in Name \ {NameOf[w]} : samples'[k] = samples[k]
      BY <1>1, <1>4, <2>1, AddSeries
    <2> QED BY <1>2, <2>2, LastAdded
  <1>5. CASE \E w \in Worker : Unresolved(w)
    <2>1. PICK w \in Worker : Unresolved(w)
      BY <1>5
    <2>2. Taken(w, NoRtt, FALSE) \in Sample
      BY TakenType
    <2>3. samples' = [samples EXCEPT ![NameOf[w]] = Added(@, Taken(w, NoRtt, FALSE))]
      BY <2>1 DEF Unresolved
    <2> QED BY <1>4, <2>2, <2>3
  <1>6. CASE \E w \in Worker : AddPing(w)
    BY <1>1, <1>4, <1>6, WorkerType DEF AddPing
  <1>7. CASE Start \/ Stop
    BY <1>1, <1>7 DEF Start, Stop
  <1>8. CASE \/ \E w \in Worker : Probe(w) \/ Sampled(w) \/ Persist(w)
             \/ UNCHANGED vars
    BY <1>8 DEF Probe, Sampled, Persist, vars
  <1> QED BY <1>3, <1>5, <1>6, <1>7, <1>8 DEF Next, Work

\* Where the workers keep up with their tickers and the window holds an interval and a
\* timeout: a target that is up goes down because a probe failed, never because there
\* was no reason to probe it yet; whoever shares its name, and whatever a kill has left
\* of its history (store.go:275-291, 309; prober.go:65-88).
THEOREM DownByLoss ==
  ASSUME Prompt = TRUE, Interval + Timeout <= Window
  PROVE  Spec => GoesDownByLoss
  <1>1. TimeInv /\ TimeInv' /\ [Next]_vars =>
          [\A n \in Name : Up(samples[n]) /\ ~Up(samples'[n]) /\ up' =>
             LET x == samples'[n][Len(samples'[n])] IN ~x.live \/ ~Ok(x)]_vars
    <2> SUFFICES ASSUME TimeInv, TimeInv', [Next]_vars, NEW n \in Name, Up(samples[n]), up',
                        LastOf(samples'[n]).live, Ok(LastOf(samples'[n]))
                 PROVE  Up(samples'[n])
      BY DEF LastOf
    <2> DEFINE s == samples'[n]
    <2>1. samples[n] # <<>>
      BY DEF Up, OkOf, WindowOf
    <2>2. s # <<>> /\ s \in Seq(Sample)
      BY <2>1, SeriesGoOn DEF TimeInv, TypeOK
    <2>3. PICK w \in Worker : NameOf[w] = n /\ pc'[w] # "off"
      BY <2>2 DEF TimeInv, Alive
    <2>4. LastOf(s).age <= Interval + Timeout
      BY <2>2, <2>3 DEF TimeInv, InTime
    <2> HIDE DEF s
    <2>5. LastOf(s).age <= Window /\ Len(s) \in DOMAIN s
      BY <2>2, <2>4, LastType, Sizes
    <2>6. \A j \in Len(s) .. Len(s) : Recent(s[j])
      <3>1. \A j \in Len(s) .. Len(s) : j = Len(s)
        BY <2>2
      <3> QED BY <2>5, <3>1 DEF Recent, LastOf
    <2>7. Len(s) \in OkOf(s)
      BY <2>5, <2>6 DEF OkOf, WindowOf, LastOf, s
    <2> QED BY <2>7 DEF Up, s
  <1>2. TimeInv /\ [Next]_vars => TimeInv'
    BY TimeNext
  <1> QED BY <1>1, <1>2, TimeInit, PTL DEF Spec, GoesDownByLoss

(***************************************************************************)
(* How many samples of a series are of some kind.                          *)
(***************************************************************************)

ShiftedBy(A, B, m, d) ==
    LET one == IF m + 1 - d \in B THEN 1 ELSE 0
    IN  /\ Cardinality(A) \in Nat /\ Cardinality(B) \in Nat
        /\ Cardinality(B) >= Cardinality(A) - d + one
        /\ d = 0 \/ 1 \notin A => Cardinality(B) = Cardinality(A) + one

\* B is A moved down by d, and perhaps the place after that.
LEMMA ShiftCard ==
  ASSUME NEW m \in Nat, NEW d \in {0, 1}, d <= m, NEW A, A \subseteq 1 .. m, NEW B, B \subseteq 1 .. m + 1 - d,
         \A i \in 1 .. m - d : i \in B <=> i + d \in A
  PROVE  ShiftedBy(A, B, m, d)
  <1> DEFINE l == m + 1 - d
             T == B \ {l}
             U == {j \in A : j > d}
             f == [i \in T |-> i + d]
  <1>1. l \in Nat /\ IsFiniteSet(A) /\ IsFiniteSet(B) /\ IsFiniteSet(T) /\ IsFiniteSet(U)
    <2>1. l \in Nat
      OBVIOUS
    <2>2. IsFiniteSet(1 .. m) /\ IsFiniteSet(1 .. l)
      BY <2>1, FS_Interval
    <2>3. IsFiniteSet(A) /\ IsFiniteSet(B)
      BY <2>2, FS_Subset
    <2> QED BY <2>1, <2>3, FS_Subset
  <1>2. \A i \in T : i \in 1 .. m - d /\ i + d \in U
    <2> SUFFICES ASSUME NEW i \in T PROVE i \in 1 .. m - d /\ i + d \in U
      OBVIOUS
    <2>1. i \in 1 .. l /\ i # l
      OBVIOUS
    <2>2. i \in 1 .. m - d
      BY <2>1
    <2>3. i + d \in A /\ i + d > d
      BY <2>2
    <2> QED BY <2>2, <2>3
  <1>3. \A j \in U : \E i \in T : i + d = j
    <2> SUFFICES ASSUME NEW j \in U PROVE \E i \in T : i + d = j
      OBVIOUS
    <2>1. j \in 1 .. m /\ j > d /\ j \in A
      OBVIOUS
    <2>2. j - d \in 1 .. m - d /\ (j - d) + d = j /\ j - d # l
      BY <2>1
    <2>3. j - d \in B
      BY <2>1, <2>2
    <2> QED BY <2>2, <2>3
  <1>4. f \in Bijection(T, U)
    <2>1. f \in [T -> U]
      BY <1>2
    <2>2. \A i, j \in T : f[i] = f[j] => i = j
      <3> SUFFICES ASSUME NEW i \in T, NEW j \in T, f[i] = f[j] PROVE i = j
        OBVIOUS
      <3>1. i + d = j + d /\ i \in Nat /\ j \in Nat
        BY <1>2
      <3> QED BY <3>1
    <2>3. \A j \in U : \E i \in T : f[i] = j
      BY <1>3
    <2> HIDE DEF f, T, U
    <2> QED BY <2>1, <2>2, <2>3 DEF Bijection, Injection, Surjection, IsInjective
  <1>5. Cardinality(T) = Cardinality(U)
    <2>1. ExistsBijection(T, U)
      BY <1>4 DEF ExistsBijection
    <2> HIDE DEF T, U
    <2> QED BY <1>1, <2>1, FS_Bijection
  <1> HIDE DEF f
  <1>6. Cardinality(A) \in Nat /\ Cardinality(B) \in Nat /\ Cardinality(T) \in Nat /\ Cardinality(U) \in Nat
    BY <1>1, FS_CardinalityType
  <1>7. Cardinality(T) = IF l \in B THEN Cardinality(B) - 1 ELSE Cardinality(B)
    BY <1>1, FS_RemoveElement
  <1>8. Cardinality(U) >= Cardinality(A) - d /\ (d = 0 \/ 1 \notin A => Cardinality(U) = Cardinality(A))
    <2>1. CASE d = 0 \/ 1 \notin A
      <3>1. \A j \in A : j > d
        <4> SUFFICES ASSUME NEW j \in A PROVE j > d
          OBVIOUS
        <4>1. j \in Nat /\ j >= 1 /\ (d = 1 => j # 1)
          BY <2>1
        <4> QED BY <4>1
      <3>2. U = A
        BY <3>1
      <3> HIDE DEF U
      <3> QED BY <1>6, <3>2, <2>1
    <2>2. CASE d = 1 /\ 1 \in A
      <3>0. \A j \in A : j > 1 <=> j # 1
        <4> SUFFICES ASSUME NEW j \in A PROVE j > 1 <=> j # 1
          OBVIOUS
        <4>1. j \in Nat /\ j >= 1
          OBVIOUS
        <4> QED BY <4>1
      <3>1. U = A \ {1}
        BY <3>0, <2>2
      <3>2. Cardinality(A \ {1}) = Cardinality(A) - 1
        BY <1>1, <2>2, FS_RemoveElement
      <3> HIDE DEF U
      <3> QED BY <1>6, <2>2, <3>1, <3>2
    <2> QED BY <2>1, <2>2
  <1> DEFINE cA == Cardinality(A)
             cB == Cardinality(B)
             cU == Cardinality(U)
             one == IF l \in B THEN 1 ELSE 0
  <1>9. cB = cU + one
    <2> HIDE DEF T, U, l
    <2> QED BY <1>5, <1>6, <1>7
  <1>10. one \in {0, 1} /\ cA \in Nat /\ cU \in Nat /\ cU >= cA - d /\ (d = 0 \/ 1 \notin A => cU = cA) /\ cB \in Nat
    <2> HIDE DEF U, l
    <2> QED BY <1>6, <1>8
  <1> HIDE DEF cA, cB, cU, one
  <1>11. cB >= cA - d + one /\ (d = 0 \/ 1 \notin A => cB = cA + one)
    BY <1>9, <1>10
  <1> QED BY <1>10, <1>11 DEF cA, cB, one, ShiftedBy

LEMMA GreatestOfSet ==
  ASSUME NEW n \in Nat, NEW T, T \subseteq 1 .. n, T # {}
  PROVE  Max(T) \in T /\ \A k \in T : k <= Max(T)
  <1> DEFINE FromEnd == {k \in Nat : n - k \in T}
  <1>1. FromEnd \subseteq Nat /\ FromEnd # {}
    <2>1. PICK x \in T : TRUE
      OBVIOUS
    <2>2. x \in 1 .. n /\ n - x \in Nat /\ n - (n - x) = x
      BY <2>1
    <2> QED BY <2>1, <2>2
  <1>2. PICK m \in FromEnd : \A k \in FromEnd : m <= k
    <2> HIDE DEF FromEnd
    <2> QED BY <1>1, LeastOfNats
  <1>3. ASSUME NEW k \in T PROVE n - m >= k
    <2>1. k \in 1 .. n /\ n - k \in Nat /\ n - (n - k) = k
      OBVIOUS
    <2>2. m <= n - k /\ m \in Nat
      BY <1>2, <2>1
    <2> QED BY <2>1, <2>2
  <1>4. \E g \in T : \A k \in T : g >= k
    BY <1>2, <1>3
  <1>5. Max(T) \in T /\ \A k \in T : Max(T) >= k
    BY <1>4 DEF Max
  <1>6. \A k \in T : k \in Nat
    OBVIOUS
  <1> QED BY <1>5, <1>6

LEMMA KindsOf ==
  ASSUME NEW s \in Seq(Sample), Len(s) <= RingCap
  PROVE  /\ Answers(s) \subseteq 1 .. Len(s) /\ LiveOk(s) \subseteq 1 .. Len(s)
         /\ Cardinality(Answers(s)) \in 0 .. RingCap
         /\ Cardinality(OkOf(s)) \in 0 .. RingCap /\ Cardinality(OkOf(s)) <= Cardinality(Answers(s))
  <1>1. Len(s) \in Nat /\ DOMAIN s = 1 .. Len(s)
    OBVIOUS
  <1>2. Answers(s) \subseteq 1 .. Len(s) /\ LiveOk(s) \subseteq 1 .. Len(s) /\ OkOf(s) \subseteq Answers(s)
    BY <1>1 DEF Answers, LiveOk, OkOf, WindowOf
  <1>3. IsFiniteSet(1 .. Len(s)) /\ Cardinality(1 .. Len(s)) = Len(s)
    BY <1>1, FS_Interval
  <1>4. IsFiniteSet(Answers(s)) /\ Cardinality(Answers(s)) <= Len(s)
    BY <1>2, <1>3, FS_Subset
  <1>5. IsFiniteSet(OkOf(s)) /\ Cardinality(OkOf(s)) <= Cardinality(Answers(s))
    BY <1>2, <1>4, FS_Subset
  <1>6. Cardinality(Answers(s)) \in Nat /\ Cardinality(OkOf(s)) \in Nat
    BY <1>4, <1>5, FS_CardinalityType
  <1> QED BY <1>1, <1>2, <1>4, <1>5, <1>6, Sizes

\* A sample more: no answer is lost but the oldest, and that only from a full series.
LEMMA AnswersAdded ==
  ASSUME NEW s \in Seq(Sample), Len(s) <= RingCap, NEW x \in Sample
  PROVE  /\ Cardinality(Answers(Added(s, x))) >= Cardinality(Answers(s)) - 1
         /\ Len(s) < RingCap => Cardinality(Answers(Added(s, x))) >= Cardinality(Answers(s))
         /\ Cardinality(Answers(Added(s, x))) \in Nat /\ Cardinality(Answers(s)) \in Nat
  <1> DEFINE t == Added(s, x)
             d == Drop(s)
             m == Len(s)
             A == Answers(s)
             B == Answers(t)
  <1>1. /\ DOMAIN t = 1 .. m + 1 - d /\ (\A i \in 1 .. m - d : t[i] = s[i + d])
        /\ d \in {0, 1} /\ m \in Nat /\ (d = 1 <=> m = RingCap) /\ DOMAIN s = 1 .. m
    BY AddedIs
  <1> HIDE DEF t, d, m
  <1>2. A \subseteq 1 .. m /\ B \subseteq 1 .. m + 1 - d /\ d <= m
    BY <1>1, Sizes DEF Answers
  <1>3. \A i \in 1 .. m - d : i \in B <=> i + d \in A
    <2> SUFFICES ASSUME NEW i \in 1 .. m - d PROVE i \in B <=> i + d \in A
      OBVIOUS
    <2>1. i \in 1 .. m + 1 - d /\ i + d \in 1 .. m
      BY <1>1
    <2> QED BY <1>1, <2>1 DEF Answers
  <1> HIDE DEF A, B
  <1> DEFINE one == IF m + 1 - d \in B THEN 1 ELSE 0
  <1>3a. m \in Nat /\ d \in {0, 1} /\ d <= m
    BY <1>1, <1>2
  <1>3b. ShiftedBy(A, B, m, d)
    BY <1>2, <1>3, <1>3a, ShiftCard
  <1>4. /\ Cardinality(A) \in Nat /\ Cardinality(B) \in Nat
        /\ Cardinality(B) >= Cardinality(A) - d + one
    BY <1>3b DEF ShiftedBy
  <1>5. one \in {0, 1}
    OBVIOUS
  <1> DEFINE cA == Cardinality(A)
             cB == Cardinality(B)
  <1>6. cA \in Nat /\ cB \in Nat /\ cB >= cA - d + one
    BY <1>4
  <1> HIDE DEF cA, cB, one
  <1>7. cB >= cA - 1 /\ (d = 0 => cB >= cA)
    BY <1>1, <1>5, <1>6
  <1>8. m < RingCap => d = 0
    BY <1>1, Sizes
  <1> QED BY <1>6, <1>7, <1>8 DEF A, B, cA, cB, t, m

\* Time changes none of them.
LEMMA KindsAged ==
  ASSUME NEW s \in Seq(Sample)
  PROVE  Answers(Aged(s)) = Answers(s) /\ LiveOk(Aged(s)) = LiveOk(s) /\ Len(Aged(s)) = Len(s)
         /\ \A i \in DOMAIN s : Aged(s)[i].live = s[i].live /\ Aged(s)[i].rtt = s[i].rtt
  <1>1. /\ DOMAIN Aged(s) = DOMAIN s /\ Len(Aged(s)) = Len(s)
        /\ \A i \in DOMAIN s : Aged(s)[i].live = s[i].live /\ Aged(s)[i].rtt = s[i].rtt
    BY AgedIs, OlderIs
  <1> QED BY <1>1 DEF Answers, LiveOk, Ok

(***************************************************************************)
(* What a series says of its session.                                      *)
(***************************************************************************)

LEMMA SeriesIs ==
  ASSUME NEW s \in Series
  PROVE  /\ s \in Seq(Sample) /\ Len(s) <= RingCap /\ Len(s) \in Nat /\ DOMAIN s = 1 .. Len(s)
         /\ \A i \in DOMAIN s : s[i] \in Sample
         /\ InHistogram(s) \in 0 .. RingCap /\ InHistogram(s) \in Nat
  <1>1. s \in Seq(Sample) /\ Len(s) <= RingCap
    BY DEF Series
  <1>2. InHistogram(s) \in 0 .. RingCap
    BY <1>1, KindsOf DEF InHistogram
  <1> QED BY <1>1, <1>2

\* A series with replayed samples only is that of a session without a sample.
LEMMA SessionFresh ==
  ASSUME NEW s \in Series, \A i \in DOMAIN s : ~s[i].live
  PROVE  Session(s, 0, 0, NoRtt)
  <1>1. LiveOk(s) = {}
    BY DEF LiveOk
  <1>2. Cardinality(LiveOk(s)) = 0
    BY <1>1, FS_EmptySet
  <1>3. Least(0, RingCap) = 0
    BY Sizes DEF Least
  <1>4. Len(s) \in Nat /\ DOMAIN s = 1 .. Len(s)
    BY SeriesIs
  <1>5. LiveLast(s, 0)
    <2>1. \A i \in DOMAIN s : ~(i > Len(s) - 0)
      BY <1>4
    <2> QED BY <1>4, <2>1 DEF LiveLast
  <1> QED BY <1>1, <1>2, <1>3, <1>5 DEF Session

LEMMA SessionAged ==
  ASSUME NEW s \in Series, NEW se, NEW re, NEW la, Session(s, se, re, la)
  PROVE  Session(Aged(s), se, re, la)
  <1> DEFINE t == Aged(s)
  <1>1. s \in Seq(Sample)
    BY SeriesIs
  <1>2. LiveOk(t) = LiveOk(s) /\ Len(t) = Len(s) /\ DOMAIN t = DOMAIN s
        /\ \A i \in DOMAIN s : t[i].live = s[i].live /\ t[i].rtt = s[i].rtt
    BY <1>1, KindsAged, AgedIs
  <1>3. \A i \in LiveOk(s) : i \in DOMAIN s
    BY DEF LiveOk
  <1> HIDE DEF t
  <1>4. LiveLast(t, Least(se, RingCap))
    BY <1>2 DEF Session, LiveLast
  <1>5. \A i \in LiveOk(t) : (\A j \in LiveOk(t) : j <= i) => la = t[i].rtt
    BY <1>2, <1>3 DEF Session
  <1>6. Session(t, se, re, la)
    BY <1>2, <1>4, <1>5 DEF Session
  <1> QED BY <1>6 DEF t

LEMMA LeastIs ==
  ASSUME NEW se \in Nat
  PROVE  /\ Least(se, RingCap) \in Nat /\ Least(se + 1, RingCap) \in Nat
         /\ se < RingCap => Least(se, RingCap) = se /\ Least(se + 1, RingCap) = se + 1
         /\ se >= RingCap => Least(se, RingCap) = RingCap /\ Least(se + 1, RingCap) = RingCap
  BY Sizes DEF Least

LEMMA LiveAdded ==
  ASSUME NEW s \in Series, NEW x \in Sample, x.live, NEW se \in Nat, LiveLast(s, Least(se, RingCap))
  PROVE  LiveLast(Added(s, x), Least(se + 1, RingCap))
  <1> USE Sizes
  <1> DEFINE t == Added(s, x)
             d == Drop(s)
             m == Len(s)
             k == Least(se, RingCap)
             k1 == Least(se + 1, RingCap)
  <1>1. /\ Len(t) = m + 1 - d /\ DOMAIN t = 1 .. m + 1 - d /\ t[m + 1 - d] = x
        /\ (\A i \in 1 .. m - d : t[i] = s[i + d]) /\ d \in {0, 1} /\ (d = 1 <=> m = RingCap)
        /\ m \in Nat /\ m <= RingCap
    BY AddedIs DEF Series
  <1>2. k \in Nat /\ k <= m /\ (\A i \in 1 .. m : s[i].live <=> i > m - k)
    BY LeastIs, SeriesIs DEF LiveLast
  <1>3. k1 \in Nat /\ (se < RingCap => k = se /\ k1 = se + 1) /\ (se >= RingCap => k = RingCap /\ k1 = RingCap)
    BY LeastIs
  <1> HIDE DEF t, d, m, k, k1
  <1>4. k1 <= m + 1 - d /\ k1 >= 1
    <2>1. CASE se < RingCap
      BY <1>1, <1>2, <1>3, <2>1
    <2>2. CASE se >= RingCap
      BY <1>1, <1>2, <1>3, <2>2
    <2> QED BY <2>1, <2>2
  <1>5. ASSUME NEW i \in 1 .. m - d PROVE t[i].live <=> i > (m + 1 - d) - k1
    <2>1. t[i] = s[i + d] /\ i + d \in 1 .. m
      BY <1>1
    <2>2. t[i].live <=> i + d > m - k
      BY <1>2, <2>1
    <2>3. (i + d > m - k) <=> (i > (m + 1 - d) - k1)
      <3>1. CASE se < RingCap
        BY <1>1, <1>2, <1>3, <3>1
      <3>2. CASE se >= RingCap
        BY <1>1, <1>2, <1>3, <3>2
      <3> QED BY <3>1, <3>2
    <2> QED BY <2>2, <2>3
  <1>6. ASSUME NEW i \in 1 .. m + 1 - d PROVE t[i].live <=> i > (m + 1 - d) - k1
    <2>1. CASE i = m + 1 - d
      <3>1. t[i].live
        BY <1>1, <2>1
      <3>2. i > (m + 1 - d) - k1
        BY <1>1, <1>3, <1>4, <2>1
      <3> QED BY <3>1, <3>2
    <2>2. CASE i # m + 1 - d
      <3>1. i \in 1 .. m - d
        BY <1>1, <2>2
      <3> QED BY <3>1, <1>5
    <2> QED BY <2>1, <2>2
  <1> QED BY <1>1, <1>4, <1>6 DEF LiveLast, t, k1

\* A live answer more, or not, and the oldest one less, perhaps.
LEMMA LiveOkAdded ==
  ASSUME NEW s \in Series, NEW x \in Sample, x.live
  PROVE  LET t == Added(s, x)
         IN  /\ \A i \in 1 .. Len(s) - Drop(s) : i \in LiveOk(t) <=> i + Drop(s) \in LiveOk(s)
             /\ Len(t) \in LiveOk(t) <=> Ok(x)
             /\ LiveOk(t) \subseteq 1 .. Len(t) /\ LiveOk(s) \subseteq 1 .. Len(s)
             /\ ShiftedBy(LiveOk(s), LiveOk(t), Len(s), Drop(s))
  <1> DEFINE t == Added(s, x)
             d == Drop(s)
             m == Len(s)
             A == LiveOk(s)
             B == LiveOk(t)
  <1>1. /\ DOMAIN t = 1 .. m + 1 - d /\ (\A i \in 1 .. m - d : t[i] = s[i + d]) /\ Len(t) = m + 1 - d
        /\ d \in {0, 1} /\ m \in Nat /\ (d = 1 <=> m = RingCap) /\ DOMAIN s = 1 .. m /\ t[m + 1 - d] = x
    BY AddedIs, SeriesIs
  <1> HIDE DEF t, d, m
  <1>2. A \subseteq 1 .. m /\ B \subseteq 1 .. m + 1 - d /\ d <= m
    BY <1>1, Sizes DEF LiveOk
  <1>3. \A i \in 1 .. m - d : i \in B <=> i + d \in A
    <2> SUFFICES ASSUME NEW i \in 1 .. m - d PROVE i \in B <=> i + d \in A
      OBVIOUS
    <2>1. i \in 1 .. m + 1 - d /\ i + d \in 1 .. m
      BY <1>1
    <2> QED BY <1>1, <2>1 DEF LiveOk
  <1>4. m + 1 - d \in B <=> Ok(x)
    <2>1. m + 1 - d \in 1 .. m + 1 - d
      BY <1>1, <1>2
    <2> QED BY <1>1, <2>1 DEF LiveOk
  <1> HIDE DEF A, B
  <1>5. ShiftedBy(A, B, m, d)
    BY <1>1, <1>2, <1>3, ShiftCard
  <1> QED BY <1>1, <1>2, <1>3, <1>4, <1>5 DEF t, d, m, A, B

\* A sample more, counted as AddPing counts it.
LEMMA SessionAdded ==
  ASSUME NEW s \in Series, NEW x \in Sample, x.live, NEW se \in Nat, NEW re \in Nat,
         NEW la \in Rtt \cup {NoRtt}, Session(s, se, re, la)
  PROVE  Session(Added(s, x), se + 1, IF Ok(x) THEN re + 1 ELSE re, IF Ok(x) THEN x.rtt ELSE la)
  <1> USE Sizes
  <1> DEFINE t == Added(s, x)
             d == Drop(s)
             m == Len(s)
             l == Len(t)
             A == LiveOk(s)
             B == LiveOk(t)
             re1 == IF Ok(x) THEN re + 1 ELSE re
             la1 == IF Ok(x) THEN x.rtt ELSE la
  <1>1. /\ l = m + 1 - d /\ (\A i \in 1 .. m - d : t[i] = s[i + d]) /\ t[m + 1 - d] = x
        /\ d \in {0, 1} /\ m \in Nat /\ (d = 1 <=> m = RingCap) /\ m <= RingCap /\ DOMAIN s = 1 .. m
    BY AddedIs, SeriesIs
  <1>2. /\ \A i \in 1 .. m - d : i \in B <=> i + d \in A
        /\ l \in B <=> Ok(x)
        /\ B \subseteq 1 .. l /\ A \subseteq 1 .. m
        /\ ShiftedBy(A, B, m, d)
    BY LiveOkAdded
  <1>3. LiveLast(t, Least(se + 1, RingCap))
    BY LiveAdded DEF Session
  <1>4. /\ re <= se
        /\ se <= RingCap => re = Cardinality(A)
        /\ A # {} => re > 0
        /\ \A i \in A : (\A j \in A : j <= i) => la = s[i].rtt
        /\ re = 0 <=> la = NoRtt
    BY DEF Session
  <1>5. 1 \in A /\ se < RingCap => d = 0
    <2> SUFFICES ASSUME 1 \in A, se < RingCap, d # 0 PROVE FALSE
      OBVIOUS
    <2>1. 1 \in DOMAIN s /\ s[1].live
      BY DEF LiveOk
    <2>2. Least(se, RingCap) = se
      BY LeastIs
    <2>3. s[1].live <=> 1 > m - se
      BY <2>1, <2>2 DEF Session, LiveLast
    <2> HIDE DEF m, d
    <2> QED BY <1>1, <2>1, <2>3
  <1>6. Ok(x) => x.rtt # NoRtt
    BY DEF Ok
  <1> HIDE DEF t, d, m, l, A, B
  <1>7. re1 \in Nat /\ re1 <= se + 1 /\ (re1 = 0 <=> la1 = NoRtt)
    BY <1>4, <1>6
  <1>8. se + 1 <= RingCap => re1 = Cardinality(B)
    <2> SUFFICES ASSUME se + 1 <= RingCap PROVE re1 = Cardinality(B)
      OBVIOUS
    <2>1. d = 0 \/ 1 \notin A
      BY <1>5
    <2> DEFINE one == IF m + 1 - d \in B THEN 1 ELSE 0
               cA == Cardinality(A)
               cB == Cardinality(B)
    <2>2. cB = cA + one
      BY <1>2, <2>1 DEF ShiftedBy
    <2>3. one = IF Ok(x) THEN 1 ELSE 0
      BY <1>1, <1>2
    <2>4. re = cA
      BY <1>4
    <2> HIDE DEF one, cA, cB
    <2>5. re1 = cB
      BY <2>2, <2>3, <2>4
    <2> QED BY <2>5 DEF cB
  <1>9. ASSUME NEW i \in B, ~Ok(x) PROVE i \in 1 .. m - d /\ i + d \in A /\ t[i] = s[i + d]
    <2>1. i \in 1 .. m + 1 - d /\ i # m + 1 - d
      BY <1>1, <1>2, <1>9
    <2>2. i \in 1 .. m - d
      BY <1>1, <2>1
    <2> QED BY <1>1, <1>2, <2>2
  <1>10. B # {} => re1 > 0
    <2>1. CASE Ok(x)
      BY <2>1
    <2>2. CASE ~Ok(x)
      BY <1>4, <1>9, <2>2
    <2> QED BY <2>1, <2>2
  <1>11. ASSUME NEW i \in B, \A j \in B : j <= i PROVE la1 = t[i].rtt
    <2>1. CASE Ok(x)
      <3>1. l \in B /\ i \in 1 .. l /\ l \in Nat
        BY <1>1, <1>2, <2>1
      <3>2. l <= i
        BY <1>11, <3>1
      <3>3. i = m + 1 - d
        BY <1>1, <3>1, <3>2
      <3> QED BY <1>1, <2>1, <3>3
    <2>2. CASE ~Ok(x)
      <3>1. i \in 1 .. m - d /\ i + d \in A /\ t[i] = s[i + d]
        BY <1>9, <2>2
      <3>2. ASSUME NEW j \in A PROVE j <= i + d
        <4>1. j \in 1 .. m
          BY <1>2
        <4>2. CASE j <= d
          BY <1>1, <3>1, <4>1, <4>2
        <4>3. CASE j > d
          <5> DEFINE k == j - d
          <5>1. k \in 1 .. m - d /\ k + d = j
            BY <1>1, <4>1, <4>3
          <5> HIDE DEF k
          <5>2. k \in B
            BY <1>2, <5>1
          <5>3. k <= i
            BY <1>11, <5>2
          <5> QED BY <1>1, <3>1, <5>1, <5>3
        <4> QED BY <1>1, <4>1, <4>2, <4>3
      <3>3. la = s[i + d].rtt
        BY <1>4, <3>1, <3>2
      <3> QED BY <2>2, <3>1, <3>3
    <2> QED BY <2>1, <2>2
  <1> HIDE DEF re1, la1
  <1>12. Session(t, se + 1, re1, la1)
    <2>1. /\ se + 1 <= RingCap => re1 = Cardinality(LiveOk(t))
          /\ LiveOk(t) # {} => re1 > 0
          /\ \A i \in LiveOk(t) : (\A j \in LiveOk(t) : j <= i) => la1 = t[i].rtt
      BY <1>8, <1>10, <1>11 DEF B
    <2> QED BY <1>3, <1>7, <2>1 DEF Session
  <1> QED BY <1>12 DEF t, re1, la1

(***************************************************************************)
(* What a page says of a series.                                           *)
(***************************************************************************)

LEMMA FiguresAre ==
  ASSUME NEW f \in Figures
  PROVE  f.sent \in 0 .. MaxSent /\ f.recv \in 0 .. MaxSent /\ f.ok \in 0 .. RingCap
         /\ f.sent \in Nat /\ f.recv \in Nat /\ f.ok \in Nat
  BY ScrapeAssumption, Sizes DEF Figures

LEMMA PageIs ==
  ASSUME NEW p \in Page
  PROVE  p.figures \in Figures /\ p.count \in 0 .. RingCap /\ p.since \in 0 .. MaxSent
         /\ p.count \in Nat /\ p.since \in Nat
  BY ScrapeAssumption, Sizes DEF Page

LEMMA HistogramAdded ==
  ASSUME NEW s \in Series, NEW x \in Sample
  PROVE  /\ InHistogram(Added(s, x)) \in Nat /\ InHistogram(s) \in Nat
         /\ InHistogram(Added(s, x)) >= InHistogram(s) - 1
         /\ Len(s) # RingCap => InHistogram(Added(s, x)) >= InHistogram(s)
         /\ Len(s) = RingCap => Len(Added(s, x)) = RingCap
  <1> USE Sizes
  <1>1. s \in Seq(Sample) /\ Len(s) <= RingCap /\ Len(s) \in Nat
    BY SeriesIs
  <1>2. Len(s) = RingCap => Len(Added(s, x)) = RingCap
    <2>1. Len(Added(s, x)) = Len(s) + 1 - Drop(s) /\ (Drop(s) = 1 <=> Len(s) = RingCap)
      BY <1>1, AddedIs
    <2> QED BY <1>1, <2>1
  <1>3. Len(s) # RingCap => Len(s) < RingCap
    BY <1>1
  <1> QED BY <1>1, <1>2, <1>3, AnswersAdded DEF InHistogram

LEMMA SnapAdded ==
  ASSUME NEW s \in Series, NEW x \in Sample, NEW se \in Nat, NEW re \in Nat, NEW re1 \in {re, re + 1},
         NEW f, SnapFits(s, se, re, f)
  PROVE  SnapFits(Added(s, x), se + 1, re1, f)
  <1> DEFINE h == InHistogram(s)
             h1 == InHistogram(Added(s, x))
  <1>1. h \in Nat /\ h1 \in Nat /\ h1 >= h - 1
    BY HistogramAdded
  <1>2. f \in Figures /\ f.recv <= f.sent /\ f.sent \in Nat /\ f.recv \in Nat /\ f.ok \in Nat
    BY FiguresAre DEF SnapFits
  <1>3. f.sent <= se /\ f.recv <= re /\ re - f.recv <= se - f.sent /\ f.ok <= h + (se - f.sent)
    BY DEF SnapFits, Ahead
  <1> HIDE DEF h, h1
  <1>4. f.sent <= se + 1 /\ f.recv <= re1 /\ re1 - f.recv <= (se + 1) - f.sent
    BY <1>2, <1>3
  <1>5. f.ok <= h1 + ((se + 1) - f.sent)
    BY <1>1, <1>2, <1>3
  <1> QED BY <1>2, <1>4, <1>5 DEF SnapFits, Ahead, h1

LEMMA PageAdded ==
  ASSUME NEW s \in Series, NEW x \in Sample, NEW se \in Nat, NEW re \in Nat, NEW re1 \in {re, re + 1},
         NEW p \in Page, PageFits(s, se, re, p)
  PROVE  PageFits(Added(s, x), se + 1, re1, p)
  <1> DEFINE h == InHistogram(s)
             h1 == InHistogram(Added(s, x))
             f == p.figures
  <1>1. h \in Nat /\ h1 \in Nat /\ (Len(s) # RingCap => h1 >= h) /\ (Len(s) = RingCap => Len(Added(s, x)) = RingCap)
    BY HistogramAdded
  <1>2. f.sent \in Nat /\ f.recv \in Nat /\ p.count \in Nat
    BY FiguresAre, PageIs
  <1>3. /\ f.recv <= f.sent /\ f.ok <= p.count + p.since
        /\ f.sent <= se /\ f.recv <= re /\ re - f.recv <= se - f.sent
        /\ p.count <= h \/ Len(s) = RingCap
    BY DEF PageFits, Ahead
  <1> HIDE DEF h, h1, f
  <1>4. f.sent <= se + 1 /\ f.recv <= re1 /\ re1 - f.recv <= (se + 1) - f.sent
    BY <1>2, <1>3
  <1>5. p.count <= h1 \/ Len(Added(s, x)) = RingCap
    BY <1>1, <1>2, <1>3
  <1> QED BY <1>3, <1>4, <1>5 DEF PageFits, Ahead, h1, f

LEMMA PagesAged ==
  ASSUME NEW s \in Series, NEW se, NEW re, NEW f
  PROVE  /\ SnapFits(s, se, re, f) => SnapFits(Aged(s), se, re, f)
         /\ PageFits(s, se, re, f) => PageFits(Aged(s), se, re, f)
  <1>1. InHistogram(Aged(s)) = InHistogram(s) /\ Len(Aged(s)) = Len(s)
    BY SeriesIs, KindsAged DEF InHistogram
  <1> QED BY <1>1 DEF SnapFits, PageFits

(***************************************************************************)
(* The steps.                                                              *)
(***************************************************************************)

\* A step of Scrape is one of PingStore, or leaves it alone.
LEMMA ScrapeStep == [ScrapeNext]_scrapeVars => [Next]_vars
  <1> SUFFICES ASSUME [ScrapeNext]_scrapeVars PROVE [Next]_vars
    OBVIOUS
  <1>1. CASE UNCHANGED scrapeVars
    BY <1>1 DEF scrapeVars
  <1>2. CASE (Start \/ Stop) /\ Fresh
    BY <1>2 DEF Next
  <1>3. CASE Quiet
    BY <1>3 DEF Quiet, Next, Work
  <1>4. CASE \E w \in Worker : Counted(w)
    BY <1>4 DEF Counted, Next, Work
  <1>5. CASE Snapshot \/ \E n \in Name : Emit(n)
    BY <1>5 DEF Snapshot, Emit
  <1> QED BY <1>1, <1>2, <1>3, <1>4, <1>5 DEF ScrapeNext

LEMMA ScrapeInvIs ==
  ASSUME ScrapeInv
  PROVE  /\ TypeOK /\ NameOf \in [Worker -> Name] /\ samples \in [Name -> Series]
         /\ \A w \in Worker : smp[w] \in Sample /\ smp[w].live
         /\ \A n \in Name : /\ samples[n] \in Series /\ sent[n] \in Nat /\ received[n] \in Nat
                            /\ sent[n] <= MaxSent /\ received[n] <= sent[n]
                            /\ last[n] \in Rtt \cup {NoRtt}
                            /\ page[n] # None => page[n] \in Page
                            /\ Session(samples[n], sent[n], received[n], last[n]) /\ Shown(n)
  <1>1. TypeOK
    BY DEF ScrapeInv, ScrapeTypeOK
  <1>2. NameOf \in [Worker -> Name] /\ samples \in [Name -> Series]
    BY <1>1, SeriesType
  <1>3. \A w \in Worker : smp[w] \in Sample /\ smp[w].live
    BY <1>1 DEF ScrapeInv, TypeOK
  <1>4. ASSUME NEW n \in Name
        PROVE  /\ sent[n] \in 0 .. MaxSent /\ received[n] \in 0 .. MaxSent /\ last[n] \in Rtt \cup {NoRtt}
               /\ page[n] # None => page[n] \in Page
    BY DEF ScrapeInv, ScrapeTypeOK
  <1>5. \A n \in Name : Session(samples[n], sent[n], received[n], last[n]) /\ Shown(n)
    BY DEF ScrapeInv
  <1>6. \A n \in Name : received[n] <= sent[n]
    BY <1>5 DEF Session
  <1>7. \A n \in Name : samples[n] \in Series
    BY <1>2
  <1>8. \A n \in Name : sent[n] \in Nat /\ received[n] \in Nat /\ sent[n] <= MaxSent
    BY <1>4, ScrapeAssumption
  <1> QED BY <1>1, <1>2, <1>3, <1>4, <1>5, <1>6, <1>7, <1>8

LEMMA EmptySeries == <<>> \in Series /\ \A i \in DOMAIN <<>> : ~(<<>>[i].live)
  <1>1. <<>> \in Seq(Sample) /\ Len(<<>>) = 0 /\ DOMAIN <<>> = {}
    OBVIOUS
  <1> QED BY <1>1, Sizes DEF Series

LEMMA ScrapeInitInv == ScrapeInit => ScrapeInv
  <1> SUFFICES ASSUME ScrapeInit PROVE ScrapeInv
    OBVIOUS
  <1>1. /\ TypeOK /\ samples = [n \in Name |-> <<>>] /\ smp = [w \in Worker |-> NoSample(w)]
        /\ sent = [n \in Name |-> 0] /\ received = [n \in Name |-> 0] /\ last = [n \in Name |-> NoRtt]
        /\ todo = {} /\ snap = [n \in Name |-> None] /\ page = [n \in Name |-> None]
    BY InitType DEF ScrapeInit, Init
  <1>2. ScrapeTypeOK
    <2>1. 0 \in 0 .. MaxSent
      BY ScrapeAssumption
    <2> QED BY <1>1, <2>1 DEF ScrapeTypeOK
  <1>3. \A w \in Worker : smp[w].live
    BY <1>1, NoSampleType
  <1>4. ASSUME NEW n \in Name PROVE Session(samples[n], sent[n], received[n], last[n]) /\ Shown(n)
    <2>1. Session(<<>>, 0, 0, NoRtt)
      BY EmptySeries, SessionFresh
    <2>2. samples[n] = <<>> /\ sent[n] = 0 /\ received[n] = 0 /\ last[n] = NoRtt /\ page[n] = None
      BY <1>1
    <2> QED BY <1>1, <2>1, <2>2 DEF Shown
  <1> QED BY <1>2, <1>3, <1>4 DEF ScrapeInv

LEMMA FreshInv ==
  ASSUME ScrapeInv, Start \/ Stop, Fresh
  PROVE  ScrapeInv'
  <1>1. /\ sent' = [n \in Name |-> 0] /\ received' = [n \in Name |-> 0] /\ last' = [n \in Name |-> NoRtt]
        /\ todo' = {} /\ snap' = [n \in Name |-> None] /\ page' = [n \in Name |-> None]
    BY DEF Fresh, SentAtStart
  <1>2. TypeOK /\ TypeOK'
    BY ScrapeInvIs, StartType, StopType
  <1>3. ScrapeTypeOK'
    <2>1. 0 \in 0 .. MaxSent
      BY ScrapeAssumption
    <2> QED BY <1>1, <1>2, <2>1 DEF ScrapeTypeOK
  <1>4. \A w \in Worker : smp'[w].live
    <2>1. CASE Start
      BY <2>1, ScrapeInvIs DEF Start
    <2>2. CASE Stop
      BY <2>2, NoSampleType DEF Stop
    <2> QED BY <2>1, <2>2
  <1>5. ASSUME NEW n \in Name PROVE samples'[n] \in Series /\ \A i \in DOMAIN samples'[n] : ~samples'[n][i].live
    <2>1. CASE Start
      <3>1. samples'[n] = Replayed(n)
        BY <2>1 DEF Start
      <3>2. log \in Seq(Sample)
        BY <1>2 DEF TypeOK
      <3>3. Replayed(n) \in Seq(Sample) /\ Len(Replayed(n)) <= RingCap
            /\ \A i \in DOMAIN Replayed(n) : ~Replayed(n)[i].live
        BY <3>2, ReplayedType
      <3> QED BY <3>1, <3>3 DEF Series
    <2>2. CASE Stop
      <3>1. samples'[n] = <<>>
        BY <2>2 DEF Stop
      <3> QED BY <3>1, EmptySeries
    <2> QED BY <2>1, <2>2
  <1>6. ASSUME NEW n \in Name PROVE Session(samples'[n], sent'[n], received'[n], last'[n]) /\ Shown(n)'
    <2>1. Session(samples'[n], 0, 0, NoRtt)
      BY <1>5, SessionFresh
    <2>2. sent'[n] = 0 /\ received'[n] = 0 /\ last'[n] = NoRtt /\ page'[n] = None
      BY <1>1
    <2> QED BY <1>1, <2>1, <2>2 DEF Shown
  <1> QED BY <1>3, <1>4, <1>6 DEF ScrapeInv

LEMMA QuietInv ==
  ASSUME ScrapeInv, Quiet
  PROVE  ScrapeInv'
  <1>1. UNCHANGED <<sent, received, last, todo, snap, page>>
    BY DEF Quiet, totals, collector
  <1>2. TypeOK'
    <2>1. [ScrapeNext]_scrapeVars
      BY DEF ScrapeNext
    <2> QED BY <2>1, ScrapeStep, ScrapeInvIs, NextType
  <1>3. ScrapeTypeOK'
    BY <1>1, <1>2 DEF ScrapeInv, ScrapeTypeOK
  <1>4. \A n \in Name : samples'[n] = samples[n] \/ samples'[n] = Aged(samples[n])
    <2>1. CASE Tick
      BY <2>1, TickIs
    <2>2. CASE \E w \in Worker : Probe(w) \/ Sampled(w) \/ Persist(w)
      BY <2>2 DEF Probe, Sampled, Persist
    <2> QED BY <2>1, <2>2 DEF Quiet
  <1>5. \A w \in Worker : smp'[w].live
    <2>0. \A w \in Worker : smp[w] \in Sample /\ smp[w].live
      BY ScrapeInvIs
    <2>1. CASE Tick
      BY <2>0, <2>1, TickIs, OlderIs
    <2>2. ASSUME NEW w \in Worker, Probe(w) PROVE \A v \in Worker : smp'[v].live
      BY <2>0, <2>2 DEF Probe
    <2>3. ASSUME NEW w \in Worker, Sampled(w) PROVE \A v \in Worker : smp'[v].live
      <3>1. PICK r \in Rtt \cup {NoRtt}, k \in BOOLEAN : smp' = [smp EXCEPT ![w] = Taken(w, r, k)]
        BY <2>3 DEF Sampled, Outcomes, Kept
      <3>2. Taken(w, r, k).live
        BY <3>1, TakenType
      <3>3. smp \in [Worker -> Sample]
        BY ScrapeInvIs DEF TypeOK
      <3> QED BY <2>0, <3>1, <3>2, <3>3
    <2>4. ASSUME NEW w \in Worker, Persist(w) PROVE \A v \in Worker : smp'[v].live
      <3>1. smp' = [smp EXCEPT ![w] = NoSample(w)] /\ NoSample(w).live
        BY <2>4, NoSampleType DEF Persist
      <3>2. smp \in [Worker -> Sample]
        BY ScrapeInvIs DEF TypeOK
      <3> QED BY <2>0, <3>1, <3>2
    <2> QED BY <2>1, <2>2, <2>3, <2>4 DEF Quiet
  <1>6. ASSUME NEW n \in Name PROVE Session(samples'[n], sent'[n], received'[n], last'[n]) /\ Shown(n)'
    <2>1. samples[n] \in Series /\ Session(samples[n], sent[n], received[n], last[n]) /\ Shown(n)
      BY ScrapeInvIs
    <2>2. CASE samples'[n] = samples[n]
      BY <1>1, <2>1, <2>2 DEF Shown
    <2>3. CASE samples'[n] = Aged(samples[n])
      <3>1. Session(Aged(samples[n]), sent[n], received[n], last[n])
        BY <2>1, SessionAged
      <3>2. n \in todo => SnapFits(Aged(samples[n]), sent[n], received[n], snap[n])
        BY <2>1, PagesAged DEF Shown
      <3>3. page[n] # None => PageFits(Aged(samples[n]), sent[n], received[n], page[n])
        BY <2>1, PagesAged DEF Shown
      <3> QED BY <1>1, <2>1, <2>3, <3>1, <3>2, <3>3 DEF Shown
    <2> QED BY <1>4, <2>2, <2>3
  <1> QED BY <1>3, <1>5, <1>6 DEF ScrapeInv

\* What a step does that counts a sample x for the name n.
CountsFor(n, x) ==
    /\ samples' = [samples EXCEPT ![n] = Added(@, x)] /\ Count(n, x)
    /\ UNCHANGED <<smp, todo, snap, page>>

LEMMA CountedIs ==
  ASSUME ScrapeInv, NEW w \in Worker, Counted(w)
  PROVE  NameOf[w] \in Name /\ \E x \in Sample : x.live /\ CountsFor(NameOf[w], x)
  <1>1. NameOf[w] \in Name /\ smp[w] \in Sample /\ smp[w].live
    BY ScrapeInvIs
  <1>2. UNCHANGED <<todo, snap, page>>
    BY DEF Counted, collector
  <1>3. CASE AddPing(w) /\ Count(NameOf[w], smp[w])
    <2>1. CountsFor(NameOf[w], smp[w])
      BY <1>2, <1>3 DEF AddPing, CountsFor
    <2> QED BY <1>1, <2>1
  <1>4. CASE Unresolved(w) /\ Count(NameOf[w], Taken(w, NoRtt, FALSE))
    <2>1. Taken(w, NoRtt, FALSE) \in Sample /\ Taken(w, NoRtt, FALSE).live
      BY TakenType
    <2>2. CountsFor(NameOf[w], Taken(w, NoRtt, FALSE))
      BY <1>2, <1>4 DEF Unresolved, CountsFor
    <2> QED BY <1>1, <2>1, <2>2
  <1> QED BY <1>3, <1>4 DEF Counted

LEMMA CountIs ==
  ASSUME ScrapeInv, NEW n \in Name, NEW x \in Sample, CountsFor(n, x)
  PROVE  /\ sent' \in [Name -> 0 .. MaxSent] /\ received' \in [Name -> 0 .. MaxSent]
         /\ last' \in [Name -> Rtt \cup {NoRtt}]
         /\ samples'[n] = Added(samples[n], x) /\ sent'[n] = sent[n] + 1
         /\ received'[n] = (IF Ok(x) THEN received[n] + 1 ELSE received[n])
         /\ last'[n] = (IF Ok(x) THEN x.rtt ELSE last[n])
         /\ \A k \in Name : k # n => /\ samples'[k] = samples[k] /\ sent'[k] = sent[k]
                                     /\ received'[k] = received[k] /\ last'[k] = last[k]
  <1>1. /\ sent \in [Name -> 0 .. MaxSent] /\ received \in [Name -> 0 .. MaxSent]
        /\ last \in [Name -> Rtt \cup {NoRtt}] /\ TypeOK
    BY DEF ScrapeInv, ScrapeTypeOK
  <1>2. sent[n] \in Nat /\ received[n] \in Nat /\ received[n] <= sent[n] /\ last[n] \in Rtt \cup {NoRtt}
    BY ScrapeInvIs
  <1>3. /\ sent[n] < MaxSent
        /\ sent' = [sent EXCEPT ![n] = @ + 1]
        /\ received' = [received EXCEPT ![n] = IF Ok(x) THEN @ + 1 ELSE @]
        /\ last' = [last EXCEPT ![n] = IF Ok(x) THEN x.rtt ELSE @]
        /\ samples' = [samples EXCEPT ![n] = Added(@, x)]
    BY DEF CountsFor, Count
  <1>4. sent[n] + 1 \in 0 .. MaxSent /\ received[n] + 1 \in 0 .. MaxSent /\ received[n] \in 0 .. MaxSent
    BY <1>2, <1>3, ScrapeAssumption
  <1>5. x.rtt \in Rtt \cup {NoRtt}
    BY SampleType
  <1>6. sent' \in [Name -> 0 .. MaxSent] /\ sent'[n] = sent[n] + 1 /\ \A k \in Name : k # n => sent'[k] = sent[k]
    BY <1>1, <1>3, <1>4
  <1>7. /\ received' \in [Name -> 0 .. MaxSent] /\ received'[n] = (IF Ok(x) THEN received[n] + 1 ELSE received[n])
        /\ \A k \in Name : k # n => received'[k] = received[k]
    BY <1>1, <1>3, <1>4
  <1>8. /\ last' \in [Name -> Rtt \cup {NoRtt}] /\ last'[n] = (IF Ok(x) THEN x.rtt ELSE last[n])
        /\ \A k \in Name : k # n => last'[k] = last[k]
    BY <1>1, <1>2, <1>3, <1>5
  <1>9. samples'[n] = Added(samples[n], x) /\ \A k \in Name : k # n => samples'[k] = samples[k]
    BY <1>1, <1>3, AddSeries
  <1> QED BY <1>6, <1>7, <1>8, <1>9

LEMMA CountedInv ==
  ASSUME ScrapeInv, NEW w \in Worker, Counted(w)
  PROVE  ScrapeInv'
  <1> DEFINE n == NameOf[w]
  <1>1. PICK x \in Sample : x.live /\ CountsFor(n, x)
    BY CountedIs
  <1>2. n \in Name
    BY CountedIs
  <1>3. UNCHANGED <<smp, todo, snap, page>>
    BY <1>1 DEF CountsFor
  <1>4. TypeOK'
    <2>1. [ScrapeNext]_scrapeVars
      BY DEF ScrapeNext
    <2> QED BY <2>1, ScrapeStep, ScrapeInvIs, NextType
  <1> HIDE DEF n
  <1>5. ScrapeTypeOK'
    BY <1>1, <1>2, <1>3, <1>4, CountIs DEF ScrapeInv, ScrapeTypeOK
  <1>6. \A v \in Worker : smp'[v].live
    BY <1>3, ScrapeInvIs
  <1>7. ASSUME NEW k \in Name PROVE Session(samples'[k], sent'[k], received'[k], last'[k]) /\ Shown(k)'
    <2>1. CASE k # n
      <3>1. /\ samples'[k] = samples[k] /\ sent'[k] = sent[k] /\ received'[k] = received[k] /\ last'[k] = last[k]
        BY <1>1, <1>2, <2>1, CountIs
      <3>2. Session(samples[k], sent[k], received[k], last[k]) /\ Shown(k)
        BY ScrapeInvIs
      <3> QED BY <1>3, <3>1, <3>2 DEF Shown
    <2>2. CASE k = n
      <3> DEFINE s == samples[k]
                 se == sent[k]
                 re == received[k]
                 la == last[k]
                 re1 == IF Ok(x) THEN re + 1 ELSE re
                 la1 == IF Ok(x) THEN x.rtt ELSE la
      <3>1. /\ samples'[k] = Added(s, x) /\ sent'[k] = se + 1 /\ received'[k] = re1 /\ last'[k] = la1
        BY <1>1, <1>2, <2>2, CountIs
      <3>2. /\ s \in Series /\ se \in Nat /\ re \in Nat /\ la \in Rtt \cup {NoRtt}
            /\ Session(s, se, re, la) /\ Shown(k)
        BY ScrapeInvIs
      <3>3. page[k] # None => page[k] \in Page
        BY ScrapeInvIs
      <3>4. Session(Added(s, x), se + 1, re1, la1)
        <4> HIDE DEF s, se, re, la
        <4> QED BY <1>1, <3>2, SessionAdded
      <3>5. re1 \in {re, re + 1}
        OBVIOUS
      <3>6. k \in todo => SnapFits(Added(s, x), se + 1, re1, snap[k])
        <4>1. k \in todo => SnapFits(s, se, re, snap[k])
          BY <3>2 DEF Shown
        <4> HIDE DEF s, se, re, re1
        <4> QED BY <3>2, <3>5, <4>1, SnapAdded
      <3>7. page[k] # None => PageFits(Added(s, x), se + 1, re1, page[k])
        <4>1. page[k] # None => PageFits(s, se, re, page[k])
          BY <3>2 DEF Shown
        <4> HIDE DEF s, se, re, re1
        <4> QED BY <3>2, <3>3, <3>5, <4>1, PageAdded
      <3>8. page[k] # None /\ k \in todo =>
              Ahead(page[k].figures.sent, page[k].figures.recv, snap[k].sent, snap[k].recv)
        BY <3>2 DEF Shown
      <3> HIDE DEF s, se, re, la, re1, la1
      <3>9. Shown(k)'
        BY <1>3, <3>1, <3>6, <3>7, <3>8 DEF Shown
      <3> QED BY <3>1, <3>4, <3>9
    <2> QED BY <2>1, <2>2
  <1> QED BY <1>5, <1>6, <1>7 DEF ScrapeInv

LEMMA SnapshotInv ==
  ASSUME ScrapeInv, Snapshot
  PROVE  ScrapeInv'
  <1>1. /\ todo' = Name /\ snap' = [n \in Name |-> Derived(n)]
        /\ UNCHANGED <<vars, sent, received, last, page>>
    BY DEF Snapshot, totals
  <1>2. UNCHANGED <<samples, smp>> /\ TypeOK'
    BY <1>1, ScrapeInvIs, NextType DEF vars, worker
  <1>3. ASSUME NEW n \in Name
        PROVE  /\ Derived(n) \in Figures /\ Derived(n).sent = sent[n] /\ Derived(n).recv = received[n]
               /\ Derived(n).ok <= InHistogram(samples[n]) /\ sent[n] \in Nat /\ received[n] \in Nat
               /\ received[n] <= sent[n] /\ InHistogram(samples[n]) \in Nat /\ Derived(n).ok \in Nat
    <2>1. sent[n] \in 0 .. MaxSent /\ received[n] \in 0 .. MaxSent
      BY DEF ScrapeInv, ScrapeTypeOK
    <2>2. samples[n] \in Series /\ sent[n] \in Nat /\ received[n] \in Nat /\ received[n] <= sent[n]
      BY ScrapeInvIs
    <2> DEFINE c == Cardinality(OkOf(samples[n]))
    <2>3. c \in 0 .. RingCap /\ c <= InHistogram(samples[n]) /\ InHistogram(samples[n]) \in Nat
      BY <2>2, SeriesIs, KindsOf DEF InHistogram
    <2>4. Derived(n) = [sent |-> sent[n], recv |-> received[n], ok |-> c]
      BY DEF Derived, SentShown
    <2> HIDE DEF c
    <2>5. c \in Nat
      BY <2>3, Sizes
    <2> QED BY <2>1, <2>2, <2>3, <2>4, <2>5 DEF Figures
  <1>4. ScrapeTypeOK'
    <2>1. snap' \in [Name -> Figures \cup {None}]
      BY <1>1, <1>3
    <2> QED BY <1>1, <1>2, <2>1 DEF ScrapeInv, ScrapeTypeOK
  <1>5. \A w \in Worker : smp'[w].live
    BY <1>2, ScrapeInvIs
  <1>6. ASSUME NEW n \in Name PROVE Session(samples'[n], sent'[n], received'[n], last'[n]) /\ Shown(n)'
    <2>1. Session(samples[n], sent[n], received[n], last[n]) /\ Shown(n)
      BY ScrapeInvIs
    <2> DEFINE f == Derived(n)
    <2>2. snap'[n] = f
      BY <1>1
    <2>3. /\ f \in Figures /\ f.sent = sent[n] /\ f.recv = received[n] /\ f.ok <= InHistogram(samples[n])
          /\ sent[n] \in Nat /\ received[n] \in Nat /\ received[n] <= sent[n] /\ InHistogram(samples[n]) \in Nat
          /\ f.ok \in Nat
      BY <1>3
    <2> HIDE DEF f
    <2>4. SnapFits(samples[n], sent[n], received[n], f)
      BY <2>3 DEF SnapFits, Ahead
    <2>5. page[n] # None => PageFits(samples[n], sent[n], received[n], page[n])
      BY <2>1 DEF Shown
    <2>6. page[n] # None => Ahead(page[n].figures.sent, page[n].figures.recv, f.sent, f.recv)
      BY <2>3, <2>5 DEF PageFits
    <2> QED BY <1>1, <1>2, <2>1, <2>2, <2>4, <2>5, <2>6 DEF Shown
  <1> QED BY <1>4, <1>5, <1>6 DEF ScrapeInv

LEMMA EmitIs ==
  ASSUME ScrapeInv, NEW n \in Name, Emit(n)
  PROVE  /\ n \in todo /\ todo' = todo \ {n}
         /\ UNCHANGED <<vars, sent, received, last>> /\ snap' = [snap EXCEPT ![n] = None]
         /\ page'[n] = [figures |-> snap[n], count |-> InHistogram(samples[n]), since |-> sent[n] - snap[n].sent]
         /\ page'[n] \in Page /\ page' \in [Name -> Page \cup {None}]
         /\ PageFits(samples[n], sent[n], received[n], page'[n])
         /\ \A k \in Name : k # n => page'[k] = page[k]
  <1> DEFINE s == samples[n]
             f == snap[n]
             p == [figures |-> f, count |-> InHistogram(s), since |-> sent[n] - f.sent]
  <1>1. /\ n \in todo /\ todo' = todo \ {n}
        /\ UNCHANGED <<vars, sent, received, last>> /\ snap' = [snap EXCEPT ![n] = None]
        /\ page' = [page EXCEPT ![n] = p]
    BY DEF Emit, totals, InHistogram
  <1>2. s \in Series /\ sent[n] \in Nat /\ sent[n] <= MaxSent /\ received[n] \in Nat
    BY ScrapeInvIs
  <1>3. SnapFits(s, sent[n], received[n], f)
    BY <1>1, ScrapeInvIs DEF Shown
  <1>4. f \in Figures /\ f.sent \in Nat /\ f.recv \in Nat /\ f.ok \in Nat
    BY <1>3, FiguresAre DEF SnapFits
  <1>5. InHistogram(s) \in 0 .. RingCap /\ InHistogram(s) \in Nat
    BY <1>2, SeriesIs
  <1>6. page \in [Name -> Page \cup {None}]
    BY DEF ScrapeInv, ScrapeTypeOK
  <1> HIDE DEF s, f
  <1>7. sent[n] - f.sent \in 0 .. MaxSent
    BY <1>2, <1>3, <1>4, ScrapeAssumption DEF SnapFits, Ahead
  <1>8. p \in Page
    BY <1>4, <1>5, <1>7 DEF Page
  <1>9. PageFits(s, sent[n], received[n], p)
    BY <1>3, <1>5 DEF SnapFits, PageFits, Ahead
  <1>10. p = [figures |-> f, count |-> InHistogram(s), since |-> sent[n] - f.sent]
    OBVIOUS
  <1> HIDE DEF p
  <1>11. page'[n] = p /\ page' \in [Name -> Page \cup {None}] /\ \A k \in Name : k # n => page'[k] = page[k]
    BY <1>1, <1>6, <1>8
  <1> QED BY <1>1, <1>8, <1>9, <1>10, <1>11 DEF s, f

LEMMA EmitInv ==
  ASSUME ScrapeInv, NEW n \in Name, Emit(n)
  PROVE  ScrapeInv'
  <1>1. /\ todo' = todo \ {n} /\ UNCHANGED <<vars, sent, received, last>> /\ snap' = [snap EXCEPT ![n] = None]
        /\ page' \in [Name -> Page \cup {None}]
        /\ PageFits(samples[n], sent[n], received[n], page'[n])
        /\ \A k \in Name : k # n => page'[k] = page[k]
    BY EmitIs
  <1>2. UNCHANGED <<samples, smp>> /\ TypeOK'
    BY <1>1, ScrapeInvIs, NextType DEF vars, worker
  <1>3. ScrapeTypeOK'
    BY <1>1, <1>2 DEF ScrapeInv, ScrapeTypeOK
  <1>4. \A w \in Worker : smp'[w].live
    BY <1>2, ScrapeInvIs
  <1>5. ASSUME NEW k \in Name PROVE Session(samples'[k], sent'[k], received'[k], last'[k]) /\ Shown(k)'
    <2>1. Session(samples[k], sent[k], received[k], last[k]) /\ Shown(k)
      BY ScrapeInvIs
    <2>2. CASE k = n
      BY <1>1, <1>2, <2>1, <2>2 DEF Shown
    <2>3. CASE k # n
      <3>1. snap'[k] = snap[k] /\ page'[k] = page[k] /\ (k \in todo' <=> k \in todo)
        BY <1>1, <2>3 DEF ScrapeInv, ScrapeTypeOK
      <3> QED BY <1>1, <1>2, <2>1, <3>1 DEF Shown
    <2> QED BY <2>2, <2>3
  <1> QED BY <1>3, <1>4, <1>5 DEF ScrapeInv

LEMMA ScrapeNextInv == ScrapeInv /\ [ScrapeNext]_scrapeVars => ScrapeInv'
  <1> SUFFICES ASSUME ScrapeInv, [ScrapeNext]_scrapeVars PROVE ScrapeInv'
    OBVIOUS
  <1>1. CASE UNCHANGED scrapeVars
    <2>1. TypeOK'
      BY ScrapeStep, ScrapeInvIs, NextType
    <2>2. UNCHANGED <<samples, smp, sent, received, last, todo, snap, page>>
      BY <1>1 DEF scrapeVars, vars, worker
    <2>3. ScrapeTypeOK'
      BY <2>1, <2>2 DEF ScrapeInv, ScrapeTypeOK
    <2> QED BY <2>2, <2>3 DEF ScrapeInv, Shown
  <1> QED BY <1>1, FreshInv, QuietInv, CountedInv, SnapshotInv, EmitInv DEF ScrapeNext

(***************************************************************************)
(* What a scrape shows.                                                    *)
(***************************************************************************)

\* Counting the totals and collecting them changes nothing of the series, the log or
\* the workers: every behaviour of Scrape is one of PingStore, whose theorems hold here.
THEOREM ScrapesArePingStores == ScrapeSpec => Spec
  <1>1. ScrapeInit => Init
    BY DEF ScrapeInit
  <1> QED BY <1>1, ScrapeStep, PTL DEF ScrapeSpec, Spec

LEMMA ScrapeAlways == ScrapeSpec => []ScrapeInv
  BY ScrapeInitInv, ScrapeNextInv, PTL DEF ScrapeSpec

\* The totals, the snapshot and the pages keep their types: a page never tells of more
\* samples than came, nor less than none since its snapshot (collectors.go:51-77).
THEOREM ScrapeTypes == ScrapeSpec => []ScrapeTypeOK
  <1>1. ScrapeInv => ScrapeTypeOK
    BY DEF ScrapeInv
  <1> QED BY <1>1, ScrapeAlways, PTL

\* The rollups count exactly the retained samples of the window, as of what the run
\* scrape checks, if no two targets have one name and no kill turns the log round.
THEOREM WindowIsWholeHere == ASSUME OwnNames, Kills = FALSE PROVE ScrapeSpec => []RollupIsWindow
  BY WindowIsWhole, ScrapesArePingStores, PTL

LEMMA AddsUp ==
  ASSUME NEW s \in Series, NEW se \in Nat, NEW re, NEW la, Session(s, se, re, la)
  PROVE  LET live == {i \in DOMAIN s : s[i].live}
             ok   == live \cap Answers(s)
         IN  /\ Cardinality(live) = (IF se < RingCap THEN se ELSE RingCap)
             /\ \A i \in live : (i .. Len(s)) \subseteq live
             /\ se <= RingCap => re = Cardinality(ok)
             /\ ok # {} => la = s[Max(ok)].rtt
             /\ re = 0 <=> la = NoRtt
  <1> DEFINE live == {i \in DOMAIN s : s[i].live}
             ok == live \cap Answers(s)
             m == Len(s)
             k == Least(se, RingCap)
  <1>1. m \in Nat /\ DOMAIN s = 1 .. m /\ k \in Nat /\ k <= m
    BY SeriesIs, LeastIs DEF Session, LiveLast
  <1>2. live = m - k + 1 .. m
    <2>1. \A i \in 1 .. m : s[i].live <=> i > m - k
      BY <1>1 DEF Session, LiveLast
    <2>2. \A i : i \in live <=> i \in 1 .. m /\ i > m - k
      BY <1>1, <2>1
    <2> HIDE DEF live, m, k
    <2>3. \A i : (i \in 1 .. m /\ i > m - k) <=> i \in m - k + 1 .. m
      BY <1>1
    <2> QED BY <2>2, <2>3
  <1>3. ok = LiveOk(s)
    BY DEF LiveOk, Answers
  <1> HIDE DEF live, ok
  <1>4. Cardinality(live) = (IF se < RingCap THEN se ELSE RingCap)
    <2>1. Cardinality(m - k + 1 .. m) = k
      <3> HIDE DEF m, k
      <3>1. (m - k + 1 > m) => k = 0
        BY <1>1
      <3>2. Cardinality(m - k + 1 .. m) = IF m - k + 1 > m THEN 0 ELSE m - (m - k + 1) + 1
        BY <1>1, FS_Interval
      <3> QED BY <1>1, <3>2
    <2>2. k = IF se < RingCap THEN se ELSE RingCap
      BY DEF Least
    <2> HIDE DEF k, m
    <2> QED BY <1>2, <2>1, <2>2
  <1>5. ASSUME NEW i \in live PROVE i .. m \subseteq live
    <2> HIDE DEF m, k
    <2> QED BY <1>1, <1>2
  <1>6. ok # {} => la = s[Max(ok)].rtt
    <2> SUFFICES ASSUME ok # {} PROVE la = s[Max(ok)].rtt
      OBVIOUS
    <2>1. ok \subseteq 1 .. m
      BY <1>1, <1>3 DEF LiveOk
    <2> HIDE DEF m
    <2>2. Max(ok) \in ok /\ \A j \in ok : j <= Max(ok)
      BY <1>1, <2>1, GreatestOfSet
    <2> QED BY <1>3, <2>2 DEF Session
  <1>7. (se <= RingCap => re = Cardinality(ok)) /\ (re = 0 <=> la = NoRtt)
    BY <1>3 DEF Session
  <1> QED BY <1>4, <1>5, <1>6, <1>7 DEF live, ok

\* The totals are those of this session and fit the series, whatever was replayed into
\* it and has fallen out of it, however often the process restarts and with any workers
\* of one name: the live samples are the last of the series, as many as were sent up to
\* the capacity (store.go:124-170).
THEOREM TotalsFit == ScrapeSpec => []SessionAddsUp
  <1>1. ScrapeInv => SessionAddsUp
    <2> SUFFICES ASSUME ScrapeInv PROVE SessionAddsUp
      OBVIOUS
    <2>1. \A n \in Name : /\ samples[n] \in Series /\ sent[n] \in Nat
                          /\ Session(samples[n], sent[n], received[n], last[n])
      BY ScrapeInvIs
    <2> QED BY <2>1, AddsUp DEF SessionAddsUp
  <1> QED BY <1>1, ScrapeAlways, PTL

\* The series of one target in one scrape hold together, whatever comes between the
\* lock of the snapshot and that of the histogram (collectors.go:51-77,
\* store.go:261-319, 353-380).
THEOREM PagesHold == ScrapeSpec => []PageHoldsTogether
  <1>1. ScrapeInv => PageHoldsTogether
    <2> SUFFICES ASSUME ScrapeInv, NEW n \in Name, page[n] # None
                 PROVE  LET f == page[n].figures
                        IN  f.recv <= f.sent /\ f.ok <= page[n].count + page[n].since
      BY DEF PageHoldsTogether
    <2>1. PageFits(samples[n], sent[n], received[n], page[n])
      BY ScrapeInvIs DEF Shown
    <2> QED BY <2>1 DEF PageFits
  <1> QED BY <1>1, ScrapeAlways, PTL

\* Counters count: no total falls from one scrape of a process to the next, no more
\* answers are added than probes, and the histogram loses only what a full series drops
\* (collectors.go:66-67, 74-77).
THEOREM CountersRun == ScrapeSpec => CountersRunForward
  <1> DEFINE Runs(n) ==
        LET old == page[n].figures
            new == page'[n].figures
        IN  /\ old.sent <= new.sent /\ old.recv <= new.recv
            /\ new.recv - old.recv <= new.sent - old.sent
            /\ page'[n].count < page[n].count => Len(samples[n]) = RingCap
  <1>1. ASSUME ScrapeInv, NEW n \in Name, page[n] # None, page'[n] = page[n]
        PROVE  Runs(n)
    <2>1. page[n] \in Page
      BY <1>1, ScrapeInvIs
    <2> DEFINE f == page[n].figures
    <2>2. f.sent \in Nat /\ f.recv \in Nat /\ page[n].count \in Nat
      BY <2>1, PageIs, FiguresAre
    <2> QED BY <1>1, <2>2
  <1>2. ASSUME ScrapeInv, NEW n \in Name, Emit(n), page[n] # None
        PROVE  Runs(n)
    <2>1. /\ page'[n].figures = snap[n] /\ page'[n].count = InHistogram(samples[n]) /\ n \in todo
          /\ page'[n] \in Page
      <3>1. /\ n \in todo /\ page'[n] \in Page
            /\ page'[n] = [figures |-> snap[n], count |-> InHistogram(samples[n]), since |-> sent[n] - snap[n].sent]
        BY <1>2, EmitIs
      <3> QED BY <3>1
    <2>2. Ahead(page[n].figures.sent, page[n].figures.recv, snap[n].sent, snap[n].recv)
      BY <1>2, <2>1, ScrapeInvIs DEF Shown
    <2>3. page[n].count <= InHistogram(samples[n]) \/ Len(samples[n]) = RingCap
      BY <1>2, ScrapeInvIs DEF Shown, PageFits
    <2>4. page[n].count \in Nat /\ page'[n].count \in Nat
      BY <1>2, <2>1, ScrapeInvIs, PageIs
    <2>5. page'[n].count < page[n].count => Len(samples[n]) = RingCap
      BY <2>1, <2>3, <2>4
    <2> QED BY <2>1, <2>2, <2>5 DEF Ahead
  <1>3. ScrapeInv /\ [ScrapeNext]_scrapeVars =>
          [\A n \in Name : page[n] # None /\ page'[n] # None => Runs(n)]_page
    <2> SUFFICES ASSUME ScrapeInv, [ScrapeNext]_scrapeVars, NEW n \in Name, page[n] # None, page'[n] # None,
                        page' # page
                 PROVE  Runs(n)
      OBVIOUS
    <2>1. CASE Fresh
      <3>1. page'[n] = None
        BY <2>1 DEF Fresh
      <3> QED BY <3>1
    <2>2. CASE Quiet \/ (\E w \in Worker : Counted(w)) \/ Snapshot \/ UNCHANGED scrapeVars
      <3>1. page' = page
        BY <2>2 DEF Quiet, Counted, Snapshot, collector, scrapeVars
      <3> QED BY <3>1
    <2>3. ASSUME NEW k \in Name, Emit(k) PROVE Runs(n)
      <3>1. CASE k = n
        BY <1>2, <2>3, <3>1
      <3>2. CASE k # n
        <4>1. page'[n] = page[n]
          BY <2>3, <3>2, EmitIs
        <4> QED BY <1>1, <4>1
      <3> QED BY <3>1, <3>2
    <2> QED BY <2>1, <2>2, <2>3 DEF ScrapeNext
  <1> QED BY <1>3, ScrapeAlways, PTL DEF ScrapeSpec, CountersRunForward

(***************************************************************************)
(* The figures of the rollup: the order of the round-trip times, and what  *)
(* they add up to.                                                         *)
(***************************************************************************)

UpTo(rtts, r)  == {i \in DOMAIN rtts : rtts[i] <= r}
Below(rtts, r) == {i \in DOMAIN rtts : rtts[i] < r}

LEMMA TimesAre ==
  ASSUME NEW rtts \in Seq(Nat)
  PROVE  /\ Len(rtts) \in Nat /\ DOMAIN rtts = 1 .. Len(rtts) /\ \A i \in DOMAIN rtts : rtts[i] \in Nat
         /\ IsFiniteSet(DOMAIN rtts) /\ Cardinality(DOMAIN rtts) = Len(rtts)
         /\ Range(rtts) = {rtts[i] : i \in DOMAIN rtts}
         /\ \A r : /\ IsFiniteSet(UpTo(rtts, r)) /\ Cardinality(UpTo(rtts, r)) \in Nat
                   /\ IsFiniteSet(Below(rtts, r)) /\ Cardinality(Below(rtts, r)) \in Nat
  <1>1. Len(rtts) \in Nat /\ DOMAIN rtts = 1 .. Len(rtts) /\ \A i \in DOMAIN rtts : rtts[i] \in Nat
    OBVIOUS
  <1>2. IsFiniteSet(DOMAIN rtts) /\ Cardinality(DOMAIN rtts) = Len(rtts)
    <2> DEFINE n == Len(rtts)
    <2>1. n \in Nat /\ 1 \in Int /\ n \in Int
      BY <1>1
    <2> HIDE DEF n
    <2>2. IsFiniteSet(1 .. n) /\ Cardinality(1 .. n) = (IF 1 > n THEN 0 ELSE n - 1 + 1)
      BY <2>1, FS_Interval
    <2>3. Cardinality(1 .. n) = n
      BY <2>1, <2>2
    <2> QED BY <1>1, <2>2, <2>3 DEF n
  <1>3. \A r : UpTo(rtts, r) \subseteq DOMAIN rtts /\ Below(rtts, r) \subseteq DOMAIN rtts
    BY DEF UpTo, Below
  <1>4. \A r : IsFiniteSet(UpTo(rtts, r)) /\ IsFiniteSet(Below(rtts, r))
    BY <1>2, <1>3, FS_Subset
  <1>5. \A r : Cardinality(UpTo(rtts, r)) \in Nat /\ Cardinality(Below(rtts, r)) \in Nat
    BY <1>4, FS_CardinalityType
  <1>6. Range(rtts) = {rtts[i] : i \in DOMAIN rtts}
    BY DEF Range
  <1> QED BY <1>1, <1>2, <1>4, <1>5, <1>6

\* Of some of the times one is the greatest.
LEMMA GreatestTime ==
  ASSUME NEW rtts \in Seq(Nat), NEW L, L \subseteq DOMAIN rtts, L # {}
  PROVE  \E m \in L : \A j \in L : rtts[j] <= rtts[m]
  <1> DEFINE n == Len(rtts)
             M(b) == {i \in L : i <= b}
             Top(b, m) == m \in M(b) /\ \A j \in M(b) : rtts[j] <= rtts[m]
             Bad == {b \in 0 .. n : M(b) # {} /\ ~ \E m : Top(b, m)}
  <1>1. n \in Nat /\ L \subseteq 1 .. n /\ \A i \in L : rtts[i] \in Nat
    BY TimesAre
  <1>2. M(n) = L
    <2> HIDE DEF n
    <2> QED BY <1>1
  <1>0. \A b \in 0 .. n : b \notin Bad => M(b) = {} \/ \E m : Top(b, m)
    OBVIOUS
  <1>3. Bad = {}
    <2> SUFFICES ASSUME Bad # {} PROVE FALSE
      OBVIOUS
    <2>1. PICK b \in Bad : \A c \in Bad : b <= c
      <3>1. Bad \subseteq Nat
        BY <1>1
      <3> HIDE DEF Bad
      <3> QED BY <3>1, LeastOfNats
    <2> HIDE DEF n
    <2>2. b \in 0 .. n /\ M(b) # {} /\ ~ \E m : Top(b, m)
      BY <2>1
    <2>3. b \in Nat /\ b # 0 /\ b - 1 \in 0 .. n
      BY <1>1, <2>2
    <2>4. M(b - 1) = {} \/ \E m : Top(b - 1, m)
      <3>1. ~(b <= b - 1)
        BY <2>3
      <3>2. b - 1 \notin Bad
        <4> HIDE DEF Bad
        <4> QED BY <2>1, <3>1
      <3> HIDE DEF Top, M, Bad
      <3> QED BY <1>0, <2>3, <3>2
    <2>5. \A i \in L : i \in M(b) <=> i = b \/ i \in M(b - 1)
      <3> SUFFICES ASSUME NEW i \in L PROVE i \in M(b) <=> i = b \/ i \in M(b - 1)
        OBVIOUS
      <3>1. i \in 1 .. n /\ n \in Nat
        BY <1>1
      <3>2. i \in Nat /\ b \in Nat
        BY <2>3, <3>1
      <3>3. (i <= b) <=> (i = b \/ i <= b - 1)
        <4> HIDE DEF M, Top, Bad
        <4> QED BY <3>2
      <3> QED BY <3>3
    <2>6. \A i : (i \in M(b) => i \in L) /\ (i \in M(b - 1) => i \in L)
      OBVIOUS
    <2> HIDE DEF M
    <2>7. CASE b \notin L
      <3>1. M(b) = M(b - 1)
        BY <2>5, <2>6, <2>7
      <3> QED BY <2>2, <2>4, <3>1
    <2>8. CASE b \in L
      <3>0. b \in M(b) /\ rtts[b] \in Nat
        BY <1>1, <2>5, <2>8
      <3>1. CASE M(b - 1) = {}
        <4>0. \A i : i \in M(b) <=> i = b
          BY <2>5, <2>6, <3>0, <3>1
        <4>1. M(b) = {b}
          BY <4>0
        <4>2. Top(b, b)
          BY <3>0, <4>1
        <4> QED BY <2>2, <4>2
      <3>2. CASE \E m : Top(b - 1, m)
        <4>1. PICK m : Top(b - 1, m)
          BY <3>2
        <4>2. m \in M(b) /\ rtts[m] \in Nat /\ \A j \in M(b - 1) : rtts[j] <= rtts[m] /\ rtts[j] \in Nat
          BY <1>1, <2>5, <2>6, <4>1
        <4>3. Top(b, m) \/ Top(b, b)
          <5>1. CASE rtts[b] <= rtts[m]
            <6>1. \A j \in M(b) : rtts[j] <= rtts[m]
              BY <2>5, <2>6, <4>2, <5>1
            <6> QED BY <4>2, <6>1
          <5>2. CASE rtts[m] <= rtts[b]
            <6>1. ASSUME NEW j \in M(b) PROVE rtts[j] <= rtts[b]
              <7>1. j = b \/ j \in M(b - 1)
                BY <2>5, <2>6
              <7>2. CASE j \in M(b - 1)
                <8>1. rtts[j] <= rtts[m] /\ rtts[j] \in Nat
                  BY <4>2, <7>2
                <8> QED BY <3>0, <4>2, <5>2, <8>1
              <7>3. CASE j = b
                <8>1. rtts[b] <= rtts[b]
                  BY <3>0
                <8> QED BY <7>3, <8>1
              <7> QED BY <7>1, <7>2, <7>3
            <6> QED BY <3>0, <6>1
          <5> QED BY <3>0, <4>2, <5>1, <5>2
        <4> QED BY <2>2, <4>3
      <3> QED BY <2>4, <3>1, <3>2
    <2> QED BY <2>7, <2>8
  <1>4. n \in 0 .. n /\ n \notin Bad
    <2> HIDE DEF n, Bad
    <2> QED BY <1>1, <1>3
  <1>5. \E m : Top(n, m)
    <2>1. M(n) # {}
      BY <1>2
    <2> HIDE DEF Top, M, n, Bad
    <2> QED BY <1>0, <1>4, <2>1
  <1>6. PICK m : Top(n, m)
    BY <1>5
  <1> HIDE DEF n, M
  <1> QED BY <1>2, <1>6

LEMMA SmallestIs ==
  ASSUME NEW rtts \in Seq(Nat), NEW k \in 1 .. Len(rtts)
  PROVE  /\ Smallest(rtts, k) \in Nat
         /\ Cardinality(Below(rtts, Smallest(rtts, k))) < k
         /\ Cardinality(UpTo(rtts, Smallest(rtts, k))) >= k
  <1> DEFINE n == Len(rtts)
             T == {r \in Range(rtts) : Cardinality(UpTo(rtts, r)) >= k}
  <1>1. /\ n \in Nat /\ DOMAIN rtts = 1 .. n /\ (\A i \in DOMAIN rtts : rtts[i] \in Nat)
        /\ IsFiniteSet(DOMAIN rtts) /\ Cardinality(DOMAIN rtts) = n
        /\ Range(rtts) = {rtts[i] : i \in DOMAIN rtts}
        /\ \A r : /\ IsFiniteSet(UpTo(rtts, r)) /\ Cardinality(UpTo(rtts, r)) \in Nat
                  /\ IsFiniteSet(Below(rtts, r)) /\ Cardinality(Below(rtts, r)) \in Nat
    BY TimesAre
  <1>2. k \in Nat /\ 1 <= k /\ k <= n
    BY <1>1
  <1>3. T # {}
    <2>1. DOMAIN rtts # {}
      BY <1>1, <1>2
    <2>2. PICK m \in DOMAIN rtts : \A j \in DOMAIN rtts : rtts[j] <= rtts[m]
      BY <2>1, GreatestTime
    <2>3. UpTo(rtts, rtts[m]) = DOMAIN rtts
      BY <2>2 DEF UpTo
    <2>4. Cardinality(UpTo(rtts, rtts[m])) >= k
      BY <1>1, <1>2, <2>3
    <2> QED BY <1>1, <2>2, <2>4
  <1>4. PICK r \in T : \A q \in T : r <= q
    <2>1. T \subseteq Nat
      BY <1>1
    <2> HIDE DEF T
    <2> QED BY <1>3, <2>1, LeastOfNats
  <1>5. r \in Nat /\ r \in Range(rtts) /\ Cardinality(UpTo(rtts, r)) >= k
    BY <1>1, <1>4
  <1>6. Cardinality(Below(rtts, r)) < k
    <2> SUFFICES ASSUME ~(Cardinality(Below(rtts, r)) < k) PROVE FALSE
      OBVIOUS
    <2> DEFINE L == Below(rtts, r)
    <2>1. Cardinality(L) >= k /\ Cardinality(L) # 0
      BY <1>1, <1>2
    <2>2. L # {} /\ L \subseteq DOMAIN rtts
      BY <2>1, FS_EmptySet DEF Below
    <2>3. PICK m \in L : \A j \in L : rtts[j] <= rtts[m]
      <3> HIDE DEF L
      <3> QED BY <2>2, GreatestTime
    <2>4. m \in DOMAIN rtts /\ rtts[m] < r
      BY <2>3 DEF Below
    <2>5. UpTo(rtts, rtts[m]) = L
      BY <1>1, <1>5, <2>3, <2>4 DEF UpTo, Below
    <2>6. rtts[m] \in T
      BY <1>1, <2>1, <2>4, <2>5
    <2>7. r <= rtts[m] /\ rtts[m] \in Nat
      BY <1>1, <1>4, <2>4, <2>6
    <2> QED BY <1>5, <2>4, <2>7
  <1>7. Smallest(rtts, k) \in Range(rtts)
        /\ Cardinality(Below(rtts, Smallest(rtts, k))) < k /\ Cardinality(UpTo(rtts, Smallest(rtts, k))) >= k
    BY <1>5, <1>6 DEF Smallest, Below, UpTo
  <1> QED BY <1>1, <1>7

LEMMA SortedIs ==
  ASSUME NEW rtts \in Seq(Nat), Len(rtts) > 0
  PROVE  LET t == Sorted(rtts)
             n == Len(rtts)
         IN  /\ t \in Seq(Nat) /\ Len(t) = n
             /\ \A i, j \in 1 .. n : i <= j => t[i] <= t[j]
             /\ \A i \in 1 .. n : t[1] <= rtts[i] /\ rtts[i] <= t[n] /\ Cardinality(Below(rtts, t[i])) < i
  <1> DEFINE t == Sorted(rtts)
             n == Len(rtts)
  <1>1. /\ n \in Nat /\ DOMAIN rtts = 1 .. n /\ (\A i \in DOMAIN rtts : rtts[i] \in Nat)
        /\ IsFiniteSet(DOMAIN rtts) /\ Cardinality(DOMAIN rtts) = n
        /\ \A r : /\ IsFiniteSet(UpTo(rtts, r)) /\ Cardinality(UpTo(rtts, r)) \in Nat
                  /\ IsFiniteSet(Below(rtts, r)) /\ Cardinality(Below(rtts, r)) \in Nat
    BY TimesAre
  <1>2. t = [k \in 1 .. n |-> Smallest(rtts, k)]
    BY <1>1 DEF Sorted
  <1>3. \A k \in 1 .. n : /\ t[k] \in Nat /\ Cardinality(Below(rtts, t[k])) < k
                          /\ Cardinality(UpTo(rtts, t[k])) >= k
    BY <1>2, SmallestIs
  <1>4. t \in Seq(Nat) /\ Len(t) = n
    <2>1. t \in [1 .. n -> Nat]
      <3> HIDE DEF t, n
      <3> QED BY <1>2, <1>3
    <2> HIDE DEF t, n
    <2> QED BY <1>1, <2>1
  <1> HIDE DEF t
  <1>5. ASSUME NEW i \in 1 .. n, NEW j \in 1 .. n, i <= j PROVE t[i] <= t[j]
    <2> SUFFICES ASSUME t[j] < t[i] PROVE FALSE
      BY <1>3
    <2> DEFINE A == UpTo(rtts, t[j])
               B == Below(rtts, t[i])
    <2>1. A \subseteq B
      <3> SUFFICES ASSUME NEW h \in A PROVE h \in B
        OBVIOUS
      <3>1. h \in DOMAIN rtts /\ rtts[h] <= t[j]
        BY DEF UpTo
      <3>2. rtts[h] \in Nat /\ t[j] \in Nat /\ t[i] \in Nat
        BY <1>1, <1>3, <3>1
      <3>3. rtts[h] < t[i]
        BY <3>1, <3>2
      <3> QED BY <3>1, <3>3 DEF Below
    <2>2. IsFiniteSet(B) /\ Cardinality(A) \in Nat /\ Cardinality(B) \in Nat
      BY <1>1
    <2>3. Cardinality(A) >= j /\ Cardinality(B) < i
      BY <1>3
    <2> HIDE DEF A, B
    <2>4. Cardinality(A) <= Cardinality(B)
      BY <2>1, <2>2, FS_Subset
    <2> QED BY <1>1, <1>5, <2>2, <2>3, <2>4
  <1>6. 1 \in 1 .. n /\ n \in 1 .. n
    <2> HIDE DEF n
    <2>1. n > 0
      BY DEF n
    <2> QED BY <1>1, <2>1
  <1>7. ASSUME NEW i \in 1 .. n PROVE t[1] <= rtts[i] /\ rtts[i] <= t[n]
    <2>1. Below(rtts, t[1]) = {}
      <3>1. Cardinality(Below(rtts, t[1])) = 0
        BY <1>1, <1>3, <1>6
      <3> QED BY <1>1, <3>1, FS_EmptySet
    <2>2. UpTo(rtts, t[n]) = DOMAIN rtts
      <3> DEFINE A == UpTo(rtts, t[n])
      <3>1. A \subseteq DOMAIN rtts
        BY DEF UpTo
      <3>2. Cardinality(A) >= n /\ Cardinality(A) \in Nat
        BY <1>1, <1>3, <1>6
      <3> HIDE DEF A, n
      <3>3. Cardinality(A) <= n /\ (n = Cardinality(A) => DOMAIN rtts = A)
        BY <1>1, <3>1, FS_Subset
      <3>4. n = Cardinality(A)
        BY <1>1, <3>2, <3>3
      <3> QED BY <3>3, <3>4 DEF A
    <2>3. i \in DOMAIN rtts /\ rtts[i] \in Nat /\ t[1] \in Nat
      BY <1>1, <1>3, <1>6
    <2> QED BY <2>1, <2>2, <2>3 DEF Below, UpTo
  <1> QED BY <1>3, <1>4, <1>5, <1>7 DEF t

\* Adding up the first n values of g one by one defines a function.
LEMMA SumExists ==
  ASSUME NEW n \in Nat, NEW g
  PROVE  \E f : f = [k \in 0 .. n |-> IF k = 0 THEN 0 ELSE f[k - 1] + g[k]]
  <1> DEFINE Adding(f, k) == IF k = 0 THEN 0 ELSE f[k - 1] + g[k]
             Adds(f, k) == f = [i \in 0 .. k |-> Adding(f, i)]
             Bad == {k \in 0 .. n : ~ \E f : Adds(f, k)}
  <1> SUFFICES ASSUME Bad # {} PROVE FALSE
    <2>1. n \in 0 .. n
      OBVIOUS
    <2> QED BY <2>1
  <1>1. PICK m \in Bad : \A k \in Bad : m <= k
    <2>1. Bad \subseteq Nat
      OBVIOUS
    <2> HIDE DEF Bad
    <2> QED BY <2>1, LeastOfNats
  <1>2. m \in 0 .. n /\ ~ \E f : Adds(f, m)
    BY <1>1
  <1>3. m # 0
    <2> DEFINE z == [i \in 0 .. 0 |-> 0]
    <2>1. Adds(z, 0)
      OBVIOUS
    <2> HIDE DEF Adds, z
    <2> QED BY <1>2, <2>1
  <1>4. m - 1 \in 0 .. n /\ m - 1 \notin Bad
    <2> HIDE DEF Bad
    <2>1. m - 1 \in 0 .. n /\ ~(m <= m - 1)
      BY <1>2, <1>3
    <2> QED BY <1>1, <2>1
  <1>5. PICK f : Adds(f, m - 1)
    BY <1>4
  <1> DEFINE h == [i \in 0 .. m |-> IF i = m THEN f[m - 1] + g[m] ELSE f[i]]
  <1>6. \A i \in 0 .. m : h[i] = Adding(h, i)
    <2> SUFFICES ASSUME NEW i \in 0 .. m PROVE h[i] = Adding(h, i)
      OBVIOUS
    <2>1. CASE i = m
      <3>1. m - 1 \in 0 .. m /\ m - 1 # m /\ m \in 0 .. m
        BY <1>2, <1>3
      <3> QED BY <1>3, <2>1, <3>1
    <2>2. CASE i # m
      <3>1. i \in 0 .. m - 1 /\ (i # 0 => i - 1 \in 0 .. m /\ i - 1 # m)
        BY <1>2, <2>2
      <3>2. f[i] = Adding(f, i)
        <4> HIDE DEF Adding
        <4> QED BY <1>5, <3>1
      <3> QED BY <2>2, <3>1, <3>2
    <2> QED BY <2>1, <2>2
  <1>7. Adds(h, m)
    <2>1. h = [i \in 0 .. m |-> h[i]]
      OBVIOUS
    <2> HIDE DEF h, Adding
    <2> QED BY <1>6, <2>1
  <1> QED BY <1>2, <1>7

\* The sum of n times is between n times the least and n times the greatest of them.
LEMMA TotalIs ==
  ASSUME NEW rtts \in Seq(Nat), NEW lo \in Nat, NEW hi \in Nat,
         \A i \in DOMAIN rtts : lo <= rtts[i] /\ rtts[i] <= hi
  PROVE  Total(rtts) \in Nat /\ Len(rtts) * lo <= Total(rtts) /\ Total(rtts) <= Len(rtts) * hi
  <1> DEFINE n == Len(rtts)
             Adding(f, k) == IF k = 0 THEN 0 ELSE f[k - 1] + rtts[k]
             sum == CHOOSE f : f = [k \in 0 .. n |-> Adding(f, k)]
             Fits(k) == sum[k] \in Nat /\ k * lo <= sum[k] /\ sum[k] <= k * hi
             Bad == {k \in 0 .. n : ~Fits(k)}
  <1>1. n \in Nat /\ DOMAIN rtts = 1 .. n /\ \A i \in 1 .. n : rtts[i] \in Nat
    BY TimesAre
  <1>2. Total(rtts) = sum[n]
    BY DEF Total
  <1>3. sum = [k \in 0 .. n |-> Adding(sum, k)]
    <2>1. \E f : f = [k \in 0 .. n |-> Adding(f, k)]
      <3> HIDE DEF n
      <3> QED BY <1>1, SumExists
    <2> HIDE DEF Adding, n
    <2> QED BY <2>1
  <1> HIDE DEF n
  <1>4. \A k \in 0 .. n : sum[k] = Adding(sum, k)
    <2> HIDE DEF sum, Adding
    <2> QED BY <1>3
  <1> HIDE DEF sum
  <1>5. Bad = {}
    <2> SUFFICES ASSUME Bad # {} PROVE FALSE
      OBVIOUS
    <2>1. PICK b \in Bad : \A c \in Bad : b <= c
      <3>1. Bad \subseteq Nat
        BY <1>1
      <3> HIDE DEF Bad
      <3> QED BY <3>1, LeastOfNats
    <2>2. b \in 0 .. n /\ ~Fits(b)
      BY <2>1
    <2>3. b # 0
      <3>1. 0 \in 0 .. n /\ 0 * lo = 0 /\ 0 * hi = 0
        BY <1>1
      <3>2. sum[0] = 0
        BY <1>4, <3>1
      <3>3. Fits(0)
        BY <3>1, <3>2
      <3> HIDE DEF Fits
      <3> QED BY <2>2, <3>3
    <2>4. b \in Nat /\ b - 1 \in 0 .. n /\ b \in 1 .. n /\ b - 1 \in Nat
      BY <1>1, <2>2, <2>3
    <2>5. Fits(b - 1)
      <3>1. ~(b <= b - 1)
        BY <2>4
      <3>2. b - 1 \notin Bad
        <4> HIDE DEF Bad
        <4> QED BY <2>1, <3>1
      <3> HIDE DEF Fits
      <3> QED BY <2>4, <3>2
    <2> DEFINE p == sum[b - 1]
               c == b - 1
               v == rtts[b]
    <2>6. sum[b] = p + v
      BY <1>4, <2>2, <2>3
    <2>7. v \in Nat /\ lo <= v /\ v <= hi
      BY <1>1, <2>4
    <2>8. p \in Nat /\ c * lo <= p /\ p <= c * hi /\ c \in Nat
      BY <2>4, <2>5
    <2>9. b = c + 1
      BY <2>4
    <2> HIDE DEF p, c, v
    <2>10. b * lo = c * lo + lo /\ b * hi = c * hi + hi /\ c * lo \in Nat /\ c * hi \in Nat
      BY <2>8, <2>9
    <2>11. p + v \in Nat /\ c * lo + lo <= p + v /\ p + v <= c * hi + hi
      <3> DEFINE x == c * lo
                 y == c * hi
      <3>1. x \in Nat /\ y \in Nat /\ x <= p /\ p <= y
        BY <2>8, <2>10
      <3> HIDE DEF x, y
      <3>2. p + v \in Nat /\ x + lo <= p + v /\ p + v <= y + hi
        BY <2>7, <2>8, <3>1
      <3> QED BY <3>2 DEF x, y
    <2> QED BY <2>2, <2>6, <2>10, <2>11
  <1>6. n \in 0 .. n /\ n \notin Bad
    <2> HIDE DEF Bad
    <2> QED BY <1>1, <1>5
  <1>7. Fits(n)
    <2> HIDE DEF Fits
    <2> QED BY <1>6
  <1> QED BY <1>2, <1>7 DEF n

LEMMA MeanIs ==
  ASSUME NEW a \in Nat, NEW k \in Nat \ {0}, NEW lo \in Nat, NEW hi \in Nat, k * lo <= a, a <= k * hi
  PROVE  lo <= a \div k /\ a \div k <= hi
  <1> DEFINE q == a \div k
  <1>1. k * q <= a /\ a < k * q + k /\ q \in Nat
    OBVIOUS
  <1> HIDE DEF q
  <1>2. k * (q + 1) = k * q + k /\ k * (hi + 1) = k * hi + k
    BY <1>1
  <1>3. k * lo \in Nat /\ k * q \in Nat /\ k * hi \in Nat /\ k * (q + 1) \in Nat /\ k * (hi + 1) \in Nat
    BY <1>1
  <1>4. ASSUME NEW x \in Nat, NEW y \in Nat, k * x < k * y PROVE x < y
    <2> SUFFICES ASSUME y <= x PROVE FALSE
      OBVIOUS
    <2>1. k * y <= k * x /\ k * x \in Nat /\ k * y \in Nat
      OBVIOUS
    <2> QED BY <1>4, <2>1
  <1>5. lo < q + 1
    <2>1. k * lo < k * (q + 1)
      BY <1>1, <1>2, <1>3
    <2> QED BY <1>1, <1>4, <2>1
  <1>6. q < hi + 1
    <2>1. k * q < k * (hi + 1)
      BY <1>1, <1>2, <1>3
    <2> QED BY <1>1, <1>4, <2>1
  <1> QED BY <1>1, <1>5, <1>6 DEF q

\* Of a finite set of numbers, for each k one element has k - 1 others above it.
LEMMA FromTheEnd ==
  ASSUME NEW m \in Nat, NEW ok, ok \subseteq 1 .. m, NEW k \in 1 .. Cardinality(ok)
  PROVE  \E i \in ok : Cardinality({j \in ok : j >= i}) = k
  <1> DEFINE From(i) == {j \in ok : j >= i}
             T == {i \in 1 .. m : Cardinality(From(i)) >= k}
  <1>1. IsFiniteSet(ok) /\ Cardinality(ok) \in Nat /\ k \in Nat /\ k >= 1
    <2>1. IsFiniteSet(1 .. m)
      BY FS_Interval
    <2>2. IsFiniteSet(ok)
      BY <2>1, FS_Subset
    <2>3. Cardinality(ok) \in Nat
      BY <2>2, FS_CardinalityType
    <2> QED BY <2>2, <2>3
  <1>2. \A i : IsFiniteSet(From(i)) /\ Cardinality(From(i)) \in Nat
    <2>1. \A i : From(i) \subseteq ok
      OBVIOUS
    <2>2. \A i : IsFiniteSet(From(i))
      <3> HIDE DEF From
      <3> QED BY <1>1, <2>1, FS_Subset
    <2> HIDE DEF From
    <2> QED BY <2>2, FS_CardinalityType
  <1>3. ASSUME NEW i \in 1 .. m
        PROVE  Cardinality(From(i)) = (IF i \in ok THEN 1 ELSE 0) + Cardinality(From(i + 1))
    <2>1. \A j \in ok : j >= i <=> j = i \/ j >= i + 1
      <3> SUFFICES ASSUME NEW j \in ok PROVE (j >= i) <=> (j = i \/ j >= i + 1)
        OBVIOUS
      <3>1. j \in Nat /\ i \in Nat
        OBVIOUS
      <3> QED BY <3>1
    <2>2. i \notin From(i + 1)
      OBVIOUS
    <2>3. CASE i \in ok
      <3>0. \A j : j \in From(i) <=> j = i \/ j \in From(i + 1)
        BY <2>1, <2>3
      <3> HIDE DEF From
      <3>1. From(i) = From(i + 1) \cup {i}
        BY <3>0
      <3>2. Cardinality(From(i + 1) \cup {i}) = Cardinality(From(i + 1)) + 1
        BY <1>2, <2>2, FS_AddElement
      <3> QED BY <1>2, <2>3, <3>1, <3>2
    <2>4. CASE i \notin ok
      <3>0. \A j : j \in From(i) <=> j \in From(i + 1)
        BY <2>1, <2>4
      <3> HIDE DEF From
      <3>1. From(i) = From(i + 1)
        BY <3>0
      <3> QED BY <1>2, <2>4, <3>1
    <2> QED BY <2>3, <2>4
  <1>4. From(m + 1) = {} /\ From(1) = ok
    <2>1. \A j \in ok : j >= 1 /\ ~(j >= m + 1)
      <3> SUFFICES ASSUME NEW j \in ok PROVE j >= 1 /\ ~(j >= m + 1)
        OBVIOUS
      <3>1. j \in 1 .. m
        OBVIOUS
      <3> QED BY <3>1
    <2> QED BY <2>1
  <1>5. Cardinality(From(m + 1)) = 0 /\ Cardinality(From(1)) >= k
    <2> HIDE DEF From
    <2>1. Cardinality(From(m + 1)) = 0
      BY <1>4, FS_EmptySet
    <2> QED BY <1>1, <1>4, <2>1
  <1>6. 1 \in T
    <2>1. m # 0
      <3> SUFFICES ASSUME m = 0 PROVE FALSE
        OBVIOUS
      <3>1. ok = {}
        OBVIOUS
      <3>2. Cardinality(ok) = 0
        BY <3>1, FS_EmptySet
      <3> QED BY <1>1, <3>2
    <2>2. 1 \in 1 .. m
      BY <2>1
    <2> HIDE DEF From
    <2> QED BY <1>5, <2>2
  <1>7. PICK i \in T : \A j \in T : j <= i
    <2>1. T \subseteq 1 .. m /\ T # {}
      BY <1>6
    <2> HIDE DEF T
    <2> QED BY <2>1, GreatestOfSet
  <1> DEFINE c1 == Cardinality(From(i + 1))
             c == Cardinality(From(i))
  <1>8. i \in 1 .. m /\ c >= k /\ c = (IF i \in ok THEN 1 ELSE 0) + c1 /\ c1 \in Nat
    BY <1>2, <1>3, <1>7
  <1>9. c1 < k
    <2>1. CASE i = m
      <3> HIDE DEF From
      <3> QED BY <1>1, <1>5, <2>1
    <2>2. CASE i # m
      <3>1. i + 1 \in 1 .. m /\ ~(i + 1 <= i)
        BY <1>8, <2>2
      <3>2. i + 1 \notin T
        <4> HIDE DEF T
        <4> QED BY <1>7, <3>1
      <3>3. ~(c1 >= k)
        <4> HIDE DEF From
        <4> QED BY <3>1, <3>2
      <3> HIDE DEF c1
      <3> QED BY <1>1, <1>8, <3>3
    <2> QED BY <2>1, <2>2
  <1> HIDE DEF c1
  <1>10. i \in ok /\ c = k
    <2> HIDE DEF c
    <2> QED BY <1>1, <1>8, <1>9
  <1> QED BY <1>10 DEF c

LEMMA RttsAre ==
  ASSUME NEW s \in Seq(Sample), Len(s) <= RingCap, Up(s)
  PROVE  Rtts(s) \in Seq(Nat) /\ Len(Rtts(s)) > 0
  <1> DEFINE ok == {i \in DOMAIN s : i \in OkOf(s)}
             n == Cardinality(ok)
             m == Len(s)
             At(k) == CHOOSE i \in ok : Cardinality({j \in ok : j >= i}) = k
  <1>1. m \in Nat /\ DOMAIN s = 1 .. m /\ \A i \in DOMAIN s : s[i] \in Sample
    BY SeqType
  <1>2. ok \subseteq 1 .. m /\ ok # {} /\ \A i \in ok : s[i].rtt \in Nat
    <2>1. ok # {}
      BY DEF Up, OkOf, WindowOf
    <2>2. ASSUME NEW i \in ok PROVE s[i].rtt \in Nat
      <3>1. s[i].rtt \in Rtt \cup {NoRtt} /\ s[i].rtt # NoRtt
        BY <1>1, SampleType DEF OkOf, Ok
      <3> QED BY <3>1, RttIs
    <2> QED BY <1>1, <2>1, <2>2
  <1> HIDE DEF ok, m
  <1>3. n \in Nat /\ n > 0
    <2>1. IsFiniteSet(1 .. m)
      BY <1>1, FS_Interval
    <2>2. IsFiniteSet(ok)
      BY <1>2, <2>1, FS_Subset
    <2>3. n \in Nat /\ n # 0
      BY <1>2, <2>2, FS_CardinalityType, FS_EmptySet
    <2> HIDE DEF n
    <2> QED BY <2>3
  <1>4. \A k \in 1 .. n : At(k) \in ok
    <2> SUFFICES ASSUME NEW k \in 1 .. n PROVE At(k) \in ok
      OBVIOUS
    <2>1. \E i \in ok : Cardinality({j \in ok : j >= i}) = k
      BY <1>1, <1>2, FromTheEnd
    <2> QED BY <2>1
  <1>5. Rtts(s) = [k \in 1 .. n |-> s[At(k)].rtt]
    BY DEF Rtts, ok
  <1>6. [k \in 1 .. n |-> s[At(k)].rtt] \in [1 .. n -> Nat]
    <2> HIDE DEF At, n
    <2> QED BY <1>2, <1>4
  <1> HIDE DEF n, At
  <1>7. Rtts(s) \in Seq(Nat) /\ Len(Rtts(s)) = n
    <2>1. Rtts(s) \in [1 .. n -> Nat]
      BY <1>5, <1>6
    <2> QED BY <1>3, <2>1
  <1> QED BY <1>3, <1>7

\* Percentiles are figures of the samples, in order, and below each is no greater a
\* share than it says.
LEMMA RankIs ==
  ASSUME NEW n \in Nat, n > 0, NEW p \in {50, 90, 95, 99}
  PROVE  /\ Rank(p, n) \in 0 .. n - 1 /\ 100 * Rank(p, n) <= p * (n - 1)
         /\ Rank(50, n) <= Rank(90, n) /\ Rank(90, n) <= Rank(95, n) /\ Rank(95, n) <= Rank(99, n)
  BY DEF Rank

LEMMA FiguresOf ==
  ASSUME NEW rtts \in Seq(Nat), Len(rtts) > 0
  PROVE  LET sorted == Sorted(rtts)
             k == Len(sorted)
             avg == Total(rtts) \div k
             P(p) == Percentile(sorted, p)
         IN  /\ \A i \in 1 .. k : sorted[1] <= rtts[i] /\ rtts[i] <= sorted[k]
             /\ sorted[1] <= P(50) /\ P(50) <= P(90) /\ P(90) <= P(95) /\ P(95) <= P(99)
             /\ P(99) <= sorted[k]
             /\ sorted[1] <= avg /\ avg <= sorted[k]
             /\ \A p \in {50, 90, 95, 99} :
                  Cardinality({i \in 1 .. k : rtts[i] < P(p)}) * 100 <= p * (k - 1)
  <1> DEFINE sorted == Sorted(rtts)
             k == Len(sorted)
             avg == Total(rtts) \div k
             P(p) == Percentile(sorted, p)
             R(p) == Rank(p, k)
  <1>1. /\ sorted \in Seq(Nat) /\ k = Len(rtts)
        /\ \A i, j \in 1 .. k : i <= j => sorted[i] <= sorted[j]
        /\ \A i \in 1 .. k : /\ sorted[1] <= rtts[i] /\ rtts[i] <= sorted[k]
                             /\ Cardinality(Below(rtts, sorted[i])) < i
    BY SortedIs
  <1>2. /\ k \in Nat /\ k > 0 /\ DOMAIN rtts = 1 .. k
        /\ \A r : Cardinality(Below(rtts, r)) \in Nat
    BY <1>1, TimesAre
  <1>3. \A i \in 1 .. k : sorted[i] \in Nat
    BY <1>1
  <1> HIDE DEF sorted, k
  <1>4. 1 \in 1 .. k /\ k \in 1 .. k /\ k \in Nat \ {0}
    BY <1>2
  <1>5. sorted[1] <= avg /\ avg <= sorted[k]
    <2> DEFINE lo == sorted[1]
               hi == sorted[k]
               a == Total(rtts)
    <2>1. lo \in Nat /\ hi \in Nat /\ \A i \in DOMAIN rtts : lo <= rtts[i] /\ rtts[i] <= hi
      BY <1>1, <1>2, <1>3, <1>4
    <2> HIDE DEF lo, hi, a
    <2>2. a \in Nat /\ k * lo <= a /\ a <= k * hi
      BY <1>1, <2>1, TotalIs DEF a
    <2>3. lo <= a \div k /\ a \div k <= hi
      BY <1>4, <2>1, <2>2, MeanIs
    <2> QED BY <2>3 DEF lo, hi, a
  <1>6. \A p \in {50, 90, 95, 99} : R(p) \in 0 .. k - 1 /\ 100 * R(p) <= p * (k - 1)
    <2> SUFFICES ASSUME NEW p \in {50, 90, 95, 99}
                 PROVE  R(p) \in 0 .. k - 1 /\ 100 * R(p) <= p * (k - 1)
      OBVIOUS
    <2>1. k \in Nat /\ k > 0
      BY <1>2
    <2>2. Rank(p, k) \in 0 .. k - 1 /\ 100 * Rank(p, k) <= p * (k - 1)
      BY <2>1 DEF Rank
    <2> QED BY <2>2
  <1>7. R(50) <= R(90) /\ R(90) <= R(95) /\ R(95) <= R(99)
    BY <1>2, RankIs
  <1>8. \A p : P(p) = sorted[R(p) + 1]
    BY DEF Percentile, k
  <1> HIDE DEF P, R, avg
  <1>9. \A p \in {50, 90, 95, 99} : R(p) \in Nat /\ R(p) + 1 \in 1 .. k /\ 1 <= R(p) + 1 /\ R(p) + 1 <= k
    <2> SUFFICES ASSUME NEW p \in {50, 90, 95, 99}
                 PROVE  R(p) \in Nat /\ R(p) + 1 \in 1 .. k /\ 1 <= R(p) + 1 /\ R(p) + 1 <= k
      OBVIOUS
    <2> DEFINE x == R(p)
    <2>1. x \in 0 .. k - 1
      BY <1>6
    <2> HIDE DEF x
    <2>2. x \in Nat /\ x + 1 \in 1 .. k /\ 1 <= x + 1 /\ x + 1 <= k
      BY <1>2, <2>1
    <2> QED BY <2>2 DEF x
  <1>10. \A p, q \in {50, 90, 95, 99} : R(p) <= R(q) => P(p) <= P(q)
    <2> SUFFICES ASSUME NEW p \in {50, 90, 95, 99}, NEW q \in {50, 90, 95, 99}, R(p) <= R(q)
                 PROVE  P(p) <= P(q)
      OBVIOUS
    <2> DEFINE x == R(p)
               y == R(q)
    <2>1. x \in Nat /\ y \in Nat /\ x <= y /\ x + 1 \in 1 .. k /\ y + 1 \in 1 .. k
      BY <1>9
    <2>2. P(p) = sorted[x + 1] /\ P(q) = sorted[y + 1]
      BY <1>8
    <2> HIDE DEF x, y
    <2>3. x + 1 <= y + 1
      BY <2>1
    <2>4. sorted[x + 1] <= sorted[y + 1]
      BY <1>1, <2>1, <2>3
    <2> QED BY <2>2, <2>4
  <1>11. sorted[1] <= P(50) /\ P(99) <= sorted[k]
    BY <1>1, <1>4, <1>8, <1>9
  <1>12. P(50) <= P(90) /\ P(90) <= P(95) /\ P(95) <= P(99)
    BY <1>7, <1>10
  <1>13. ASSUME NEW p \in {50, 90, 95, 99}
         PROVE  Cardinality({i \in 1 .. k : rtts[i] < P(p)}) * 100 <= p * (k - 1)
    <2> DEFINE c == Cardinality(Below(rtts, P(p)))
               x == R(p)
    <2>1. {i \in 1 .. k : rtts[i] < P(p)} = Below(rtts, P(p))
      BY <1>2 DEF Below
    <2>2. c < x + 1 /\ c \in Nat /\ x \in Nat /\ 100 * x <= p * (k - 1)
      <3> DEFINE i == x + 1
      <3>1. 100 * x <= p * (k - 1)
        BY <1>6
      <3>2. P(p) = sorted[i]
        BY <1>8
      <3>3. x \in Nat /\ i \in 1 .. k
        BY <1>9
      <3> HIDE DEF i
      <3>4. Cardinality(Below(rtts, sorted[i])) < i
        BY <1>1, <3>3
      <3>5. c < i /\ c \in Nat
        BY <1>2, <3>2, <3>4
      <3> HIDE DEF c, x
      <3>6. c < x + 1
        BY <3>5 DEF i
      <3> QED BY <3>1, <3>3, <3>5, <3>6
    <2> HIDE DEF c, x
    <2>3. c * 100 <= 100 * x
      BY <2>2
    <2>4. p * (k - 1) \in Nat
      BY <1>4
    <2>5. c * 100 <= p * (k - 1)
      <3> DEFINE y == p * (k - 1)
      <3>1. y \in Nat /\ 100 * x <= y
        BY <2>2, <2>4
      <3> HIDE DEF y
      <3>2. c * 100 <= y
        BY <2>2, <2>3, <3>1
      <3> QED BY <3>2 DEF y
    <2> QED BY <2>1, <2>5 DEF c
  <1>14. \A i \in 1 .. k : sorted[1] <= rtts[i] /\ rtts[i] <= sorted[k]
    BY <1>1
  <1> QED BY <1>5, <1>11, <1>12, <1>13, <1>14 DEF sorted, k, avg, P

\* The figures shown for a target that is up are in order, whatever its samples are and
\* however many of them are equal: least, percentiles, greatest and mean, and no
\* percentile has more below it than its share (store.go:295-305, 382-394).
THEOREM FiguresInOrder == Spec => []RollupInOrder
  <1>1. TypeOK => RollupInOrder
    <2> SUFFICES ASSUME TypeOK, NEW n \in Name, Up(samples[n])
                 PROVE  LET rtts == Rtts(samples[n])
                            sorted == Sorted(rtts)
                            k == Len(sorted)
                            avg == Total(rtts) \div k
                            P(p) == Percentile(sorted, p)
                        IN  /\ \A i \in 1 .. k : sorted[1] <= rtts[i] /\ rtts[i] <= sorted[k]
                            /\ sorted[1] <= P(50) /\ P(50) <= P(90) /\ P(90) <= P(95) /\ P(95) <= P(99)
                            /\ P(99) <= sorted[k]
                            /\ sorted[1] <= avg /\ avg <= sorted[k]
                            /\ \A p \in {50, 90, 95, 99} :
                                 Cardinality({i \in 1 .. k : rtts[i] < P(p)}) * 100 <= p * (k - 1)
      BY DEF RollupInOrder
    <2>1. samples[n] \in Seq(Sample) /\ Len(samples[n]) <= RingCap
      BY DEF TypeOK
    <2>2. Rtts(samples[n]) \in Seq(Nat) /\ Len(Rtts(samples[n])) > 0
      BY <2>1, RttsAre
    <2> QED BY <2>2, FiguresOf
  <1> QED BY <1>1, TypeCorrect, PTL

(***************************************************************************)
(* What a restart would show, and what is shown.                           *)
(***************************************************************************)

\* The series s is the end of t, but for what is live.
EndOf(s, t) ==
    /\ Len(s) <= Len(t)
    /\ \A i \in DOMAIN s : /\ s[i].age = t[i + (Len(t) - Len(s))].age
                           /\ s[i].rtt = t[i + (Len(t) - Len(s))].rtt

\* r lacks nothing of t but what there was no room for.
EndUnless(r, t, full) == EndOf(r, t) /\ (Len(r) = Len(t) \/ full)

\* The samples that reach the history, and those of a series that did.
InSink  == {x \in Sample : x.kept}
Sunk(s) == Loaded(s, InSink)

\* What a restart would show of w, once the sample on its way is there.
Again(w) ==
    IF pc[w] = "added" /\ smp[w].kept THEN Added(Replayed(NameOf[w]), smp[w])
    ELSE Replayed(NameOf[w])

\* Both are the end of one series: all that ever went to the history from w's name.
Following(w) ==
    LET s == samples[NameOf[w]]
    IN  \E t \in Series : EndUnless(Again(w), t, Len(log) = LogCap)
                         /\ EndUnless(Sunk(s), t, Len(s) = RingCap)

FollowInv ==
    /\ TypeOK /\ log \in Seq(InSink)
    /\ \A w \in Worker : smp[w].by = w
    /\ up => \A w \in Worker : Following(w)

\* Induction along a log, by the least record that would break it.
LEMMA AlongLog ==
  ASSUME NEW m \in Nat, NEW W, W \subseteq 0 .. m, 0 \notin W,
         \A k \in 1 .. m : k - 1 \notin W => k \notin W
  PROVE  W = {}
  <1> SUFFICES ASSUME W # {} PROVE FALSE
    OBVIOUS
  <1>1. W \subseteq Nat
    OBVIOUS
  <1>2. PICK k \in W : \A j \in W : k <= j
    BY <1>1, LeastOfNats
  <1>3. k \in 1 .. m
    OBVIOUS
  <1>4. k - 1 \notin W
    BY <1>2, <1>3
  <1> QED BY <1>3, <1>4

LEMMA SameSeries ==
  ASSUME NEW s \in Seq(Sample), NEW t \in Seq(Sample), Len(s) = Len(t),
         \A i \in 1 .. Len(s) : s[i] = t[i]
  PROVE  s = t
  OBVIOUS

LEMMA EndSelf == ASSUME NEW s \in Seq(Sample) PROVE EndOf(s, s)
  <1>1. Len(s) \in Nat /\ DOMAIN s = 1 .. Len(s)
    OBVIOUS
  <1>2. \A i \in DOMAIN s : i + (Len(s) - Len(s)) = i
    BY <1>1
  <1> QED BY <1>1, <1>2 DEF EndOf

LEMMA EndTrans ==
  ASSUME NEW r \in Seq(Sample), NEW s \in Seq(Sample), NEW t \in Seq(Sample), EndOf(r, s), EndOf(s, t)
  PROVE  EndOf(r, t)
  <1> DEFINE a == Len(r)
             b == Len(s)
             c == Len(t)
  <1>1. /\ a \in Nat /\ b \in Nat /\ c \in Nat /\ a <= b /\ b <= c
        /\ DOMAIN r = 1 .. a /\ DOMAIN s = 1 .. b
    BY DEF EndOf
  <1>2. \A i \in 1 .. a : r[i].age = s[i + (b - a)].age /\ r[i].rtt = s[i + (b - a)].rtt
    BY <1>1 DEF EndOf
  <1>3. \A i \in 1 .. b : s[i].age = t[i + (c - b)].age /\ s[i].rtt = t[i + (c - b)].rtt
    BY <1>1 DEF EndOf
  <1> HIDE DEF a, b, c
  <1>4. ASSUME NEW i \in 1 .. a PROVE r[i].age = t[i + (c - a)].age /\ r[i].rtt = t[i + (c - a)].rtt
    <2> DEFINE j == i + (b - a)
    <2>1. j \in 1 .. b /\ j + (c - b) = i + (c - a)
      BY <1>1
    <2>2. r[i].age = s[j].age /\ r[i].rtt = s[j].rtt
      BY <1>2
    <2> HIDE DEF j
    <2>3. s[j].age = t[j + (c - b)].age /\ s[j].rtt = t[j + (c - b)].rtt
      BY <1>3, <2>1
    <2> QED BY <2>1, <2>2, <2>3
  <1>5. a <= c
    BY <1>1
  <1> QED BY <1>1, <1>4, <1>5 DEF EndOf, a, c

LEMMA EndAdded ==
  ASSUME NEW s \in Series, NEW t \in Series, EndOf(s, t),
         NEW x \in Sample, NEW y \in Sample, x.age = y.age, x.rtt = y.rtt
  PROVE  /\ EndOf(Added(s, x), Added(t, y))
         /\ Len(s) = Len(t) => Len(Added(s, x)) = Len(Added(t, y))
  <1> DEFINE a == Len(s)
             b == Len(t)
             p == Drop(s)
             q == Drop(t)
             u == Added(s, x)
             v == Added(t, y)
  <1>1. s \in Seq(Sample) /\ t \in Seq(Sample) /\ Len(s) <= RingCap /\ Len(t) <= RingCap
    BY DEF Series
  <1>2. /\ u \in Seq(Sample) /\ Len(u) = a + 1 - p /\ DOMAIN u = 1 .. a + 1 - p /\ u[a + 1 - p] = x
        /\ (\A i \in 1 .. a - p : u[i] = s[i + p]) /\ p \in {0, 1} /\ (p = 1 <=> a = RingCap) /\ a \in Nat
    BY <1>1, AddedIs
  <1>3. /\ v \in Seq(Sample) /\ Len(v) = b + 1 - q /\ DOMAIN v = 1 .. b + 1 - q /\ v[b + 1 - q] = y
        /\ (\A i \in 1 .. b - q : v[i] = t[i + q]) /\ q \in {0, 1} /\ (q = 1 <=> b = RingCap) /\ b \in Nat
    BY <1>1, AddedIs
  <1>4. a <= b /\ b <= RingCap /\ RingCap \in Nat
    BY <1>1, Sizes DEF EndOf
  <1>5. \A i \in 1 .. a : s[i].age = t[i + (b - a)].age /\ s[i].rtt = t[i + (b - a)].rtt
    BY <1>1 DEF EndOf
  <1> HIDE DEF a, b, p, q, u, v
  <1> DEFINE d == (b + 1 - q) - (a + 1 - p)
  <1>6. d \in Nat /\ d = (b - q) - (a - p) /\ (a = b => a + 1 - p = b + 1 - q) /\ a + 1 - p <= b + 1 - q
    BY <1>2, <1>3, <1>4
  <1>7. ASSUME NEW i \in 1 .. a + 1 - p PROVE u[i].age = v[i + d].age /\ u[i].rtt = v[i + d].rtt
    <2>1. CASE i = a + 1 - p
      <3>1. i + d = b + 1 - q
        BY <1>2, <1>3, <2>1
      <3> HIDE DEF d
      <3> QED BY <1>2, <1>3, <2>1, <3>1
    <2>2. CASE i # a + 1 - p
      <3> DEFINE j == i + p
                 k == i + d
      <3>1. i \in 1 .. a - p /\ j \in 1 .. a /\ k \in 1 .. b - q /\ k + q = j + (b - a)
        BY <1>2, <1>3, <1>4, <1>6, <2>2
      <3>2. u[i] = s[j]
        BY <1>2, <3>1
      <3> HIDE DEF j, k
      <3>3. v[k] = t[k + q]
        BY <1>3, <3>1
      <3>4. s[j].age = t[j + (b - a)].age /\ s[j].rtt = t[j + (b - a)].rtt
        BY <1>5, <3>1
      <3> QED BY <3>1, <3>2, <3>3, <3>4 DEF k
    <2> QED BY <2>1, <2>2
  <1> HIDE DEF d
  <1>8. EndOf(u, v)
    <2>1. Len(v) - Len(u) = d /\ Len(u) <= Len(v)
      BY <1>2, <1>3, <1>6 DEF d
    <2> QED BY <1>2, <1>7, <2>1 DEF EndOf
  <1>9. a = b => Len(u) = Len(v)
    BY <1>2, <1>3, <1>6
  <1> QED BY <1>8, <1>9 DEF a, b, u, v

LEMMA AgedSeries ==
  ASSUME NEW s \in Series
  PROVE  Aged(s) \in Series /\ Len(Aged(s)) = Len(s)
  BY AgedIs DEF Series

LEMMA EndAged ==
  ASSUME NEW s \in Seq(Sample), NEW t \in Seq(Sample), EndOf(s, t)
  PROVE  EndOf(Aged(s), Aged(t))
  <1> DEFINE a == Len(s)
             b == Len(t)
             u == Aged(s)
             v == Aged(t)
  <1>1. /\ Len(u) = a /\ Len(v) = b /\ DOMAIN u = 1 .. a /\ a \in Nat /\ b \in Nat /\ a <= b
        /\ (\A i \in 1 .. a : u[i] = Older(s[i]) /\ s[i] \in Sample)
        /\ (\A i \in 1 .. b : v[i] = Older(t[i]) /\ t[i] \in Sample)
    BY AgedIs DEF EndOf
  <1>2. \A i \in 1 .. a : s[i].age = t[i + (b - a)].age /\ s[i].rtt = t[i + (b - a)].rtt
    BY DEF EndOf
  <1> HIDE DEF a, b, u, v
  <1>3. ASSUME NEW i \in 1 .. a PROVE u[i].age = v[i + (b - a)].age /\ u[i].rtt = v[i + (b - a)].rtt
    <2> DEFINE j == i + (b - a)
    <2>1. j \in 1 .. b
      BY <1>1
    <2>2. s[i].age = t[j].age /\ s[i].rtt = t[j].rtt
      BY <1>2
    <2> HIDE DEF j
    <2>3. u[i] = Older(s[i]) /\ s[i] \in Sample /\ v[j] = Older(t[j]) /\ t[j] \in Sample
      BY <1>1, <2>1
    <2>4. u[i].age = v[j].age /\ u[i].rtt = v[j].rtt
      BY <2>2, <2>3, OlderIs
    <2> QED BY <2>4 DEF j
  <1> QED BY <1>1, <1>3 DEF EndOf, u, v

LEMMA AgedAdded ==
  ASSUME NEW s \in Series, NEW x \in Sample
  PROVE  Aged(Added(s, x)) = Added(Aged(s), Older(x))
  <1> DEFINE a == Len(s)
             p == Drop(s)
             t == Added(s, x)
             u == Aged(s)
             v == Added(u, Older(x))
             z == Aged(t)
  <1>1. s \in Seq(Sample) /\ Len(s) <= RingCap /\ u \in Seq(Sample) /\ Len(u) = a /\ Older(x) \in Sample
    BY AgedIs, OlderIs DEF Series
  <1>2. Drop(u) = p
    BY <1>1 DEF Drop
  <1>3. /\ t \in Seq(Sample) /\ Len(t) = a + 1 - p /\ t[a + 1 - p] = x
        /\ (\A i \in 1 .. a - p : t[i] = s[i + p]) /\ p \in {0, 1} /\ (p = 1 <=> a = RingCap) /\ a \in Nat
    BY <1>1, AddedIs
  <1>4. v \in Seq(Sample) /\ Len(v) = Len(u) + 1 - Drop(u) /\ v[Len(u) + 1 - Drop(u)] = Older(x)
        /\ \A i \in 1 .. Len(u) - Drop(u) : v[i] = u[i + Drop(u)]
    <2> HIDE DEF u
    <2> QED BY <1>1, AddedIs
  <1>5. \A i \in 1 .. a : u[i] = Older(s[i])
    BY <1>1, AgedIs
  <1>6. z \in Seq(Sample) /\ Len(z) = a + 1 - p /\ \A i \in 1 .. a + 1 - p : z[i] = Older(t[i])
    <2> HIDE DEF t
    <2> QED BY <1>3, AgedIs
  <1>7. RingCap \in Nat \ {0}
    BY Sizes
  <1> HIDE DEF a, p, t, u, v, z
  <1>8. ASSUME NEW i \in 1 .. a + 1 - p PROVE z[i] = v[i]
    <2>1. CASE i = a + 1 - p
      BY <1>1, <1>2, <1>3, <1>4, <1>6, <2>1
    <2>2. CASE i # a + 1 - p
      <3> DEFINE j == i + p
      <3>1. i \in 1 .. a - p /\ j \in 1 .. a
        BY <1>3, <2>2
      <3>2. z[i] = Older(t[i]) /\ t[i] = s[j] /\ v[i] = u[j]
        BY <1>1, <1>2, <1>3, <1>4, <1>6, <3>1
      <3> HIDE DEF j
      <3> QED BY <1>5, <3>1, <3>2
    <2> QED BY <2>1, <2>2
  <1>9. Len(z) = Len(v)
    BY <1>1, <1>2, <1>4, <1>6
  <1> QED BY <1>4, <1>6, <1>8, <1>9, SameSeries DEF z, v, t, u

\* What one more record makes of what is loaded.
LoadNext(s, x, S) == IF x \in S THEN Added(s, Dead(x)) ELSE s

LEMMA LoadNextSeries ==
  ASSUME NEW s \in Series, NEW x \in Sample, NEW S
  PROVE  LoadNext(s, x, S) \in Series
  <1>1. s \in Seq(Sample) /\ Len(s) <= RingCap /\ Dead(x) \in Sample
    BY DeadIs DEF Series
  <1>2. Added(s, Dead(x)) \in Seq(Sample) /\ Len(Added(s, Dead(x))) <= RingCap
    <2> DEFINE y == Dead(x)
    <2>1. y \in Sample
      BY <1>1
    <2> HIDE DEF y
    <2> QED BY <1>1, <2>1, AddedIs DEF y
  <1> QED BY <1>2 DEF LoadNext, Series

LEMMA EndLoadNext ==
  ASSUME NEW s \in Series, NEW t \in Series, EndOf(s, t), NEW x \in Sample, NEW S
  PROVE  EndOf(LoadNext(s, x, S), LoadNext(t, x, S))
  <1> DEFINE y == Dead(x)
  <1>1. y \in Sample
    BY DeadIs
  <1> HIDE DEF y
  <1>2. EndOf(Added(s, y), Added(t, y))
    BY <1>1, EndAdded
  <1> QED BY <1>2 DEF LoadNext, y

LEMMA AgedLoadNext ==
  ASSUME NEW s \in Series, NEW x \in Sample, NEW S, Older(x) \in S <=> x \in S
  PROVE  Aged(LoadNext(s, x, S)) = LoadNext(Aged(s), Older(x), S)
  <1> DEFINE y == Dead(x)
  <1>1. y \in Sample
    BY DeadIs
  <1>2. Older(y) = Dead(Older(x))
    BY DEF Older, Dead, Sample
  <1> HIDE DEF y
  <1>3. Aged(Added(s, y)) = Added(Aged(s), Older(y))
    BY <1>1, AgedAdded
  <1> QED BY <1>1, <1>2, <1>3 DEF LoadNext, y

\* Loading, record by record.
Loads(f, recs, S) ==
    /\ f[0] = <<>>
    /\ \A k \in 1 .. Len(recs) : f[k] = LoadNext(f[k - 1], recs[k], S)

LEMMA LoadsIs ==
  ASSUME NEW recs \in Seq(Sample), NEW S
  PROVE  \E f : Loads(f, recs, S) /\ Loaded(recs, S) = f[Len(recs)]
  <1>1. Len(recs) \in Nat
    OBVIOUS
  <1>2. PICK f : /\ Loaded(recs, S) = f[Len(recs)] /\ f[0] = <<>>
                 /\ \A k \in 1 .. Len(recs) :
                      f[k] = IF recs[k] \in S THEN Added(f[k - 1], Dead(recs[k])) ELSE f[k - 1]
    BY <1>1, LoadedIs
  <1>3. \A k \in 1 .. Len(recs) : f[k] = LoadNext(f[k - 1], recs[k], S)
    BY <1>2 DEF LoadNext
  <1> QED BY <1>2, <1>3 DEF Loads

LEMMA LoadsSeries ==
  ASSUME NEW recs \in Seq(Sample), NEW S, NEW f, Loads(f, recs, S)
  PROVE  \A k \in 0 .. Len(recs) : f[k] \in Series
  <1> DEFINE m == Len(recs)
             W == {k \in 0 .. m : f[k] \notin Series}
  <1>1. m \in Nat /\ W \subseteq 0 .. m /\ \A k \in 1 .. m : recs[k] \in Sample
    OBVIOUS
  <1>2. 0 \notin W
    BY EmptySeries DEF Loads
  <1>3. ASSUME NEW k \in 1 .. m, k - 1 \notin W PROVE k \notin W
    <2>1. k - 1 \in 0 .. m
      BY <1>1
    <2>2. f[k - 1] \in Series
      BY <1>3, <2>1
    <2>3. f[k] = LoadNext(f[k - 1], recs[k], S)
      BY DEF Loads
    <2>4. f[k] \in Series
      <3> DEFINE s == f[k - 1]
                 x == recs[k]
      <3>1. s \in Series /\ x \in Sample
        BY <1>1, <2>2
      <3> HIDE DEF s, x
      <3>2. LoadNext(s, x, S) \in Series
        BY <3>1, LoadNextSeries
      <3> QED BY <2>3, <3>2 DEF s, x
    <2> QED BY <2>4
  <1>4. W = {}
    <2> HIDE DEF W, m
    <2> QED BY <1>1, <1>2, <1>3, AlongLog
  <1> QED BY <1>4

LEMMA LoadedSeries ==
  ASSUME NEW recs \in Seq(Sample), NEW S
  PROVE  Loaded(recs, S) \in Series
  <1>1. PICK f : Loads(f, recs, S) /\ Loaded(recs, S) = f[Len(recs)]
    BY LoadsIs
  <1>2. Len(recs) \in 0 .. Len(recs)
    OBVIOUS
  <1> QED BY <1>1, <1>2, LoadsSeries

\* A log that is the same up to its k-th record gives the same up to there.
LEMMA LoadsSame ==
  ASSUME NEW recs, NEW more, NEW S, NEW f, NEW g, Loads(f, recs, S), Loads(g, more, S),
         NEW m \in Nat, m <= Len(recs), m <= Len(more), Len(recs) \in Nat, Len(more) \in Nat,
         \A k \in 1 .. m : more[k] = recs[k]
  PROVE  f[m] = g[m]
  <1> DEFINE W == {k \in 0 .. m : f[k] # g[k]}
  <1>1. W \subseteq 0 .. m
    OBVIOUS
  <1>2. 0 \notin W
    BY DEF Loads
  <1>3. ASSUME NEW k \in 1 .. m, k - 1 \notin W PROVE k \notin W
    <2>1. k - 1 \in 0 .. m /\ k \in 1 .. Len(recs) /\ k \in 1 .. Len(more)
      OBVIOUS
    <2>2. f[k - 1] = g[k - 1]
      BY <1>3, <2>1
    <2>3. f[k] = LoadNext(f[k - 1], recs[k], S) /\ g[k] = LoadNext(g[k - 1], more[k], S)
      BY <2>1 DEF Loads
    <2>4. f[k] = g[k]
      BY <2>2, <2>3
    <2> QED BY <2>4
  <1>4. W = {}
    <2> HIDE DEF W
    <2> QED BY <1>1, <1>2, <1>3, AlongLog
  <1>5. m \in 0 .. m
    OBVIOUS
  <1> QED BY <1>4, <1>5

LEMMA LoadedAppend ==
  ASSUME NEW recs \in Seq(Sample), NEW x \in Sample, NEW S
  PROVE  Loaded(Append(recs, x), S) = LoadNext(Loaded(recs, S), x, S)
  <1> DEFINE more == Append(recs, x)
             m == Len(recs)
  <1>1. /\ more \in Seq(Sample) /\ Len(more) = m + 1 /\ more[m + 1] = x /\ m \in Nat
        /\ \A k \in 1 .. m : more[k] = recs[k]
    OBVIOUS
  <1> HIDE DEF more
  <1>2. PICK f : Loads(f, recs, S) /\ Loaded(recs, S) = f[Len(recs)]
    BY LoadsIs
  <1>3. PICK g : Loads(g, more, S) /\ Loaded(more, S) = g[Len(more)]
    BY <1>1, LoadsIs
  <1> HIDE DEF m
  <1>4. Len(recs) = m /\ m <= m /\ m <= m + 1 /\ m + 1 \in Nat
    BY <1>1 DEF m
  <1>5. f[m] = g[m]
    BY <1>1, <1>2, <1>3, <1>4, LoadsSame
  <1>6. g[m + 1] = LoadNext(g[m], x, S)
    <2> DEFINE k == m + 1
    <2>1. k \in 1 .. Len(more) /\ k - 1 = m /\ more[k] = x
      BY <1>1
    <2> HIDE DEF k
    <2>2. g[k] = LoadNext(g[k - 1], more[k], S)
      BY <1>3, <2>1 DEF Loads
    <2> QED BY <2>1, <2>2 DEF k
  <1> QED BY <1>1, <1>2, <1>3, <1>4, <1>5, <1>6 DEF more

\* The oldest record gone, what is loaded is the end of what it was.
LEMMA LoadedTail ==
  ASSUME NEW recs \in Seq(Sample), Len(recs) > 0, NEW S
  PROVE  EndOf(Loaded(Tail(recs), S), Loaded(recs, S))
  <1> DEFINE less == Tail(recs)
             m == Len(less)
  <1>1. /\ less \in Seq(Sample) /\ m \in Nat /\ Len(recs) = m + 1
        /\ \A k \in 1 .. m : less[k] = recs[k + 1] /\ less[k] \in Sample
    OBVIOUS
  <1> HIDE DEF less
  <1>2. PICK f : Loads(f, recs, S) /\ Loaded(recs, S) = f[Len(recs)]
    BY LoadsIs
  <1>3. PICK g : Loads(g, less, S) /\ Loaded(less, S) = g[Len(less)]
    BY <1>1, LoadsIs
  <1>4. (\A k \in 0 .. Len(recs) : f[k] \in Series) /\ (\A k \in 0 .. m : g[k] \in Series)
    BY <1>1, <1>2, <1>3, LoadsSeries
  <1> DEFINE W == {k \in 0 .. m : ~EndOf(g[k], f[k + 1])}
  <1> HIDE DEF m
  <1>5. W \subseteq 0 .. m
    OBVIOUS
  <1>6. 0 \notin W
    <2>1. g[0] = <<>> /\ f[1] \in Series
      <3>1. 1 \in 0 .. Len(recs)
        BY <1>1
      <3> QED BY <1>3, <1>4, <3>1 DEF Loads
    <2>2. EndOf(<<>>, f[1])
      <3> DEFINE s == f[1]
      <3>1. Len(s) \in Nat
        BY <2>1 DEF Series
      <3> HIDE DEF s
      <3>2. Len(<<>>) = 0 /\ DOMAIN <<>> = {}
        OBVIOUS
      <3>3. EndOf(<<>>, s)
        BY <3>1, <3>2 DEF EndOf
      <3> QED BY <3>3 DEF s
    <2> QED BY <2>1, <2>2
  <1>7. ASSUME NEW k \in 1 .. m, k - 1 \notin W PROVE k \notin W
    <2> DEFINE h == k - 1
               j == k + 1
    <2>1. /\ h \in 0 .. m /\ h + 1 = k /\ j \in 1 .. Len(recs) /\ j - 1 = k /\ k \in 0 .. Len(recs)
          /\ k \in 1 .. Len(less)
      BY <1>1 DEF m
    <2>2. g[h] \in Series /\ f[k] \in Series /\ EndOf(g[h], f[k])
      <3>1. EndOf(g[h], f[h + 1])
        BY <1>7, <2>1
      <3> QED BY <1>4, <2>1, <3>1
    <2>3. g[k] = LoadNext(g[h], less[k], S)
      BY <1>3, <2>1 DEF Loads
    <2>4. f[j] = LoadNext(f[k], recs[j], S)
      <3> HIDE DEF j, h
      <3>1. f[j] = LoadNext(f[j - 1], recs[j], S)
        BY <1>2, <2>1 DEF Loads
      <3> QED BY <2>1, <3>1
    <2>5. less[k] = recs[j] /\ less[k] \in Sample
      BY <1>1
    <2>6. EndOf(g[k], f[j])
      <3> DEFINE s == g[h]
                 t == f[k]
                 x == less[k]
      <3>1. s \in Series /\ t \in Series /\ EndOf(s, t) /\ x \in Sample
        BY <2>2, <2>5
      <3> HIDE DEF s, t, x
      <3>2. EndOf(LoadNext(s, x, S), LoadNext(t, x, S))
        BY <3>1, EndLoadNext
      <3> QED BY <2>3, <2>4, <2>5, <3>2 DEF s, t, x
    <2> QED BY <2>6
  <1>8. W = {}
    <2>1. m \in Nat
      BY <1>1
    <2> HIDE DEF W
    <2> QED BY <2>1, <1>5, <1>6, <1>7, AlongLog
  <1>9. EndOf(g[m], f[m + 1])
    <2>1. m \in 0 .. m
      BY <1>1
    <2> QED BY <1>8, <2>1
  <1> QED BY <1>1, <1>2, <1>3, <1>9 DEF m, less

\* The whole log a unit of time older.
LEMMA LoadedAged ==
  ASSUME NEW recs \in Seq(Sample), NEW S, \A x \in Sample : Older(x) \in S <=> x \in S
  PROVE  Loaded(Aged(recs), S) = Aged(Loaded(recs, S))
  <1> DEFINE old == Aged(recs)
             m == Len(recs)
  <1>1. /\ old \in Seq(Sample) /\ m \in Nat /\ Len(old) = m
        /\ \A k \in 1 .. m : old[k] = Older(recs[k]) /\ recs[k] \in Sample
    BY AgedIs
  <1> HIDE DEF old
  <1>2. PICK f : Loads(f, recs, S) /\ Loaded(recs, S) = f[Len(recs)]
    BY LoadsIs
  <1>3. PICK g : Loads(g, old, S) /\ Loaded(old, S) = g[Len(old)]
    BY <1>1, LoadsIs
  <1>4. \A k \in 0 .. m : f[k] \in Series
    BY <1>2, LoadsSeries
  <1> DEFINE W == {k \in 0 .. m : g[k] # Aged(f[k])}
  <1>5. W \subseteq 0 .. m
    OBVIOUS
  <1>6. 0 \notin W
    <2>1. g[0] = <<>> /\ f[0] = <<>>
      BY <1>2, <1>3 DEF Loads
    <2>2. Aged(<<>>) = <<>>
      BY DEF Aged
    <2> QED BY <2>1, <2>2
  <1> HIDE DEF m
  <1>7. ASSUME NEW k \in 1 .. m, k - 1 \notin W PROVE k \notin W
    <2> DEFINE h == k - 1
    <2>1. h \in 0 .. m /\ k \in 1 .. Len(recs) /\ k \in 1 .. Len(old)
      BY <1>1 DEF m
    <2>2. g[h] = Aged(f[h]) /\ f[h] \in Series
      BY <1>4, <1>7, <2>1
    <2>3. g[k] = LoadNext(g[h], old[k], S) /\ f[k] = LoadNext(f[h], recs[k], S)
      BY <1>2, <1>3, <2>1 DEF Loads
    <2>4. old[k] = Older(recs[k]) /\ recs[k] \in Sample
      BY <1>1
    <2>5. g[k] = Aged(f[k])
      <3> DEFINE s == f[h]
                 x == recs[k]
      <3>1. s \in Series /\ x \in Sample
        BY <2>2, <2>4
      <3> HIDE DEF s, x
      <3>2. Aged(LoadNext(s, x, S)) = LoadNext(Aged(s), Older(x), S)
        BY <3>1, AgedLoadNext
      <3> QED BY <2>2, <2>3, <2>4, <3>2 DEF s, x
    <2> QED BY <2>5
  <1>8. W = {}
    <2>1. m \in Nat
      BY <1>1
    <2> HIDE DEF W
    <2> QED BY <2>1, <1>5, <1>6, <1>7, AlongLog
  <1>9. m \in 0 .. m
    BY <1>1
  <1> QED BY <1>1, <1>2, <1>3, <1>8, <1>9 DEF m, old

\* Sequences without what tells live from loaded, and their ends.
Data(s) == [i \in DOMAIN s |-> <<s[i].age, s[i].rtt>>]

LEMMA DataIs ==
  ASSUME NEW s \in Seq(Sample)
  PROVE  /\ Len(Data(s)) = Len(s) /\ Len(s) \in Nat /\ DOMAIN Data(s) = 1 .. Len(s)
         /\ Data(s) = [i \in 1 .. Len(s) |-> <<s[i].age, s[i].rtt>>]
         /\ Data(s) \in Seq(Age \X (Rtt \cup {NoRtt}))
  <1>1. DOMAIN s = 1 .. Len(s) /\ Len(s) \in Nat
    OBVIOUS
  <1>2. Data(s) = [i \in 1 .. Len(s) |-> <<s[i].age, s[i].rtt>>]
    BY <1>1 DEF Data
  <1>3. \A i \in 1 .. Len(s) : <<s[i].age, s[i].rtt>> \in Age \X (Rtt \cup {NoRtt})
    <2> SUFFICES ASSUME NEW i \in 1 .. Len(s) PROVE <<s[i].age, s[i].rtt>> \in Age \X (Rtt \cup {NoRtt})
      OBVIOUS
    <2>1. s[i] \in Sample
      OBVIOUS
    <2> QED BY <2>1 DEF Sample
  <1> QED BY <1>1, <1>2, <1>3

LEMMA SuffixIs ==
  ASSUME NEW S, NEW s \in Seq(S), NEW t \in Seq(S), Len(s) <= Len(t),
         \A i \in 1 .. Len(s) : s[i] = t[i + (Len(t) - Len(s))]
  PROVE  IsSuffix(s, t)
  <1> DEFINE a == Len(s)
             b == Len(t)
             u == Reverse(s)
             v == Reverse(t)
  <1>1. a \in Nat /\ b \in Nat /\ a <= b
    OBVIOUS
  <1>2. u = [i \in 1 .. a |-> s[(a - i) + 1]] /\ v = [i \in 1 .. b |-> t[(b - i) + 1]]
    BY DEF Reverse
  <1>3. u \in Seq(S) /\ Len(u) = a
    <2>1. \A i \in 1 .. a : s[(a - i) + 1] \in S
      OBVIOUS
    <2> QED BY <1>1, <1>2, <2>1
  <1>4. v \in Seq(S) /\ Len(v) = b
    <2>1. \A i \in 1 .. b : t[(b - i) + 1] \in S
      OBVIOUS
    <2> QED BY <1>1, <1>2, <2>1
  <1>5. \A i \in 1 .. a : s[i] = t[i + (b - a)]
    OBVIOUS
  <1> HIDE DEF a, b, u, v
  <1>6. ASSUME NEW i \in 1 .. a PROVE u[i] = v[i]
    <2> DEFINE j == (a - i) + 1
    <2>1. j \in 1 .. a /\ j + (b - a) = (b - i) + 1 /\ i \in 1 .. b
      BY <1>1
    <2>2. u[i] = s[j] /\ v[i] = t[(b - i) + 1]
      BY <1>2, <2>1
    <2> HIDE DEF j
    <2>3. s[j] = t[j + (b - a)]
      BY <1>5, <2>1
    <2> QED BY <2>1, <2>2, <2>3
  <1>7. SubSeq(u, 1, a) = SubSeq(v, 1, a)
    <2>1. SubSeq(u, 1, a) = [i \in 1 .. a |-> u[i]] /\ SubSeq(v, 1, a) = [i \in 1 .. a |-> v[i]]
      BY <1>1, <1>3, <1>4
    <2> QED BY <1>6, <2>1
  <1> QED BY <1>1, <1>3, <1>4, <1>7 DEF IsSuffix, IsPrefix, u, v

LEMMA EndIsSuffix ==
  ASSUME NEW s \in Seq(Sample), NEW t \in Seq(Sample), EndOf(s, t)
  PROVE  IsSuffix(Data(s), Data(t)) /\ (Len(s) = Len(t) => Data(s) = Data(t))
  <1> DEFINE a == Len(s)
             b == Len(t)
             u == Data(s)
             v == Data(t)
             S == Age \X (Rtt \cup {NoRtt})
  <1>1. /\ u \in Seq(S) /\ v \in Seq(S) /\ Len(u) = a /\ Len(v) = b /\ a \in Nat /\ b \in Nat
        /\ u = [i \in 1 .. a |-> <<s[i].age, s[i].rtt>>]
        /\ v = [i \in 1 .. b |-> <<t[i].age, t[i].rtt>>]
    BY DataIs
  <1>2. a <= b /\ \A i \in 1 .. a : s[i].age = t[i + (b - a)].age /\ s[i].rtt = t[i + (b - a)].rtt
    BY DEF EndOf
  <1> HIDE DEF a, b, u, v, S
  <1>3. \A i \in 1 .. a : u[i] = v[i + (b - a)]
    <2> SUFFICES ASSUME NEW i \in 1 .. a PROVE u[i] = v[i + (b - a)]
      OBVIOUS
    <2> DEFINE j == i + (b - a)
    <2>1. j \in 1 .. b /\ s[i].age = t[j].age /\ s[i].rtt = t[j].rtt
      BY <1>1, <1>2
    <2> HIDE DEF j
    <2>2. u[i] = v[j]
      BY <1>1, <2>1
    <2> QED BY <2>2 DEF j
  <1>4. IsSuffix(u, v)
    BY <1>1, <1>2, <1>3, SuffixIs
  <1>5. a = b => u = v
    <2> SUFFICES ASSUME a = b PROVE u = v
      OBVIOUS
    <2>1. \A i \in 1 .. a : i + (b - a) = i
      BY <1>1
    <2>2. \A i \in 1 .. a : u[i] = v[i]
      BY <1>3, <2>1
    <2> QED BY <1>1, <2>2
  <1> QED BY <1>4, <1>5 DEF a, b, u, v

\* Two ends of one series are ends of each other.
LEMMA EndsCompare ==
  ASSUME NEW r \in Seq(Sample), NEW s \in Seq(Sample), NEW t \in Seq(Sample), EndOf(r, t), EndOf(s, t),
         Len(r) <= Len(s)
  PROVE  EndOf(r, s)
  <1> DEFINE a == Len(r)
             b == Len(s)
             c == Len(t)
  <1>1. /\ a \in Nat /\ b \in Nat /\ c \in Nat /\ a <= b /\ b <= c
        /\ DOMAIN r = 1 .. a /\ DOMAIN s = 1 .. b
    BY DEF EndOf
  <1>2. \A i \in 1 .. a : r[i].age = t[i + (c - a)].age /\ r[i].rtt = t[i + (c - a)].rtt
    BY <1>1 DEF EndOf
  <1>3. \A i \in 1 .. b : s[i].age = t[i + (c - b)].age /\ s[i].rtt = t[i + (c - b)].rtt
    BY <1>1 DEF EndOf
  <1> HIDE DEF a, b, c
  <1>4. ASSUME NEW i \in 1 .. a PROVE r[i].age = s[i + (b - a)].age /\ r[i].rtt = s[i + (b - a)].rtt
    <2> DEFINE j == i + (b - a)
    <2>1. j \in 1 .. b /\ j + (c - b) = i + (c - a)
      BY <1>1
    <2> HIDE DEF j
    <2>2. s[j].age = t[j + (c - b)].age /\ s[j].rtt = t[j + (c - b)].rtt
      BY <1>3, <2>1
    <2>3. r[i].age = t[i + (c - a)].age /\ r[i].rtt = t[i + (c - a)].rtt
      BY <1>2
    <2> QED BY <2>1, <2>2, <2>3 DEF j
  <1> QED BY <1>1, <1>4 DEF EndOf, a, b

LEMMA AgainSeries ==
  ASSUME TypeOK, NEW w \in Worker
  PROVE  Again(w) \in Series /\ Replayed(NameOf[w]) \in Series /\ Sunk(samples[NameOf[w]]) \in Series
  <1> DEFINE r == Replayed(NameOf[w])
  <1>1. r \in Series
    BY LoadedSeries, ReplayedLoads DEF TypeOK
  <1>2. smp[w] \in Sample /\ samples[NameOf[w]] \in Seq(Sample)
    BY WorkerType DEF Series
  <1> HIDE DEF r
  <1>3. Added(r, smp[w]) \in Series
    <2> DEFINE x == smp[w]
    <2>1. x \in Sample /\ r \in Seq(Sample) /\ Len(r) <= RingCap
      BY <1>1, <1>2 DEF Series
    <2> HIDE DEF x
    <2>2. Added(r, x) \in Seq(Sample) /\ Len(Added(r, x)) <= RingCap
      BY <2>1, AddedIs
    <2> QED BY <2>2 DEF Series, x
  <1>4. Sunk(samples[NameOf[w]]) \in Series
    BY <1>2, LoadedSeries DEF Sunk
  <1> QED BY <1>1, <1>3, <1>4 DEF Again, r

\* The invariant is what SinkFollowsStore says, and more.
LEMMA FollowShows == FollowInv => SinkFollowsStore
  <1> SUFFICES ASSUME FollowInv, NEW w \in Worker, up
               PROVE  Follows(w, Loaded(samples[NameOf[w]], {x \in Sample : x.kept}))
    BY DEF SinkFollowsStore
  <1> DEFINE s == samples[NameOf[w]]
             a == Again(w)
             b == Sunk(s)
  <1>1. TypeOK /\ Following(w)
    BY DEF FollowInv
  <1>2. a \in Series /\ b \in Series /\ a \in Seq(Sample) /\ b \in Seq(Sample)
    BY <1>1, AgainSeries DEF Series
  <1>3. PICK t \in Series : EndUnless(a, t, Len(log) = LogCap) /\ EndUnless(b, t, Len(s) = RingCap)
    BY <1>1 DEF Following
  <1>4. Len(a) \in Nat /\ Len(b) \in Nat /\ t \in Seq(Sample) /\ Len(t) \in Nat
    BY <1>2 DEF Series
  <1>5. \/ Data(b) = Data(a)
        \/ IsSuffix(Data(b), Data(a)) /\ Len(s) = RingCap
        \/ IsSuffix(Data(a), Data(b)) /\ Len(log) = LogCap
    <2> HIDE DEF a, b, s
    <2>1. EndOf(a, t) /\ EndOf(b, t) /\ Len(a) <= Len(t) /\ Len(b) <= Len(t)
      BY <1>3 DEF EndUnless, EndOf
    <2>2. CASE Len(a) = Len(b)
      <3>1. EndOf(b, a)
        BY <1>2, <1>4, <2>1, <2>2, EndsCompare
      <3> QED BY <1>2, <2>2, <3>1, EndIsSuffix
    <2>3. CASE Len(a) < Len(b)
      <3>1. Len(a) # Len(t) /\ Len(a) <= Len(b)
        BY <1>4, <2>1, <2>3
      <3>2. EndOf(a, b)
        BY <1>2, <1>4, <2>1, <3>1, EndsCompare
      <3> QED BY <1>2, <1>3, <3>1, <3>2, EndIsSuffix DEF EndUnless
    <2>4. CASE Len(b) < Len(a)
      <3>1. Len(b) # Len(t) /\ Len(b) <= Len(a)
        BY <1>4, <2>1, <2>4
      <3>2. EndOf(b, a)
        BY <1>2, <1>4, <2>1, <3>1, EndsCompare
      <3> QED BY <1>2, <1>3, <3>1, <3>2, EndIsSuffix DEF EndUnless
    <2> QED BY <1>4, <2>2, <2>3, <2>4
  <1> QED BY <1>5 DEF Follows, Data, Sunk, InSink, Again

\* A record more in a sequence of at most cap of them.
Cut(recs, x, cap) == IF Len(Append(recs, x)) > cap THEN Tail(Append(recs, x)) ELSE Append(recs, x)

\* What is loaded of it.
LEMMA CutShows ==
  ASSUME NEW recs \in Seq(Sample), NEW cap \in Nat \ {0}, Len(recs) <= cap, NEW x \in Sample, NEW S,
         NEW more, more = Cut(recs, x, cap)
  PROVE  /\ more \in Seq(Sample) /\ Loaded(more, S) \in Series
         /\ LoadNext(Loaded(recs, S), x, S) \in Series /\ Loaded(recs, S) \in Series
         /\ EndOf(Loaded(more, S), LoadNext(Loaded(recs, S), x, S))
         /\ \/ Len(more) = cap
            \/ Len(recs) # cap /\ Loaded(more, S) = LoadNext(Loaded(recs, S), x, S)
  <1> DEFINE u == Append(recs, x)
             r == Loaded(recs, S)
  <1>1. u \in Seq(Sample) /\ Len(u) = Len(recs) + 1 /\ Len(recs) \in Nat /\ Len(u) > 0
    OBVIOUS
  <1>2. Loaded(u, S) = LoadNext(r, x, S)
    BY LoadedAppend
  <1>3. r \in Series /\ Loaded(u, S) \in Series
    BY <1>1, LoadedSeries
  <1>4. more = IF Len(u) > cap THEN Tail(u) ELSE u
    BY DEF Cut
  <1> HIDE DEF u, r
  <1>5. CASE Len(u) > cap
    <2>1. Tail(u) \in Seq(Sample) /\ Len(Tail(u)) = Len(recs) /\ Len(recs) = cap
      BY <1>1, <1>5
    <2>2. EndOf(Loaded(Tail(u), S), Loaded(u, S)) /\ Loaded(Tail(u), S) \in Series
      BY <1>1, <2>1, LoadedTail, LoadedSeries
    <2> QED BY <1>2, <1>3, <1>4, <1>5, <2>1, <2>2 DEF r
  <1>6. CASE ~(Len(u) > cap)
    <2>1. Len(recs) # cap
      BY <1>1, <1>6
    <2>2. EndOf(Loaded(u, S), Loaded(u, S))
      BY <1>3, EndSelf DEF Series
    <2> QED BY <1>1, <1>2, <1>3, <1>4, <1>6, <2>1, <2>2 DEF r
  <1> QED BY <1>5, <1>6

LEMMA AddedTail ==
  ASSUME NEW s \in Series, NEW x \in Sample
  PROVE  Added(s, x) = Cut(s, x, RingCap)
  <1> DEFINE u == Append(s, x)
  <1>1. /\ u \in Seq(Sample) /\ Len(u) = Len(s) + 1 /\ Len(s) \in Nat /\ Len(s) <= RingCap
        /\ RingCap \in Nat \ {0}
    BY Sizes DEF Series
  <1>2. Added(s, x) = IF Len(u) > RingCap THEN SubSeq(u, Len(u) - RingCap + 1, Len(u)) ELSE u
    BY DEF Added, Trim
  <1> HIDE DEF u
  <1>3. ASSUME Len(u) > RingCap PROVE SubSeq(u, Len(u) - RingCap + 1, Len(u)) = Tail(u)
    <2>1. Len(u) - RingCap + 1 = 2
      BY <1>1, <1>3
    <2>2. SubSeq(u, 2, Len(u)) = Tail(u)
      BY <1>1
    <2> QED BY <2>1, <2>2
  <1> QED BY <1>2, <1>3 DEF Cut, u

\* A sample more in the series, and those of it that reached the history.
LEMMA SunkAdded ==
  ASSUME NEW s \in Series, NEW x \in Sample, NEW t \in Series, EndUnless(Sunk(s), t, Len(s) = RingCap)
  PROVE  EndUnless(Sunk(Added(s, x)), IF x.kept THEN Added(t, x) ELSE t, Len(Added(s, x)) = RingCap)
  <1> DEFINE r == Sunk(s)
             y == Dead(x)
             u == IF x.kept THEN Added(t, x) ELSE t
             more == Added(s, x)
  <1>1. s \in Seq(Sample) /\ Len(s) <= RingCap /\ RingCap \in Nat \ {0}
        /\ y \in Sample /\ y.age = x.age /\ y.rtt = x.rtt /\ (x \in InSink <=> x.kept)
    BY Sizes, DeadIs DEF Series, InSink
  <1>2. more = Cut(s, x, RingCap)
    BY AddedTail
  <1>3. r = Loaded(s, InSink) /\ Sunk(more) = Loaded(more, InSink)
    BY DEF Sunk
  <1>4. EndOf(r, t) /\ (Len(r) = Len(t) \/ Len(s) = RingCap)
    BY DEF EndUnless
  <1> HIDE DEF more, r, y, u
  <1>5. /\ Sunk(more) \in Series /\ LoadNext(r, x, InSink) \in Series /\ r \in Series
        /\ EndOf(Sunk(more), LoadNext(r, x, InSink))
        /\ (Len(more) = RingCap \/ (Len(s) # RingCap /\ Sunk(more) = LoadNext(r, x, InSink)))
    <2> DEFINE S == InSink
    <2> HIDE DEF S
    <2>1. s \in Seq(Sample) /\ Len(s) <= RingCap /\ RingCap \in Nat \ {0} /\ x \in Sample
      BY <1>1
    <2>2. /\ more \in Seq(Sample)
          /\ Loaded(more, S) \in Series /\ LoadNext(Loaded(s, S), x, S) \in Series /\ Loaded(s, S) \in Series
          /\ EndOf(Loaded(more, S), LoadNext(Loaded(s, S), x, S))
          /\ \/ Len(more) = RingCap
             \/ Len(s) # RingCap /\ Loaded(more, S) = LoadNext(Loaded(s, S), x, S)
      BY <1>2, <2>1, CutShows
    <2> QED BY <1>3, <2>2 DEF S
  <1>6. EndOf(LoadNext(r, x, InSink), u) /\ (Len(r) = Len(t) => Len(LoadNext(r, x, InSink)) = Len(u)) /\ u \in Series
    <2>1. CASE x.kept
      <3>1. LoadNext(r, x, InSink) = Added(r, y) /\ u = Added(t, x)
        BY <1>1, <2>1 DEF LoadNext, y, u
      <3>2. EndOf(Added(r, y), Added(t, x)) /\ (Len(r) = Len(t) => Len(Added(r, y)) = Len(Added(t, x)))
        BY <1>1, <1>4, <1>5, EndAdded
      <3>3. Added(t, x) \in Series
        BY AddedIs DEF Series
      <3> QED BY <3>1, <3>2, <3>3
    <2>2. CASE ~x.kept
      <3>1. LoadNext(r, x, InSink) = r /\ u = t
        BY <1>1, <2>2 DEF LoadNext, u
      <3> QED BY <1>4, <3>1
    <2> QED BY <2>1, <2>2
  <1> DEFINE q == LoadNext(r, x, InSink)
             z == Sunk(more)
  <1>7. z \in Seq(Sample) /\ q \in Seq(Sample) /\ u \in Seq(Sample)
    BY <1>5, <1>6 DEF Series
  <1>8. EndOf(z, q) /\ EndOf(q, u) /\ (Len(r) = Len(t) => Len(q) = Len(u))
        /\ (Len(more) = RingCap \/ (Len(s) # RingCap /\ z = q))
    BY <1>5, <1>6
  <1> HIDE DEF q, z
  <1>9. EndOf(z, u)
    BY <1>7, <1>8, EndTrans
  <1>10. Len(z) = Len(u) \/ Len(more) = RingCap
    BY <1>4, <1>8
  <1> QED BY <1>9, <1>10 DEF EndUnless, z, u, more

\* Of a series that reached the history nothing is left out.
LEMMA SunkWhole ==
  ASSUME NEW s \in Series, s \in Seq(InSink)
  PROVE  EndOf(Sunk(s), s) /\ Len(Sunk(s)) = Len(s)
  <1> DEFINE m == Len(s)
  <1>1. /\ s \in Seq(Sample) /\ m \in Nat /\ m <= RingCap /\ RingCap \in Nat
        /\ \A k \in 1 .. m : s[k] \in Sample /\ s[k] \in InSink
    BY Sizes DEF Series
  <1>2. PICK f : Loads(f, s, InSink) /\ Sunk(s) = f[Len(s)]
    BY <1>1, LoadsIs DEF Sunk
  <1>3. \A k \in 0 .. m : f[k] \in Series
    BY <1>1, <1>2, LoadsSeries
  <1> DEFINE Whole(k) == Len(f[k]) = k /\ \A i \in 1 .. k : f[k][i].age = s[i].age /\ f[k][i].rtt = s[i].rtt
             W == {k \in 0 .. m : ~Whole(k)}
  <1>4. W \subseteq 0 .. m
    OBVIOUS
  <1>5. 0 \notin W
    BY <1>2 DEF Loads
  <1>6. ASSUME NEW k \in 1 .. m, k - 1 \notin W PROVE k \notin W
    <2> DEFINE h == k - 1
               g == f[h]
               y == Dead(s[k])
    <2>1. h \in 0 .. m /\ k \in 1 .. Len(s) /\ h + 1 = k /\ h \in Nat
      BY <1>1
    <2>2. g \in Series /\ Len(g) = h /\ \A i \in 1 .. h : g[i].age = s[i].age /\ g[i].rtt = s[i].rtt
      BY <1>3, <1>6, <2>1
    <2>3. y \in Sample /\ y.age = s[k].age /\ y.rtt = s[k].rtt
      BY <1>1, DeadIs
    <2>4. f[k] = Added(g, y)
      <3>1. f[k] = LoadNext(f[k - 1], s[k], InSink)
        BY <1>2, <2>1 DEF Loads
      <3> QED BY <1>1, <3>1 DEF LoadNext
    <2> HIDE DEF g, y
    <2>5. Drop(g) = 0 /\ g \in Seq(Sample) /\ Len(g) <= RingCap
      BY <1>1, <2>1, <2>2 DEF Drop, Series
    <2>6. Len(f[k]) = k /\ f[k][k] = y /\ \A i \in 1 .. h : f[k][i] = g[i]
      <3>1. /\ Len(Added(g, y)) = Len(g) + 1 - Drop(g) /\ Added(g, y)[Len(g) + 1 - Drop(g)] = y
            /\ \A i \in 1 .. Len(g) - Drop(g) : Added(g, y)[i] = g[i + Drop(g)]
        BY <2>3, <2>5, AddedIs
      <3>2. Len(g) + 1 - Drop(g) = k /\ Len(g) - Drop(g) = h /\ \A i \in 1 .. h : i + Drop(g) = i
        BY <2>1, <2>2, <2>5
      <3> HIDE DEF h
      <3> QED BY <2>4, <3>1, <3>2
    <2>7. ASSUME NEW i \in 1 .. k PROVE f[k][i].age = s[i].age /\ f[k][i].rtt = s[i].rtt
      <3>1. i = k \/ i \in 1 .. h
        BY <2>1
      <3> HIDE DEF h
      <3> QED BY <2>2, <2>3, <2>6, <3>1
    <2> QED BY <2>6, <2>7
  <1>7. W = {}
    <2> HIDE DEF W, m
    <2> QED BY <1>1, <1>4, <1>5, <1>6, AlongLog
  <1>8. Whole(m)
    <2>1. m \in 0 .. m
      BY <1>1
    <2> QED BY <1>7, <2>1
  <1> DEFINE z == Sunk(s)
  <1>9. Len(z) = m /\ z \in Seq(Sample) /\ \A i \in 1 .. m : z[i].age = s[i].age /\ z[i].rtt = s[i].rtt
    <2>1. m \in 0 .. m
      BY <1>1
    <2> QED BY <1>2, <1>3, <1>8, <2>1 DEF Series
  <1> HIDE DEF z
  <1>10. EndOf(z, s)
    <2>1. DOMAIN z = 1 .. m /\ Len(z) <= Len(s) /\ \A i \in 1 .. m : i + (Len(s) - Len(z)) = i
      BY <1>1, <1>9
    <2> QED BY <1>9, <2>1 DEF EndOf
  <1> QED BY <1>9, <1>10 DEF z

LEMMA FollowStart ==
  ASSUME FollowInv, Start, NEW w \in Worker
  PROVE  Following(w)'
  <1> DEFINE n == NameOf[w]
             r == Replayed(n)
  <1>1. TypeOK /\ log \in Seq(InSink) /\ log \in Seq(Sample)
    BY DEF FollowInv, TypeOK
  <1>2. pc'[w] # "added" /\ log' = log /\ n \in Name
    BY <1>1, WorkerType DEF Start
  <1>3. samples'[n] = r /\ Replayed(n)' = r
    <2>1. samples'[n] = Replayed(n)
      BY <1>2 DEF Start
    <2> QED BY <1>2, <2>1, ReplayedLoads
  <1>4. r \in Series
    BY <1>1, AgainSeries
  <1>5. r \in Seq(InSink)
    <2>1. \A j \in DOMAIN log : log[j].kept
      BY <1>1 DEF InSink
    <2>2. r \in Seq(Sample) /\ \A i \in DOMAIN r : r[i].kept
      BY <1>1, <1>4, <2>1, ReplayedKept DEF Series
    <2> HIDE DEF r
    <2> QED BY <2>2 DEF InSink
  <1> HIDE DEF r
  <1>6. EndOf(r, r) /\ EndOf(Sunk(r), r) /\ Len(Sunk(r)) = Len(r)
    BY <1>4, <1>5, SunkWhole, EndSelf DEF Series
  <1>7. Again(w)' = r
    BY <1>2, <1>3 DEF Again
  <1>8. Sunk(samples[n])' = Sunk(r)
    BY <1>3 DEF Sunk
  <1>9. EndUnless(Again(w)', r, Len(log') = LogCap) /\ EndUnless(Sunk(samples[n])', r, Len(samples'[n]) = RingCap)
    BY <1>6, <1>7, <1>8 DEF EndUnless
  <1> QED BY <1>4, <1>9 DEF Following

LEMMA FollowTick ==
  ASSUME TypeOK, Tick, NEW w \in Worker, Following(w)
  PROVE  Following(w)'
  <1> DEFINE n == NameOf[w]
             s == samples[n]
             r == Replayed(n)
             a == Again(w)
             b == Sunk(s)
  <1>1. /\ samples'[n] = Aged(s) /\ log' = Aged(log) /\ pc' = pc /\ smp[w] \in Sample /\ s \in Series
        /\ (pc[w] = "added" => smp'[w] = Older(smp[w]))
    BY TickIs, WorkerType
  <1>2. a \in Series /\ r \in Series /\ b \in Series /\ log \in Seq(Sample) /\ Len(log') = Len(log)
    BY <1>1, AgainSeries, AgedIs DEF TypeOK
  <1>3. Replayed(n)' = Aged(r)
    <2> DEFINE S == Under(n)
    <2>1. \A x \in Sample : Older(x) \in S <=> x \in S
      BY UnderIs
    <2>2. r = Loaded(log, S) /\ Replayed(n)' = Loaded(log', S)
      BY ReplayedLoads
    <2> HIDE DEF S, r
    <2>3. Loaded(Aged(log), S) = Aged(Loaded(log, S))
      BY <1>2, <2>1, LoadedAged
    <2> QED BY <1>1, <2>2, <2>3
  <1>4. Sunk(samples[n])' = Aged(b)
    <2> DEFINE S == InSink
    <2>1. \A x \in Sample : Older(x) \in S <=> x \in S
      BY OlderIs DEF InSink
    <2>2. b = Loaded(s, S) /\ Sunk(samples[n])' = Loaded(Aged(s), S) /\ s \in Seq(Sample)
      BY <1>1 DEF Sunk, Series
    <2> HIDE DEF S, s, b
    <2>3. Loaded(Aged(s), S) = Aged(Loaded(s, S))
      BY <2>1, <2>2, LoadedAged
    <2> QED BY <2>2, <2>3
  <1>5. Again(w)' = Aged(a)
    <2>1. CASE pc[w] = "added" /\ smp[w].kept
      <3>1. pc'[w] = "added" /\ smp'[w].kept /\ a = Added(r, smp[w]) /\ smp'[w] = Older(smp[w])
        BY <1>1, <2>1, OlderIs DEF Again
      <3>2. Again(w)' = Added(Replayed(n)', smp'[w])
        BY <3>1 DEF Again
      <3>3. Aged(Added(r, smp[w])) = Added(Aged(r), Older(smp[w]))
        <4> DEFINE x == smp[w]
        <4>1. x \in Sample
          BY <1>1
        <4> HIDE DEF x, r
        <4>2. Aged(Added(r, x)) = Added(Aged(r), Older(x))
          BY <1>2, <4>1, AgedAdded
        <4> QED BY <4>2 DEF x
      <3> QED BY <1>3, <3>1, <3>2, <3>3
    <2>2. CASE pc[w] # "added"
      <3>1. pc'[w] # "added"
        BY <1>1, <2>2
      <3> QED BY <1>3, <2>2, <3>1 DEF Again
    <2>3. CASE pc[w] = "added" /\ ~smp[w].kept
      <3>1. ~smp'[w].kept
        BY <1>1, <2>3, OlderIs
      <3> QED BY <1>3, <2>3, <3>1 DEF Again
    <2> QED BY <2>1, <2>2, <2>3
  <1>6. PICK t \in Series : EndUnless(a, t, Len(log) = LogCap) /\ EndUnless(b, t, Len(s) = RingCap)
    BY DEF Following
  <1> DEFINE u == Aged(t)
  <1>7. Len(samples'[n]) = Len(s)
    BY <1>1, AgedSeries
  <1> HIDE DEF a, b, s
  <1>8. u \in Series /\ Len(u) = Len(t) /\ Len(Aged(a)) = Len(a) /\ Len(Aged(b)) = Len(b)
    BY <1>2, <1>6, AgedSeries
  <1>9. EndOf(Aged(a), u) /\ EndOf(Aged(b), u)
    BY <1>2, <1>6, EndAged DEF EndUnless, Series
  <1> HIDE DEF u
  <1>10. EndUnless(Again(w)', u, Len(log') = LogCap) /\ EndUnless(Sunk(samples[n])', u, Len(samples'[n]) = RingCap)
    BY <1>2, <1>4, <1>5, <1>6, <1>7, <1>8, <1>9 DEF EndUnless
  <1> QED BY <1>8, <1>10 DEF Following

\* A step that leaves alone what Following is about.
LEMMA FollowSame ==
  ASSUME NEW w \in Worker, Following(w), log' = log, samples'[NameOf[w]] = samples[NameOf[w]],
         (pc[w] # "added" /\ pc'[w] # "added") \/ (pc'[w] = pc[w] /\ smp'[w] = smp[w])
  PROVE  Following(w)'
  <1> DEFINE n == NameOf[w]
  <1>1. Replayed(n)' = Replayed(n)
    BY ReplayedLoads
  <1>2. Again(w)' = Again(w)
    BY <1>1 DEF Again
  <1>3. Sunk(samples[n])' = Sunk(samples[n]) /\ Len(samples'[n]) = Len(samples[n])
    BY DEF Sunk
  <1>4. PICK t \in Series : EndUnless(Again(w), t, Len(log) = LogCap)
                            /\ EndUnless(Sunk(samples[n]), t, Len(samples[n]) = RingCap)
    BY DEF Following
  <1>5. EndUnless(Again(w)', t, Len(log') = LogCap) /\ EndUnless(Sunk(samples[n])', t, Len(samples'[n]) = RingCap)
    BY <1>2, <1>3, <1>4
  <1> QED BY <1>4, <1>5 DEF Following

\* The worker adds a sample to its series: one that is on its way to the history now, or
\* one that does not reach it.
LEMMA FollowAdd ==
  ASSUME TypeOK, NEW w \in Worker, Following(w), NEW x \in Sample, log' = log, pc[w] # "added",
         samples' = [samples EXCEPT ![NameOf[w]] = Added(@, x)],
         (pc'[w] = "added" /\ smp'[w] = x) \/ (pc'[w] # "added" /\ ~x.kept)
  PROVE  Following(w)'
  <1> DEFINE n == NameOf[w]
             s == samples[n]
             r == Replayed(n)
  <1>1. n \in Name /\ s \in Series /\ r \in Series /\ Sunk(s) \in Series /\ Again(w) = r
    BY WorkerType, AgainSeries DEF Again
  <1>2. samples'[n] = Added(s, x)
    BY <1>1, AddSeries
  <1>3. PICK t \in Series : EndUnless(r, t, Len(log) = LogCap) /\ EndUnless(Sunk(s), t, Len(s) = RingCap)
    BY <1>1 DEF Following
  <1>4. Again(w)' = IF x.kept THEN Added(r, x) ELSE r
    <2>1. Replayed(n)' = r
      BY ReplayedLoads
    <2> QED BY <2>1 DEF Again
  <1>5. Sunk(samples[n])' = Sunk(Added(s, x))
    BY <1>2 DEF Sunk
  <1> DEFINE u == IF x.kept THEN Added(t, x) ELSE t
  <1>6. u \in Series
    BY AddedIs DEF Series
  <1>7. EndUnless(Sunk(Added(s, x)), u, Len(Added(s, x)) = RingCap)
    <2> HIDE DEF s
    <2> QED BY <1>1, <1>3, SunkAdded
  <1>8. EndUnless(Again(w)', u, Len(log') = LogCap)
    <2> HIDE DEF r
    <2>1. CASE x.kept
      <3>1. EndOf(Added(r, x), Added(t, x)) /\ (Len(r) = Len(t) => Len(Added(r, x)) = Len(Added(t, x)))
        BY <1>1, <1>3, EndAdded DEF EndUnless
      <3> QED BY <1>3, <1>4, <2>1, <3>1 DEF EndUnless
    <2>2. CASE ~x.kept
      BY <1>3, <1>4, <2>2
    <2> QED BY <2>1, <2>2
  <1> HIDE DEF u, s
  <1>9. EndUnless(Sunk(samples[n])', u, Len(samples'[n]) = RingCap)
    BY <1>2, <1>5, <1>7
  <1> QED BY <1>6, <1>8, <1>9 DEF Following

\* A worker's sample becomes a record: what a restart would show loses no more than
\* what a full history has no room for.
LEMMA AgainPersist ==
  ASSUME OwnNames, TypeOK, NEW v \in Worker, smp[v].by = v, Persist(v), smp[v].kept, NEW w \in Worker
  PROVE  /\ Again(w)' \in Series /\ EndOf(Again(w)', Again(w))
         /\ Len(log') = LogCap \/ (Len(log) # LogCap /\ Len(Again(w)') = Len(Again(w)))
  <1> DEFINE n == NameOf[w]
             r == Replayed(n)
             x == smp[v]
             S == Under(n)
             q == LoadNext(r, x, S)
             r1 == Replayed(n)'
  <1>1. /\ x \in Sample /\ n \in Name /\ r \in Series /\ log \in Seq(Sample) /\ Len(log) <= LogCap
        /\ LogCap \in Nat \ {0} /\ smp[w] \in Sample
    BY WorkerType, AgainSeries, Sizes DEF TypeOK
  <1>2. /\ log' = Cut(log, x, LogCap)
        /\ pc[v] = "added" /\ pc'[v] = "waiting" /\ (w # v => pc'[w] = pc[w] /\ smp'[w] = smp[w])
    BY DEF Persist, TypeOK, Logged, Cut
  <1>3. r = Loaded(log, S) /\ r1 = Loaded(log', S)
    BY ReplayedLoads
  <1>4. x \in S <=> w = v
    <2>1. x.by = v
      OBVIOUS
    <2> HIDE DEF x, S
    <2>2. x \in Under(n) <=> NameOf[v] = n
      BY <1>1, <2>1, UnderIs
    <2> QED BY <2>2 DEF OwnNames, S
  <1>5. /\ r1 \in Series /\ q \in Series /\ EndOf(r1, q)
        /\ (Len(log') = LogCap \/ (Len(log) # LogCap /\ r1 = q))
    <2> HIDE DEF S, x, r, r1
    <2>1. /\ log' \in Seq(Sample) /\ Loaded(log', S) \in Series
          /\ LoadNext(Loaded(log, S), x, S) \in Series /\ Loaded(log, S) \in Series
          /\ EndOf(Loaded(log', S), LoadNext(Loaded(log, S), x, S))
          /\ \/ Len(log') = LogCap
             \/ Len(log) # LogCap /\ Loaded(log', S) = LoadNext(Loaded(log, S), x, S)
      BY <1>1, <1>2, CutShows
    <2> QED BY <1>3, <2>1
  <1>6. CASE w = v
    <2> DEFINE y == Dead(x)
    <2>1. Again(w) = Added(r, x) /\ Again(w)' = r1 /\ q = Added(r, y)
      BY <1>2, <1>4, <1>6 DEF Again, LoadNext
    <2>2. y \in Sample /\ y.age = x.age /\ y.rtt = x.rtt /\ EndOf(r, r)
      BY <1>1, DeadIs, EndSelf DEF Series
    <2> HIDE DEF x, y, q, r, r1
    <2>3. EndOf(Added(r, y), Added(r, x)) /\ Len(Added(r, y)) = Len(Added(r, x)) /\ Added(r, x) \in Series
      BY <1>1, <2>2, EndAdded, AddedIs DEF Series
    <2>4. EndOf(r1, Added(r, x))
      BY <1>5, <2>1, <2>3, EndTrans DEF Series
    <2> QED BY <1>5, <2>1, <2>3, <2>4
  <1>7. CASE w # v
    <2>1. q = r
      BY <1>4, <1>7 DEF LoadNext
    <2>2. CASE pc[w] = "added" /\ smp[w].kept
      <3> DEFINE z == smp[w]
      <3>1. Again(w) = Added(r, z) /\ Again(w)' = Added(r1, z) /\ z \in Sample
        BY <1>1, <1>2, <1>7, <2>2 DEF Again
      <3> HIDE DEF z, q, r, r1
      <3>2. EndOf(Added(r1, z), Added(r, z)) /\ Added(r1, z) \in Series
        BY <1>1, <1>5, <2>1, <3>1, EndAdded, AddedIs DEF Series
      <3> QED BY <1>5, <2>1, <3>1, <3>2
    <2>3. CASE ~(pc[w] = "added" /\ smp[w].kept)
      <3>1. Again(w) = r /\ Again(w)' = r1
        BY <1>2, <1>7, <2>3 DEF Again
      <3> HIDE DEF q, r, r1
      <3> QED BY <1>5, <2>1, <3>1
    <2> QED BY <2>2, <2>3
  <1> QED BY <1>6, <1>7

LEMMA FollowPersist ==
  ASSUME OwnNames, TypeOK, NEW v \in Worker, smp[v].by = v, Persist(v), NEW w \in Worker, Following(w)
  PROVE  Following(w)'
  <1> DEFINE n == NameOf[w]
             s == samples[n]
             a == Again(w)
             a1 == Again(w)'
  <1>1. samples' = samples /\ pc[v] = "added" /\ pc'[v] = "waiting"
        /\ (w # v => pc'[w] = pc[w] /\ smp'[w] = smp[w])
    BY DEF Persist, TypeOK
  <1>2. PICK t \in Series : EndUnless(a, t, Len(log) = LogCap) /\ EndUnless(Sunk(s), t, Len(s) = RingCap)
    BY DEF Following
  <1>3. Sunk(samples[n])' = Sunk(s) /\ samples'[n] = s
    BY <1>1 DEF Sunk
  <1>4. a \in Series
    BY AgainSeries
  <1>5. EndUnless(a1, t, Len(log') = LogCap)
    <2>1. CASE smp[v].kept
      <3>1. /\ a1 \in Series /\ EndOf(a1, a)
            /\ Len(log') = LogCap \/ (Len(log) # LogCap /\ Len(a1) = Len(a))
        BY <2>1, AgainPersist
      <3> HIDE DEF a, a1
      <3>2. EndOf(a, t) /\ (Len(a) = Len(t) \/ Len(log) = LogCap)
        BY <1>2 DEF EndUnless
      <3>3. EndOf(a1, t)
        BY <1>4, <3>1, <3>2, EndTrans DEF Series
      <3> QED BY <3>1, <3>2, <3>3 DEF EndUnless
    <2>2. CASE ~smp[v].kept
      <3>1. log' = log
        BY <2>2 DEF Persist
      <3>2. Replayed(n)' = Replayed(n)
        BY <3>1, ReplayedLoads
      <3>3. a1 = a
        BY <1>1, <2>2, <3>2 DEF Again
      <3> HIDE DEF a, a1
      <3> QED BY <1>2, <3>1, <3>3
    <2> QED BY <2>1, <2>2
  <1>6. EndUnless(Sunk(samples[n])', t, Len(samples'[n]) = RingCap)
    <2> HIDE DEF s
    <2> QED BY <1>2, <1>3
  <1> QED BY <1>5, <1>6 DEF Following

\* What the workers do.
LEMMA FollowWork ==
  ASSUME OwnNames, TypeOK, NEW v \in Worker, smp[v].by = v, Work(v), NEW w \in Worker, Following(w)
  PROVE  Following(w)'
  <1>1. NameOf[v] \in Name /\ NameOf[w] \in Name /\ (w # v => NameOf[w] # NameOf[v])
    BY WorkerType DEF OwnNames
  <1>2. CASE Probe(v) \/ Sampled(v)
    <2>1. log' = log /\ samples' = samples /\ pc[v] # "added" /\ pc'[v] # "added"
          /\ (w # v => pc'[w] = pc[w] /\ smp'[w] = smp[w])
      BY <1>2 DEF Probe, Sampled, TypeOK
    <2> QED BY <2>1, FollowSame
  <1>3. CASE Unresolved(v)
    <2> DEFINE x == Taken(v, NoRtt, FALSE)
    <2>1. /\ log' = log /\ smp' = smp /\ pc' = pc /\ pc[v] # "added"
          /\ samples' = [samples EXCEPT ![NameOf[v]] = Added(@, x)]
      BY <1>3 DEF Unresolved
    <2>2. x \in Sample /\ ~x.kept
      <3>1. ~x.kept
        BY DEF Taken
      <3> QED BY <3>1, LostType
    <2> HIDE DEF x
    <2>3. CASE w = v
      BY <2>1, <2>2, <2>3, FollowAdd
    <2>4. CASE w # v
      <3>1. samples'[NameOf[w]] = samples[NameOf[w]]
        BY <1>1, <2>1, <2>2, <2>4, AddSeries
      <3> QED BY <2>1, <3>1, FollowSame
    <2> QED BY <2>3, <2>4
  <1>4. CASE AddPing(v)
    <2> DEFINE x == smp[v]
    <2>1. /\ log' = log /\ smp' = smp /\ pc[v] # "added" /\ pc'[v] = "added" /\ (w # v => pc'[w] = pc[w])
          /\ samples' = [samples EXCEPT ![NameOf[v]] = Added(@, x)]
      BY <1>4 DEF AddPing, TypeOK
    <2>2. x \in Sample /\ smp'[v] = x
      BY <2>1, WorkerType
    <2> HIDE DEF x
    <2>3. CASE w = v
      BY <2>1, <2>2, <2>3, FollowAdd
    <2>4. CASE w # v
      <3>1. samples'[NameOf[w]] = samples[NameOf[w]]
        BY <1>1, <2>1, <2>2, <2>4, AddSeries
      <3> QED BY <2>1, <2>4, <3>1, FollowSame
    <2> QED BY <2>3, <2>4
  <1>5. CASE Persist(v)
    BY <1>5, FollowPersist
  <1> QED BY <1>2, <1>3, <1>4, <1>5 DEF Work

\* Nothing is in the log that did not go there.
LEMMA LogKept ==
  ASSUME FollowInv, Next
  PROVE  log' \in Seq(InSink)
  <1>1. TypeOK /\ log \in Seq(InSink) /\ log \in Seq(Sample) /\ Len(log) <= LogCap
    BY DEF FollowInv, TypeOK
  <1>2. CASE Start
    BY <1>1, <1>2 DEF Start
  <1>3. CASE Stop
    <2>1. log' = log \/ log' \in Left(log)
      BY <1>3 DEF Stop
    <2> QED BY <1>1, <2>1, LeftIs
  <1>4. CASE Tick
    <2>1. log' = Aged(log)
      BY <1>4, TickIs
    <2>2. Len(Aged(log)) = Len(log) /\ \A i \in DOMAIN log : Aged(log)[i] = Older(log[i])
      BY <1>1, AgedIs
    <2>3. \A i \in DOMAIN log : log[i] \in Sample /\ log[i].kept /\ Older(log[i]) \in InSink
      BY <1>1, OlderIs DEF InSink
    <2>4. Aged(log) = [i \in 1 .. Len(log) |-> Older(log[i])]
      BY <1>1 DEF Aged
    <2> QED BY <1>1, <2>1, <2>3, <2>4
  <1>5. ASSUME NEW v \in Worker, Work(v) PROVE log' \in Seq(InSink)
    <2>1. CASE log' = log
      BY <1>1, <2>1
    <2>2. CASE Persist(v) /\ smp[v].kept
      <3> DEFINE x == smp[v]
                 u == Append(log, x)
      <3>1. x \in InSink
        BY <1>1, <2>2, WorkerType DEF InSink
      <3>2. log' = IF Len(u) > LogCap THEN Tail(u) ELSE u
        BY <2>2 DEF Persist, Logged
      <3>3. u \in Seq(InSink) /\ Len(u) > 0
        BY <1>1, <3>1
      <3> HIDE DEF u
      <3>4. Tail(u) \in Seq(InSink)
        BY <3>3
      <3> QED BY <3>2, <3>3, <3>4
    <2>3. log' = log \/ (Persist(v) /\ smp[v].kept)
      BY <1>5 DEF Work, Probe, Unresolved, Sampled, AddPing, Persist
    <2> QED BY <2>1, <2>2, <2>3
  <1> QED BY <1>2, <1>3, <1>4, <1>5 DEF Next

LEMMA FollowNext ==
  ASSUME OwnNames
  PROVE  FollowInv /\ [Next]_vars => FollowInv'
  <1> SUFFICES ASSUME FollowInv, [Next]_vars PROVE FollowInv'
    OBVIOUS
  <1>1. TypeOK /\ TypeOK' /\ (\A w \in Worker : smp[w].by = w) /\ log \in Seq(InSink)
    BY NextType DEF FollowInv
  <1>2. CASE UNCHANGED vars
    <2>1. UNCHANGED <<up, samples, log, pc, smp>>
      BY <1>2 DEF vars, worker
    <2>2. ASSUME NEW w \in Worker, Following(w) PROVE Following(w)'
      BY <2>1, <2>2, FollowSame
    <2> QED BY <1>1, <2>1, <2>2 DEF FollowInv
  <1>3. CASE Start
    <2>1. smp' = smp
      BY <1>3 DEF Start
    <2>2. \A w \in Worker : Following(w)'
      BY <1>3, FollowStart
    <2>3. log' \in Seq(InSink)
      BY <1>3, LogKept DEF Next
    <2> QED BY <1>1, <2>1, <2>2, <2>3 DEF FollowInv
  <1>4. CASE Stop
    <2>1. ~up' /\ smp' = [w \in Worker |-> NoSample(w)]
      BY <1>4 DEF Stop
    <2>2. \A w \in Worker : smp'[w].by = w
      BY <2>1, NoSampleType
    <2>3. log' \in Seq(InSink)
      BY <1>4, LogKept DEF Next
    <2> QED BY <1>1, <2>1, <2>2, <2>3 DEF FollowInv
  <1>5. CASE Tick
    <2>1. up' = up /\ smp' = [w \in Worker |-> IF pc[w] \in {"stamped", "added"} THEN Older(smp[w]) ELSE smp[w]]
      BY <1>5, TickIs
    <2>2. ASSUME NEW w \in Worker PROVE smp'[w].by = w
      <3>1. smp[w] \in Sample /\ smp[w].by = w
        BY <1>1, WorkerType
      <3>2. Older(smp[w]).by = w
        BY <3>1, OlderIs
      <3> QED BY <2>1, <3>1, <3>2
    <2>3. ASSUME up, NEW w \in Worker PROVE Following(w)'
      BY <1>1, <1>5, <2>3, FollowTick DEF FollowInv
    <2>4. log' \in Seq(InSink)
      BY <1>5, LogKept DEF Next
    <2> QED BY <1>1, <2>1, <2>2, <2>3, <2>4 DEF FollowInv
  <1>6. ASSUME NEW v \in Worker, Work(v) PROVE FollowInv'
    <2>1. up' = up
      BY <1>6 DEF Work, Probe, Unresolved, Sampled, AddPing, Persist
    <2>2. \A w \in Worker : smp'[w].by = w
      <3>1. CASE smp' = smp
        BY <1>1, <3>1
      <3>2. CASE \E r \in Rtt \cup {NoRtt}, k \in BOOLEAN : smp' = [smp EXCEPT ![v] = Taken(v, r, k)]
        <4>1. PICK r \in Rtt \cup {NoRtt}, k \in BOOLEAN : smp' = [smp EXCEPT ![v] = Taken(v, r, k)]
          BY <3>2
        <4>2. Taken(v, r, k).by = v
          BY TakenType
        <4>3. \A w \in Worker : smp'[w] = IF w = v THEN Taken(v, r, k) ELSE smp[w]
          BY <1>1, <4>1 DEF TypeOK
        <4> QED BY <1>1, <4>2, <4>3
      <3>3. smp' = smp \/ \E r \in Rtt \cup {NoRtt}, k \in BOOLEAN : smp' = [smp EXCEPT ![v] = Taken(v, r, k)]
        BY <1>6 DEF Work, Probe, Unresolved, Sampled, AddPing, Persist, Outcomes, Kept, NoSample
      <3> QED BY <3>1, <3>2, <3>3
    <2>3. ASSUME up, NEW w \in Worker PROVE Following(w)'
      <3>1. Following(w)
        BY <2>3 DEF FollowInv
      <3> QED BY <1>1, <1>6, <3>1, FollowWork
    <2>4. log' \in Seq(InSink)
      BY <1>6, LogKept DEF Next
    <2> QED BY <1>1, <2>1, <2>2, <2>3, <2>4 DEF FollowInv
  <1> QED BY <1>2, <1>3, <1>4, <1>5, <1>6 DEF Next

\* Where no two targets share a name: a restart, after a kill as after a stop, would show
\* of every target what is shown now, but for the samples that never reached the history,
\* dropped on the way or lost with a lookup that failed, and for what the ring or the
\* history has no room for, whatever the other targets do to the history they share
\* (prober.go:17, 76-87; history.go:152-158; store.go:153-170).
THEOREM SinkFollows == ASSUME OwnNames PROVE Spec => []SinkFollowsStore
  <1>1. Init => FollowInv
    <2> SUFFICES ASSUME Init PROVE FollowInv
      OBVIOUS
    <2>1. TypeOK /\ ~up /\ smp = [w \in Worker |-> NoSample(w)] /\ log \in Seq(InSink)
      BY InitType DEF Init
    <2>2. \A w \in Worker : smp[w].by = w
      BY <2>1, NoSampleType
    <2> QED BY <2>1, <2>2 DEF FollowInv
  <1>2. FollowInv /\ [Next]_vars => FollowInv'
    BY FollowNext
  <1>3. FollowInv => SinkFollowsStore
    BY FollowShows
  <1> QED BY <1>1, <1>2, <1>3, PTL DEF Spec

(***************************************************************************)
(* The score of a call.                                                    *)
(***************************************************************************)

\* A quotient, whatever the divisor.
LEMMA DivIs ==
  ASSUME NEW a \in Int, NEW d \in Nat, d > 0
  PROVE  a \div d \in Int /\ (a \div d) * d <= a /\ a < (a \div d) * d + d
  <1> DEFINE q == a \div d
             p == q * d
             e == a % d
  <1>1. q \in Int /\ a = p + e /\ e \in 0 .. d - 1
    OBVIOUS
  <1> HIDE DEF q, e
  <1>2. p \in Int
    BY <1>1
  <1> HIDE DEF p
  <1>3. p <= a /\ a < p + d
    BY <1>1, <1>2
  <1> QED BY <1>1, <1>3 DEF p, q

\* What the score is a hundred-thousandth part of, above ten thousand.
Cubic(r) == r * (1600 * r - r * r - 100000)

LEMMA CubicRises ==
  ASSUME NEW r \in Nat, NEW s \in Nat, 65 <= r, r <= s, s <= 1000
  PROVE  Cubic(r) \in Int /\ Cubic(s) \in Int /\ Cubic(r) <= Cubic(s)
  <1> DEFINE rr == r * r
             ss == s * s
             sr == s * r
             up1 == 1600 * (s + r) - (ss + sr + rr) - 100000
  <1>1. rr \in Int /\ ss \in Int /\ sr \in Int
    OBVIOUS
  <1>2. rr <= 1065 * r - 65000
    <2>1. (r - 65) * (1000 - r) >= 0
      <3> DEFINE x == r - 65
                 y == 1000 - r
      <3>1. x \in Nat /\ y \in Nat
        OBVIOUS
      <3> HIDE DEF x, y
      <3>2. x * y >= 0
        BY <3>1
      <3> QED BY <3>2 DEF x, y
    <2>2. (r - 65) * (1000 - r) = 1065 * r - 65000 - rr
      OBVIOUS
    <2> QED BY <1>1, <2>1, <2>2
  <1>3. ss <= 1065 * s - 65000
    <2>1. (s - 65) * (1000 - s) >= 0
      <3> DEFINE x == s - 65
                 y == 1000 - s
      <3>1. x \in Nat /\ y \in Nat
        OBVIOUS
      <3> HIDE DEF x, y
      <3>2. x * y >= 0
        BY <3>1
      <3> QED BY <3>2 DEF x, y
    <2>2. (s - 65) * (1000 - s) = 1065 * s - 65000 - ss
      OBVIOUS
    <2> QED BY <1>1, <2>1, <2>2
  <1>4. 2 * sr <= ss + rr
    <2>1. (s - r) * (s - r) >= 0
      <3> DEFINE x == s - r
      <3>1. x \in Nat
        OBVIOUS
      <3> HIDE DEF x
      <3>2. x * x >= 0
        BY <3>1
      <3> QED BY <3>2 DEF x
    <2>2. (s - r) * (s - r) = ss + rr - 2 * sr
      OBVIOUS
    <2> QED BY <1>1, <2>1, <2>2
  <1>5. Cubic(s) - Cubic(r) = (s - r) * up1 /\ Cubic(r) \in Int /\ Cubic(s) \in Int
    BY DEF Cubic
  <1> HIDE DEF rr, ss, sr
  <1>6. up1 \in Nat
    BY <1>1, <1>2, <1>3, <1>4
  <1> HIDE DEF up1
  <1>7. (s - r) * up1 >= 0
    <2> DEFINE x == s - r
    <2>1. x \in Nat
      OBVIOUS
    <2> HIDE DEF x
    <2>2. x * up1 >= 0
      BY <1>6, <2>1
    <2> QED BY <2>2 DEF x
  <1> DEFINE a == Cubic(r)
             b == Cubic(s)
             z == (s - r) * up1
  <1>8. z \in Int
    BY <1>6
  <1>9. a \in Int /\ b \in Int /\ z \in Int /\ b - a = z /\ z >= 0
    BY <1>5, <1>7, <1>8
  <1> HIDE DEF a, b, z
  <1>10. a <= b
    BY <1>9
  <1> QED BY <1>9, <1>10 DEF a, b

LEMMA CubicLow ==
  ASSUME NEW r \in Nat, r <= 65
  PROVE  Cubic(r) \in Int /\ Cubic(r) <= 0
  <1> DEFINE rr == r * r
             c == 1600 * r - rr - 100000
  <1>1. rr \in Int /\ Cubic(r) = r * c /\ c \in Int
    BY DEF Cubic
  <1>4. rr >= 130 * r - 4225
    <2> DEFINE x == 65 - r
    <2>1. x \in Nat
      OBVIOUS
    <2>2. x * x = rr - 130 * r + 4225
      OBVIOUS
    <2> HIDE DEF x
    <2>3. x * x >= 0 /\ x * x \in Int
      BY <2>1
    <2> QED BY <1>1, <2>2, <2>3
  <1> HIDE DEF rr
  <1>2. c <= 0
    BY <1>1, <1>4
  <1> HIDE DEF c
  <1>3. r * c <= 0 /\ r * c \in Int
    <2> DEFINE d == 0 - c
    <2>1. d \in Nat /\ r \in Nat
      BY <1>1, <1>2
    <2>2. r * c = 0 - (r * d)
      BY <1>1
    <2> HIDE DEF d
    <2>3. r * d \in Nat
      BY <2>1
    <2> DEFINE p == r * d
    <2>4. p \in Nat /\ r * c = 0 - p
      BY <2>2, <2>3
    <2> HIDE DEF p
    <2> QED BY <2>4
  <1> QED BY <1>1, <1>3

\* The score before it is cut off at its ends.
Grade(r) == 10000 + 35 * r + (7 * r * (r - 600) * (1000 - r)) \div 100000

LEMMA GradeIs ==
  ASSUME NEW r \in Nat, r <= 1000
  PROVE  /\ Grade(r) \in Int /\ Cubic(r) \in Int
         /\ 100000 * (Grade(r) - 10000) <= 7 * Cubic(r)
         /\ 7 * Cubic(r) < 100000 * (Grade(r) - 10000) + 100000
  <1> DEFINE b == 7 * r * (r - 600) * (1000 - r)
             q == b \div 100000
             c == Cubic(r)
  <1>1. b \in Int /\ c \in Int
    BY DEF Cubic
  <1>2. b + 3500000 * r = 7 * c
    BY DEF Cubic
  <1>3. Grade(r) = 10000 + 35 * r + q
    BY DEF Grade
  <1> HIDE DEF b, c
  <1>4. q \in Int /\ 100000 * q <= b /\ b < 100000 * q + 100000
    BY <1>1
  <1> HIDE DEF q
  <1> QED BY <1>1, <1>2, <1>3, <1>4 DEF c

\* The score for R, cut off.
Score(r) == IF Grade(r) < 10000 THEN 10000 ELSE IF Grade(r) > 45000 THEN 45000 ELSE Grade(r)

LEMMA ScoreRises ==
  ASSUME NEW r \in Nat, NEW s \in Nat, r <= s, s <= 1000
  PROVE  /\ Score(r) \in Int /\ Score(s) \in Int /\ Score(r) <= Score(s)
         /\ 10000 <= Score(r) /\ Score(s) <= 45000
  <1> DEFINE g == Grade(r)
             h == Grade(s)
             a == Cubic(r)
             b == Cubic(s)
  <1>1. /\ g \in Int /\ a \in Int /\ 100000 * (g - 10000) <= 7 * a /\ 7 * a < 100000 * (g - 10000) + 100000
        /\ h \in Int /\ b \in Int /\ 100000 * (h - 10000) <= 7 * b /\ 7 * b < 100000 * (h - 10000) + 100000
    <2>1. g \in Int /\ a \in Int /\ 100000 * (g - 10000) <= 7 * a /\ 7 * a < 100000 * (g - 10000) + 100000
      BY GradeIs
    <2>2. h \in Int /\ b \in Int /\ 100000 * (h - 10000) <= 7 * b /\ 7 * b < 100000 * (h - 10000) + 100000
      BY GradeIs
    <2> HIDE DEF g, h, a, b
    <2> QED BY <2>1, <2>2
  <1>2. Score(r) = (IF g < 10000 THEN 10000 ELSE IF g > 45000 THEN 45000 ELSE g)
        /\ Score(s) = (IF h < 10000 THEN 10000 ELSE IF h > 45000 THEN 45000 ELSE h)
    BY DEF Score
  <1>3. r <= 65 => a <= 0
    BY CubicLow
  <1>4. r > 65 => a <= b
    <2> SUFFICES ASSUME r > 65 PROVE a <= b
      OBVIOUS
    <2>1. 65 <= r
      OBVIOUS
    <2> QED BY <2>1, CubicRises
  <1> HIDE DEF g, h, a, b
  <1>5. g <= 10000 \/ g <= h
    <2>1. CASE r <= 65
      BY <1>1, <1>3, <2>1
    <2>2. CASE r > 65
      BY <1>1, <1>4, <2>2
    <2> QED BY <2>1, <2>2
  <1> DEFINE x == Score(r)
             y == Score(s)
  <1>6. /\ x = (IF g < 10000 THEN 10000 ELSE IF g > 45000 THEN 45000 ELSE g)
        /\ y = (IF h < 10000 THEN 10000 ELSE IF h > 45000 THEN 45000 ELSE h)
    BY <1>2
  <1> HIDE DEF x, y
  <1>7. x \in Int /\ 10000 <= x /\ x <= 45000 /\ y \in Int /\ 10000 <= y /\ y <= 45000
    BY <1>1, <1>6
  <1>8. x <= y
    BY <1>1, <1>5, <1>6
  <1> QED BY <1>7, <1>8 DEF x, y

\* The penalty of the latency l, and R.
Delay(l) == IF l < 160 THEN l \div 4 ELSE l - 120

LEMMA DelayRises ==
  ASSUME NEW l \in Nat, NEW m \in Nat, l <= m
  PROVE  Delay(l) \in Nat /\ Delay(m) \in Nat /\ Delay(l) <= Delay(m)
  BY DEF Delay

LEMMA RFalls ==
  ASSUME NEW t \in Nat, NEW u \in Nat, NEW j \in Nat, NEW k \in Nat, NEW l \in Nat, NEW m \in Nat,
         t <= u, j <= k, l <= m
  PROVE  /\ RFactor(t, j, l) \in Nat /\ RFactor(t, j, l) <= 1000 /\ RFactor(u, k, m) \in Nat
         /\ RFactor(u, k, m) <= RFactor(t, j, l)
  <1> DEFINE e == t \div 2 + 2 * j + 10
             f == u \div 2 + 2 * k + 10
             d == Delay(e)
             c == Delay(f)
  <1>1. e \in Nat /\ f \in Nat /\ e <= f
    OBVIOUS
  <1> HIDE DEF e, f
  <1>2. d \in Nat /\ c \in Nat /\ d <= c
    BY <1>1, DelayRises
  <1>3. RFactor(t, j, l) = Clamped(932 - d - 25 * l) /\ RFactor(u, k, m) = Clamped(932 - c - 25 * m)
    BY DEF RFactor, Delay, e, f
  <1> HIDE DEF d, c
  <1> QED BY <1>2, <1>3 DEF Clamped

LEMMA MosFalls ==
  ASSUME NEW t \in Nat, NEW u \in Nat, NEW j \in Nat, NEW k \in Nat, NEW l \in Nat, NEW m \in Nat,
         t <= u, j <= k, l <= m
  PROVE  10000 <= Mos(t, j, l) /\ Mos(t, j, l) <= 45000 /\ Mos(u, k, m) <= Mos(t, j, l)
  <1> DEFINE r == RFactor(t, j, l)
             s == RFactor(u, k, m)
  <1>1. r \in Nat /\ r <= 1000 /\ s \in Nat /\ s <= r /\ r <= r
    <2>1. r \in Nat /\ r <= 1000 /\ s \in Nat /\ s <= r
      BY RFalls
    <2> HIDE DEF r, s
    <2> QED BY <2>1
  <1>2. Mos(t, j, l) = Score(r) /\ Mos(u, k, m) = Score(s)
    BY DEF Mos, Score, Grade
  <1> HIDE DEF r, s
  <1> DEFINE x == Score(r)
             y == Score(s)
  <1>3. 10000 <= x /\ x <= 45000 /\ y <= x
    BY <1>1, ScoreRises
  <1>4. Mos(t, j, l) = x /\ Mos(u, k, m) = y
    BY <1>2
  <1> HIDE DEF x, y
  <1> QED BY <1>3, <1>4

LEMMA SumIsNat ==
  ASSUME NEW rtts \in Seq(Nat), Len(rtts) > 0
  PROVE  Total(rtts) \in Nat
  <1> DEFINE k == Len(Sorted(rtts))
             hi == Sorted(rtts)[k]
  <1>1. Sorted(rtts) \in Seq(Nat) /\ k = Len(rtts) /\ \A i \in 1 .. k : rtts[i] <= hi
    BY SortedIs
  <1>2. hi \in Nat /\ k \in Nat /\ DOMAIN rtts = 1 .. k
    BY <1>1, TimesAre
  <1> HIDE DEF hi, k
  <1>3. \A i \in DOMAIN rtts : 0 <= rtts[i] /\ rtts[i] <= hi
    BY <1>1, <1>2, TimesAre
  <1> QED BY <1>2, <1>3, TotalIs

\* One probe more, and it is lost.
LEMMA LossRises ==
  ASSUME NEW o \in Nat, NEW n \in Nat, o <= n
  PROVE  LET share(m) == IF m = 0 THEN 0 ELSE (100 * (m - o)) \div m
         IN  share(n) \in Nat /\ share(n + 1) \in Nat /\ share(n) <= share(n + 1)
  <1> DEFINE x == (100 * (n - o)) \div n
             m == n + 1
             y == (100 * (m - o)) \div m
             c == 100 * (n - o)
             d == 100 * (m - o)
  <1>1. /\ m \in Nat \ {0} /\ c \in Nat /\ d \in Nat /\ d = c + 100 /\ c <= 100 * n /\ d <= 100 * m
    OBVIOUS
  <1>2. x = c \div n /\ y = d \div m
    OBVIOUS
  <1> HIDE DEF c, d
  <1>3. y \in Nat
    <2>1. m * 0 <= d /\ d <= m * 100
      BY <1>1
    <2>2. 0 <= d \div m /\ d \div m <= 100
      BY <1>1, <2>1, MeanIs
    <2>3. d \div m \in Int
      BY <1>1, DivIs
    <2> QED BY <1>2, <2>2, <2>3
  <1>4. CASE n = 0
    BY <1>3, <1>4
  <1>5. CASE n # 0
    <2>1. n * 0 <= c /\ c <= n * 100 /\ n \in Nat \ {0}
      BY <1>1, <1>5
    <2>2. 0 <= c \div n /\ c \div n <= 100
      BY <1>1, <2>1, MeanIs
    <2>3. c \div n \in Int /\ (c \div n) * n <= c
      BY <1>1, <2>1, DivIs
    <2>4. x \in Nat /\ x <= 100 /\ x * n <= c
      BY <1>2, <2>2, <2>3
    <2> HIDE DEF x
    <2>5. m * x = x * n + x /\ x * n \in Int /\ m * x \in Int
      BY <2>4
    <2>6. m * x <= d /\ d <= m * 100
      <3> DEFINE p == x * n
                 z == m * x
      <3>1. p \in Int /\ z \in Int /\ z = p + x /\ p <= c
        BY <2>4, <2>5
      <3> HIDE DEF p, z
      <3>2. z <= d
        BY <1>1, <2>4, <3>1
      <3> QED BY <1>1, <3>2 DEF z
    <2> HIDE DEF m
    <2>7. x <= d \div m
      BY <1>1, <2>4, <2>6, MeanIs
    <2> QED BY <1>2, <1>3, <1>5, <2>4, <2>7 DEF x, m
  <1> QED BY <1>4, <1>5

\* The score of a call is between 1 and 4.5, and never better for one more lost probe, a
\* longer time or more jitter, for any series: both slopes of the latency, their joint,
\* and the ends where R and the score are cut off included (quality.go:11-43).
THEOREM ScoreOnlyFalls == ScrapeSpec => []ScoreFalls
  <1>1. TypeOK => ScoreFalls
    <2> SUFFICES ASSUME TypeOK, NEW n \in Name
                 PROVE  LET t == AvgRtt(samples[n])
                            l == Loss(samples[n], 0)
                            m == Mos(t, 0, l)
                        IN  /\ 10000 <= m /\ m <= 45000
                            /\ Mos(t, 0, Loss(samples[n], 1)) <= m
                            /\ Mos(t + Unit, 0, l) <= m /\ Mos(t, Unit, l) <= m
      BY DEF ScoreFalls
    <2> DEFINE s == samples[n]
               t == AvgRtt(s)
               l == Loss(s, 0)
               k == Loss(s, 1)
    <2>1. s \in Seq(Sample) /\ Len(s) <= RingCap
      BY DEF TypeOK
    <2>2. /\ Cardinality(WindowOf(s)) \in Nat /\ Cardinality(OkOf(s)) \in Nat
          /\ Cardinality(OkOf(s)) <= Cardinality(WindowOf(s)) /\ (OkOf(s) # {} => Cardinality(OkOf(s)) > 0)
      <3> HIDE DEF s
      <3>1. WindowOf(s) \subseteq 1 .. Len(s) /\ OkOf(s) \subseteq WindowOf(s) /\ Len(s) \in Nat
        BY <2>1 DEF WindowOf, OkOf
      <3>2. IsFiniteSet(1 .. Len(s))
        BY <3>1, FS_Interval
      <3>3. IsFiniteSet(WindowOf(s))
        BY <3>1, <3>2, FS_Subset
      <3>4. IsFiniteSet(OkOf(s)) /\ Cardinality(OkOf(s)) <= Cardinality(WindowOf(s))
        BY <3>1, <3>3, FS_Subset
      <3>5. Cardinality(OkOf(s)) = 0 <=> OkOf(s) = {}
        BY <3>4, FS_EmptySet
      <3>6. Cardinality(WindowOf(s)) \in Nat /\ Cardinality(OkOf(s)) \in Nat
        BY <3>3, <3>4, FS_CardinalityType
      <3> QED BY <3>4, <3>5, <3>6
    <2>3. t \in Nat
      <3> HIDE DEF s
      <3>1. CASE Up(s)
        <4> DEFINE a == Total(Rtts(s))
                   o == Cardinality(OkOf(s))
                   b == Unit * a
        <4>1. Rtts(s) \in Seq(Nat)
          BY <2>1, <3>1, RttsAre
        <4>2. a \in Nat
          <5> DEFINE rtts == Rtts(s)
          <5>1. rtts \in Seq(Nat) /\ Len(rtts) > 0
            BY <2>1, <3>1, <4>1, RttsAre
          <5> HIDE DEF rtts
          <5>2. Total(rtts) \in Nat
            BY <5>1, SumIsNat
          <5> QED BY <5>2 DEF rtts
        <4>3. o \in Nat \ {0}
          BY <2>2, <3>1 DEF Up
        <4>4. t = b \div o
          BY <3>1 DEF AvgRtt
        <4> HIDE DEF a, o
        <4>5. b \in Nat
          BY <4>2 DEF Unit
        <4> HIDE DEF b
        <4>6. b \div o \in Nat
          BY <4>3, <4>5
        <4> QED BY <4>4, <4>6
      <3>2. CASE ~Up(s)
        BY <3>2 DEF AvgRtt
      <3> QED BY <3>1, <3>2
    <2>4. l \in Nat /\ k \in Nat /\ l <= k
      <3> DEFINE w == Cardinality(WindowOf(s))
                 o == Cardinality(OkOf(s))
                 share(m) == IF m = 0 THEN 0 ELSE (100 * (m - o)) \div m
      <3>1. l = share(w + 0) /\ k = share(w + 1)
        BY DEF Loss
      <3>2. w \in Nat /\ o \in Nat /\ o <= w
        BY <2>2
      <3> HIDE DEF w, o, s, l, k
      <3>3. share(w) \in Nat /\ share(w + 1) \in Nat /\ share(w) <= share(w + 1)
        BY <3>2, LossRises
      <3>4. w + 0 = w
        BY <3>2
      <3> HIDE DEF share
      <3> QED BY <3>1, <3>3, <3>4
    <2> HIDE DEF t, l, k, s
    <2>5. Unit \in Nat /\ 0 \in Nat /\ t + Unit \in Nat /\ t <= t + Unit /\ 0 <= Unit /\ t <= t /\ l <= l /\ 0 <= 0
      BY <2>3, <2>4 DEF Unit
    <2>6. 10000 <= Mos(t, 0, l) /\ Mos(t, 0, l) <= 45000 /\ Mos(t, 0, k) <= Mos(t, 0, l)
      BY <2>3, <2>4, <2>5, MosFalls
    <2>7. Mos(t + Unit, 0, l) <= Mos(t, 0, l)
      BY <2>3, <2>4, <2>5, MosFalls
    <2>8. Mos(t, Unit, l) <= Mos(t, 0, l)
      BY <2>3, <2>4, <2>5, MosFalls
    <2> QED BY <2>6, <2>7, <2>8 DEF t, l, k, s
  <1>2. Spec => []TypeOK
    BY TypeCorrect
  <1> QED BY <1>1, <1>2, ScrapesArePingStores, PTL
=============================================================================
