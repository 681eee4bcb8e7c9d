-------------------------- MODULE TraceTable_proofs --------------------------
(***************************************************************************)
(* Proofs about TraceTable, and about the DnsCache that its workers share. *)
(***************************************************************************)
EXTENDS TraceTable, SequenceTheorems, FiniteSetTheorems, WellFoundedInduction, TLAPS

\* A hop of a cycle: it has an address and a time if one of its probes was answered.
GoodHop(h) ==
    /\ h \in HopType
    /\ h.recv = 0 <=> h.addr = NoAddr
    /\ h.recv > 0 => h.rtt > 0

\* A row that the hops of several cycles were merged into.
GoodRow(r) ==
    /\ r \in RowType
    /\ r.recv <= r.sent
    /\ r.recv = 0 =>
         /\ r.addr = NoAddr /\ r.host = NoName
         /\ r.best = 0 /\ r.last = 0 /\ r.worst = 0 /\ r.sum = 0 /\ r.sumSq = 0
    /\ r.recv > 0 =>
         /\ r.addr # NoAddr
         /\ 0 < r.best /\ r.best <= r.last /\ r.last <= r.worst
         /\ r.best * r.recv <= r.sum /\ r.sum <= r.worst * r.recv
         /\ r.sumSq + r.best * r.worst * r.recv <= (r.best + r.worst) * r.sum

\* Where a worker is in its cycle: a hop is merged with its own name.
CycleOK(w) ==
    /\ Len(hops[w]) <= MaxHops /\ Len(host[w]) <= Len(hops[w])
    /\ pc[w] = "tracing" => Len(hops[w]) < MaxHops /\ host[w] = <<>>
    /\ pc[w] = "naming" => hops[w] # <<>>
    /\ \A i \in DOMAIN hops[w] : GoodHop(hops[w][i])
    /\ \A i \in DOMAIN host[w] : host[w][i] # NoName => hops[w][i].addr # NoAddr

\* The table that is shown under a name.
TableOK(d) ==
    /\ Len(table[d]) <= MaxHops
    /\ \A i \in DOMAIN table[d] : GoodRow(table[d][i])
    /\ table[d] = <<>> <=> cycles[d] = 0
    /\ table[d] # <<>> => table[d][1].sent = Queries * cycles[d]
    /\ \A i \in 2 .. Len(table[d]) : table[d][i].sent <= table[d][i - 1].sent

IInv ==
    /\ TypeOK
    /\ \A w \in Worker : CycleOK(w)
    /\ \A d \in Display : TableOK(d)

LEMMA Sizes == MaxHops \in Nat \ {0} /\ Queries \in Nat \ {0} /\ NoAddr \notin HopAddr
  BY TraceAssumption

(***************************************************************************)
(* The hop that a TTL's probes make up.                                    *)
(***************************************************************************)

\* A set of naturals that is not empty has a least element.
LEMMA LeastOfNats ==
  ASSUME NEW T, T \subseteq Nat, T # {}
  PROVE  \E m \in T : \A k \in T : m <= k
  <1> DEFINE R == OpToRel(<, Nat)
  <1>1. IsWellFoundedOn(R, Nat)
    BY NatLessThanWellFounded
  <1>2. \E m \in T : \A k \in T : <<k, m>> \notin R
    <2> HIDE DEF R
    <2> QED BY <1>1, WFMin
  <1>3. PICK m \in T : \A k \in T : <<k, m>> \notin R
    BY <1>2
  <1>4. ASSUME NEW k \in T PROVE m <= k
    <2>1. m \in Nat /\ k \in Nat
      OBVIOUS
    <2>2. ~(k < m)
      BY <1>3, <2>1 DEF OpToRel
    <2> QED BY <2>1, <2>2
  <1> QED BY <1>4

\* Adding up g one by one defines a function.
LEMMA TotalExists ==
  ASSUME NEW n \in Nat, NEW g
  PROVE  \E f : f = [i \in 0 .. n |-> IF i = 0 THEN 0 ELSE f[i - 1] + g[i]]
  <1> DEFINE Adding(f, i) == IF i = 0 THEN 0 ELSE f[i - 1] + g[i]
             Adds(f, k) == f = [i \in 0 .. k |-> Adding(f, i)]
             None == {k \in 0 .. n : ~ \E f : Adds(f, k)}
  <1> SUFFICES ASSUME None # {} PROVE FALSE
    <2>1. n \in 0 .. n
      OBVIOUS
    <2> QED BY <2>1
  <1>1. PICK m \in None : \A k \in None : m <= k
    <2>1. None \subseteq Nat
      OBVIOUS
    <2> HIDE DEF None
    <2> QED BY <2>1, LeastOfNats
  <1>2. m \in 0 .. n /\ ~ \E f : Adds(f, m)
    BY <1>1
  <1>3. m # 0
    <2> DEFINE z == [i \in 0 .. 0 |-> 0]
    <2>1. Adds(z, 0)
      OBVIOUS
    <2> HIDE DEF Adds, z
    <2> QED BY <1>2, <2>1
  <1>4. m - 1 \in 0 .. n /\ m - 1 \notin None
    <2> HIDE DEF None
    <2>1. m - 1 \in 0 .. n /\ ~(m <= m - 1)
      BY <1>2, <1>3
    <2> QED BY <1>1, <2>1
  <1>5. PICK f : Adds(f, m - 1)
    BY <1>4
  <1> DEFINE h == [i \in 0 .. m |-> IF i = m THEN f[m - 1] + g[m] ELSE f[i]]
  <1>6. \A i \in 0 .. m : h[i] = Adding(h, i)
    <2> SUFFICES ASSUME NEW i \in 0 .. m PROVE h[i] = Adding(h, i)
      OBVIOUS
    <2>1. CASE i = m
      <3>1. m - 1 \in 0 .. m /\ m - 1 # m /\ m \in 0 .. m
        BY <1>2, <1>3
      <3> QED BY <1>3, <2>1, <3>1
    <2>2. CASE i # m
      <3>1. i \in 0 .. m - 1
        BY <1>2, <1>3, <2>2
      <3>2. f[i] = Adding(f, i)
        BY <1>5, <3>1
      <3>3. i # 0 => i - 1 \in 0 .. m /\ i - 1 # m
        BY <1>2, <3>1
      <3> QED BY <2>2, <3>2, <3>3
    <2> QED BY <2>1, <2>2
  <1>7. Adds(h, m)
    <2>1. h = [i \in 0 .. m |-> h[i]]
      OBVIOUS
    <2> HIDE DEF h, Adding
    <2> QED BY <1>6, <2>1
  <1> HIDE DEF Adds, h
  <1> QED BY <1>2, <1>7

\* The mean of the times is positive, since each of them is: it is taken of those that
\* were added up (traceroute.go:33-55).
LEMMA HopIsGood ==
  ASSUME NEW w \in Worker, NEW ttl \in 1 .. MaxHops, NEW h \in HopsAt(w, ttl)
  PROVE  GoodHop(h) /\ h.addr \in Path[w][ttl] \cup {NoAddr}
  <1> USE Sizes
  <1>1. PICK q \in [1 .. Queries -> Outcome(w, ttl)] : h = HopOf(q)
    BY DEF HopsAt
  <1> DEFINE got  == {i \in 1 .. Queries : q[i].from # NoAddr}
             Upto(i) == {j \in 1 .. i : q[j].from # NoAddr}
             Adding(f, i) == IF i = 0 THEN 0 ELSE f[i - 1] + q[i].rtt
             total == CHOOSE f : f = [i \in 0 .. Queries |-> Adding(f, i)]
             c == Cardinality(got)
  <1>2. \A i \in 1 .. Queries :
           \/ q[i].from \in Path[w][ttl] /\ q[i].from \in HopAddr /\ q[i].rtt \in Nat \ {0}
           \/ q[i].from = NoAddr /\ q[i].rtt = 0
    <2>1. \A o \in Outcome(w, ttl) :
             \/ o.from \in Path[w][ttl] /\ o.from \in HopAddr /\ o.rtt \in Nat \ {0}
             \/ o.from = NoAddr /\ o.rtt = 0
      <3> SUFFICES ASSUME NEW o \in Outcome(w, ttl)
                   PROVE  \/ o.from \in Path[w][ttl] /\ o.from \in HopAddr /\ o.rtt \in Nat \ {0}
                          \/ o.from = NoAddr /\ o.rtt = 0
        OBVIOUS
      <3>1. Path[w][ttl] \subseteq HopAddr /\ Rtt \subseteq Nat \ {0}
        BY TraceAssumption
      <3>2. CASE o \in [from : Path[w][ttl], reply : BOOLEAN, rtt : Rtt]
        <4>1. o.from \in Path[w][ttl] /\ o.rtt \in Rtt
          BY <3>2
        <4> QED BY <3>1, <4>1
      <3>3. CASE o = [from |-> NoAddr, reply |-> FALSE, rtt |-> 0]
        BY <3>3
      <3>4. o \in [from : Path[w][ttl], reply : BOOLEAN, rtt : Rtt] \/ o = [from |-> NoAddr, reply |-> FALSE, rtt |-> 0]
        BY DEF Outcome
      <3> QED BY <3>2, <3>3, <3>4
    <2> QED BY <2>1
  <1>3. total = [i \in 0 .. Queries |-> Adding(total, i)]
    <2> DEFINE g == [i \in 1 .. Queries |-> q[i].rtt]
    <2>1. \E f : f = [i \in 0 .. Queries |-> IF i = 0 THEN 0 ELSE f[i - 1] + g[i]]
      <3> HIDE DEF g
      <3> QED BY TotalExists
    <2>2. ASSUME NEW f
          PROVE  [i \in 0 .. Queries |-> IF i = 0 THEN 0 ELSE f[i - 1] + g[i]]
                   = [i \in 0 .. Queries |-> Adding(f, i)]
      <3>1. \A i \in 0 .. Queries : i # 0 => g[i] = q[i].rtt
        OBVIOUS
      <3> HIDE DEF g
      <3> QED BY <3>1
    <2>3. \E f : f = [i \in 0 .. Queries |-> Adding(f, i)]
      <3> HIDE DEF g, Adding
      <3> QED BY <2>1, <2>2
    <2> HIDE DEF Adding
    <2> QED BY <2>3
  <1>4. \A i \in 0 .. Queries : total[i] = Adding(total, i)
    <2> HIDE DEF total, Adding
    <2> QED BY <1>3
  <1> HIDE DEF total
  <1>5. \A i \in 0 .. Queries : /\ IsFiniteSet(Upto(i)) /\ Cardinality(Upto(i)) \in 0 .. i
                                /\ total[i] \in Nat /\ total[i] >= Cardinality(Upto(i))
    <2> DEFINE OK(i) == /\ IsFiniteSet(Upto(i)) /\ Cardinality(Upto(i)) \in 0 .. i
                        /\ total[i] \in Nat /\ total[i] >= Cardinality(Upto(i))
               Wrong == {i \in 0 .. Queries : ~OK(i)}
    <2> SUFFICES ASSUME Wrong # {} PROVE FALSE
      OBVIOUS
    <2>1. PICK m \in Wrong : \A k \in Wrong : m <= k
      <3>1. Wrong \subseteq Nat
        OBVIOUS
      <3> HIDE DEF Wrong
      <3> QED BY <3>1, LeastOfNats
    <2>2. m \in 0 .. Queries /\ ~OK(m)
      BY <2>1
    <2>3. OK(0)
      <3>1. Upto(0) = {}
        OBVIOUS
      <3>2. total[0] = 0
        BY <1>4
      <3> QED BY <3>1, <3>2, FS_EmptySet
    <2>4. m - 1 \in 0 .. Queries /\ m - 1 \notin Wrong /\ m # 0
      <3>0. m # 0
        BY <2>2, <2>3
      <3> HIDE DEF Wrong, OK
      <3>1. m - 1 \in 0 .. Queries /\ ~(m <= m - 1)
        BY <2>2, <3>0
      <3> QED BY <2>1, <3>0, <3>1
    <2>5. OK(m - 1)
      BY <2>4
    <2>6. total[m] = total[m - 1] + q[m].rtt /\ m \in 1 .. Queries
      BY <1>4, <2>2, <2>4
    <2>7. CASE q[m].from # NoAddr
      <3>1. Upto(m) = Upto(m - 1) \cup {m} /\ m \notin Upto(m - 1)
        BY <2>6, <2>7
      <3>2. IsFiniteSet(Upto(m)) /\ Cardinality(Upto(m)) = Cardinality(Upto(m - 1)) + 1
        <4> DEFINE U == Upto(m - 1)
                   V == Upto(m)
        <4>1. IsFiniteSet(U) /\ V = U \cup {m} /\ m \notin U
          BY <2>5, <3>1
        <4> HIDE DEF U, V
        <4>2. IsFiniteSet(V) /\ Cardinality(V) = Cardinality(U) + 1
          BY <4>1, FS_AddElement
        <4> QED BY <4>2 DEF U, V
      <3> HIDE DEF Upto
      <3>3. q[m].rtt \in Nat \ {0}
        BY <1>2, <2>6, <2>7
      <3>4. Cardinality(Upto(m)) \in 0 .. m /\ total[m] \in Nat /\ total[m] >= Cardinality(Upto(m))
        BY <2>2, <2>5, <2>6, <3>2, <3>3
      <3> QED BY <2>2, <3>2, <3>4
    <2>8. CASE q[m].from = NoAddr
      <3>1. Upto(m) = Upto(m - 1)
        BY <2>6, <2>8
      <3>2. q[m].rtt = 0
        BY <1>2, <2>6, <2>8, Sizes
      <3> HIDE DEF Upto
      <3>3. total[m] = total[m - 1]
        BY <2>5, <2>6, <3>2
      <3> QED BY <2>2, <2>5, <3>1, <3>3
    <2> QED BY <2>7, <2>8
  <1>6. IsFiniteSet(got) /\ c \in 0 .. Queries /\ total[Queries] \in Nat /\ total[Queries] >= c
    <2>1. Queries \in 0 .. Queries /\ Upto(Queries) = got
      OBVIOUS
    <2> HIDE DEF Upto, got
    <2> QED BY <1>5, <2>1
  <1>7. h = IF got = {} THEN [addr |-> NoAddr, recv |-> 0, rtt |-> 0, reached |-> FALSE]
            ELSE [addr    |-> q[Min(got)].from, recv |-> c, rtt |-> total[Queries] \div c,
                  reached |-> \E i \in got : q[i].reply]
    BY <1>1 DEF HopOf, total
  <1>8. CASE got = {}
    BY <1>7, <1>8 DEF GoodHop, HopType
  <1>9. CASE got # {}
    <2>1. c # 0
      <3> HIDE DEF got
      <3> QED BY <1>6, <1>9, FS_EmptySet
    <2>2. Min(got) \in got
      <3>1. got \subseteq Nat
        OBVIOUS
      <3> HIDE DEF got
      <3>2. \E m \in got : \A k \in got : m <= k
        BY <1>9, <3>1, LeastOfNats
      <3> QED BY <3>2 DEF Min
    <2>3. q[Min(got)].from \in Path[w][ttl] /\ q[Min(got)].from \in HopAddr
      <3> DEFINE m == Min(got)
      <3>1. m \in 1 .. Queries /\ q[m].from # NoAddr
        BY <2>2
      <3> HIDE DEF m
      <3>2. q[m].from \in Path[w][ttl] /\ q[m].from \in HopAddr
        BY <1>2, <3>1
      <3> QED BY <3>2 DEF m
    <2> DEFINE a == q[Min(got)].from
               t == total[Queries]
               d == t \div c
               b == \E i \in got : q[i].reply
    <2>4. d \in Nat /\ d > 0
      <3> HIDE DEF t, c
      <3>1. t \in Nat /\ c \in Nat \ {0} /\ t >= c
        BY <1>6, <2>1 DEF t
      <3> QED BY <3>1
    <2>5. h = [addr |-> a, recv |-> c, rtt |-> d, reached |-> b]
      BY <1>7, <1>9
    <2>6. b \in BOOLEAN /\ a \in HopAddr /\ a # NoAddr /\ a \in Path[w][ttl] /\ c \in 0 .. Queries
      BY <1>6, <2>3
    <2> HIDE DEF a, d, b, c
    <2>7. h.addr = a /\ h.recv = c /\ h.rtt = d
      BY <2>5
    <2>8. h \in HopType
      BY <2>4, <2>5, <2>6 DEF HopType
    <2> QED BY <2>1, <2>4, <2>6, <2>7, <2>8 DEF GoodHop
  <1> QED BY <1>8, <1>9

(***************************************************************************)
(* The row that a hop is merged into.                                      *)
(***************************************************************************)

LEMMA TimesGrows ==
  ASSUME NEW x \in Nat, NEW y \in Nat, NEW n \in Nat, x <= y
  PROVE  x * n <= y * n
  <1>1. PICK d \in Nat : y = x + d
    <2>1. y - x \in Nat /\ y = x + (y - x)
      OBVIOUS
    <2> QED BY <2>1
  <1>2. y * n = x * n + d * n
    BY <1>1
  <1>3. d * n \in Nat /\ x * n \in Nat
    OBVIOUS
  <1> QED BY <1>2, <1>3

\* The sum of the squares of n times, none of them less than c or more than v, and of k
\* more that are all the same, where b and w are their bounds.
LEMMA SpreadStays ==
  ASSUME NEW n \in Nat, NEW k \in Nat, NEW s \in Nat, NEW A \in Nat, NEW r \in Nat,
         NEW b \in Nat, NEW c \in Nat, NEW v \in Nat, NEW w \in Nat,
         n > 0 => b <= c /\ v <= w, c * n <= s, s <= v * n, b <= r, r <= w,
         A + c * v * n <= (c + v) * s, n = 0 => s = 0 /\ A = 0
  PROVE  (A + r * r * k) + b * w * (n + k) <= (b + w) * (s + r * k)
  <1>1. A + b * w * n <= (b + w) * s
    <2>1. CASE n = 0
      BY <2>1
    <2>2. CASE n > 0
      <3>1. PICK d \in Nat : c = b + d
        <4>1. c - b \in Nat /\ c = b + (c - b)
          BY <2>2
        <4> QED BY <4>1
      <3>2. PICK e \in Nat : w = v + e
        <4>1. w - v \in Nat /\ w = v + (w - v)
          BY <2>2
        <4> QED BY <4>1
      <3>3. PICK x \in Nat : s = c * n + x
        <4> DEFINE y == c * n
        <4>1. y \in Nat /\ y <= s
          OBVIOUS
        <4> HIDE DEF y
        <4>2. s - y \in Nat /\ s = y + (s - y)
          BY <4>1
        <4> QED BY <4>2 DEF y
      <3>4. PICK z \in Nat : v * n = s + z
        <4> DEFINE y == v * n
        <4>1. y \in Nat /\ s <= y
          OBVIOUS
        <4> HIDE DEF y
        <4>2. y - s \in Nat /\ y = s + (y - s)
          BY <4>1
        <4> QED BY <4>2 DEF y
      <3>5. (b + w) * s = (c + v) * s - d * s + e * s
        BY <3>1, <3>2
      <3>6. b * w * n = c * v * n + (c * n) * e - d * (v * n) - d * e * n
        BY <3>1, <3>2
      <3>7. (c * n) * e = e * s - e * x /\ d * (v * n) = d * s + d * z
        BY <3>3, <3>4
      <3> DEFINE L == b * w * n
                 M == (b + w) * s
                 P == (c + v) * s
                 Q == c * v * n
                 E == e * x
                 D == d * z
                 F == d * e * n
                 S == e * s
                 T == d * s
      <3>8. M = P - T + S /\ L = Q + (S - E) - (T + D) - F /\ A + Q <= P
        BY <3>5, <3>6, <3>7
      <3>9. E \in Nat /\ D \in Nat /\ F \in Nat /\ S \in Nat /\ T \in Nat /\ L \in Nat /\ M \in Nat
            /\ P \in Nat /\ Q \in Nat
        OBVIOUS
      <3> HIDE DEF L, M, P, Q, E, D, F, S, T
      <3>10. A + L <= M
        BY <3>8, <3>9
      <3> QED BY <3>10 DEF L, M
    <2> QED BY <2>1, <2>2
  <1>2. r * r * k + b * w * k <= (b + w) * r * k
    <2>1. PICK d \in Nat : r = b + d
      <3>1. r - b \in Nat /\ r = b + (r - b)
        OBVIOUS
      <3> QED BY <3>1
    <2>2. PICK e \in Nat : w = r + e
      <3>1. w - r \in Nat /\ w = r + (w - r)
        OBVIOUS
      <3> QED BY <3>1
    <2>3. (b + w) * r * k = r * r * k + b * w * k + d * e * k
      BY <2>1, <2>2
    <2> DEFINE x == d * e * k
               y == r * r * k + b * w * k
               z == (b + w) * r * k
    <2>4. x \in Nat /\ y \in Nat /\ z \in Nat /\ z = y + x
      BY <2>3
    <2> HIDE DEF x, y, z
    <2>5. y <= z
      BY <2>4
    <2> QED BY <2>5 DEF y, z
  <1>3. b * w * (n + k) = b * w * n + b * w * k /\ (b + w) * (s + r * k) = (b + w) * s + (b + w) * r * k
    OBVIOUS
  <1> DEFINE x == b * w * n
             y == b * w * k
             p == (b + w) * s
             q == (b + w) * r * k
             t == r * r * k
  <1>4. x \in Nat /\ y \in Nat /\ p \in Nat /\ q \in Nat /\ t \in Nat /\ A + x <= p /\ t + y <= q
    BY <1>1, <1>2
  <1>5. b * w * (n + k) = x + y /\ (b + w) * (s + r * k) = p + q
    BY <1>3
  <1> HIDE DEF x, y, p, q
  <1>6. (A + t) + (x + y) <= p + q
    <2> HIDE DEF t
    <2> QED BY <1>4
  <1> QED BY <1>5, <1>6

\* The mean of the times of a row stays between the best of them and the worst.
LEMMA MeanStays ==
  ASSUME NEW n \in Nat, NEW k \in Nat, NEW s \in Nat, NEW r \in Nat,
         NEW b \in Nat, NEW c \in Nat, NEW v \in Nat, NEW w \in Nat,
         n > 0 => b <= c /\ v <= w, c * n <= s, s <= v * n, b <= r, r <= w, n = 0 => s = 0
  PROVE  b * (n + k) <= s + r * k /\ s + r * k <= w * (n + k)
  <1>1. b * n <= s /\ s <= w * n
    <2>1. CASE n = 0
      BY <2>1
    <2>2. CASE n > 0
      <3>1. b * n <= c * n /\ v * n <= w * n
        BY <2>2, TimesGrows
      <3>2. b * n \in Nat /\ c * n \in Nat /\ v * n \in Nat /\ w * n \in Nat
        OBVIOUS
      <3> QED BY <3>1, <3>2
    <2> QED BY <2>1, <2>2
  <1>2. b * k <= r * k /\ r * k <= w * k
    BY TimesGrows
  <1>3. b * (n + k) = b * n + b * k /\ w * (n + k) = w * n + w * k
    OBVIOUS
  <1>4. b * n \in Nat /\ b * k \in Nat /\ r * k \in Nat /\ w * n \in Nat /\ w * k \in Nat
    OBVIOUS
  <1> QED BY <1>1, <1>2, <1>3, <1>4

LEMMA BlankIsGood == GoodRow(Blank)
  BY DEF GoodRow, RowType, Blank

\* What a row owes to the hop that is merged into it.
LEMMA MergedIsGood ==
  ASSUME NEW acc, NEW h, NEW name \in HostName \cup {NoName}, GoodRow(acc), GoodHop(h),
         name # NoName => h.addr # NoAddr
  PROVE  GoodRow(Merged(acc, h, name)) /\ Merged(acc, h, name).sent = acc.sent + Queries
  <1> USE Sizes
  <1> DEFINE m == Merged(acc, h, name)
             R == RowType
  <1>0. acc \in R
    BY DEF GoodRow
  <1>1. /\ acc.addr \in HopAddr \cup {NoAddr} /\ acc.host \in HostName \cup {NoName}
        /\ acc.sent \in Nat /\ acc.recv \in Nat /\ acc.last \in Nat /\ acc.best \in Nat
        /\ acc.worst \in Nat /\ acc.sum \in Nat /\ acc.sumSq \in Nat
    BY <1>0 DEF RowType
  <1>2. h.addr \in HopAddr \cup {NoAddr} /\ h.recv \in 0 .. Queries /\ h.rtt \in Nat
    BY DEF GoodHop, HopType
  <1> DEFINE a == IF h.addr = NoAddr THEN acc.addr ELSE h.addr
             o == IF name = NoName THEN acc.host ELSE name
             kept == [acc EXCEPT !.addr = a, !.host = o, !.sent = acc.sent + Queries]
  <1>3. a \in HopAddr \cup {NoAddr} /\ o \in HostName \cup {NoName}
    BY <1>1, <1>2
  <1>4. /\ kept \in R
        /\ kept.addr = a /\ kept.host = o /\ kept.sent = acc.sent + Queries
        /\ kept.recv = acc.recv /\ kept.last = acc.last /\ kept.best = acc.best
        /\ kept.worst = acc.worst /\ kept.sum = acc.sum /\ kept.sumSq = acc.sumSq
    <2> HIDE DEF a, o
    <2>1. acc.sent + Queries \in Nat
      BY <1>1
    <2> QED BY <1>0, <1>3, <2>1 DEF RowType
  <1>5. CASE h.recv = 0
    <2>1. m = kept
      BY <1>5 DEF Merged
    <2>2. a = acc.addr /\ o = acc.host
      BY <1>5, <1>2 DEF GoodHop
    <2>3. m \in R /\ m.addr = acc.addr /\ m.host = acc.host /\ m.sent = acc.sent + Queries
          /\ m.recv = acc.recv /\ m.last = acc.last /\ m.best = acc.best
          /\ m.worst = acc.worst /\ m.sum = acc.sum /\ m.sumSq = acc.sumSq
      BY <1>4, <2>1, <2>2
    <2> HIDE DEF m, kept, a, o
    <2>4. m.recv <= m.sent
      <3>1. acc.recv <= acc.sent
        BY DEF GoodRow
      <3> QED BY <1>1, <2>3, <3>1
    <2>5. GoodRow(m)
      BY <2>3, <2>4 DEF GoodRow
    <2> QED BY <2>3, <2>5 DEF m
  <1>6. CASE h.recv # 0
    <2> DEFINE s == acc.sum + h.rtt * h.recv
               q == acc.sumSq + h.rtt * h.rtt * h.recv
               b == Best(acc.best, h.rtt)
               w == Worst(acc.worst, h.rtt)
    <2>1. m = [kept EXCEPT !.recv = acc.recv + h.recv, !.last = h.rtt, !.sum = s, !.sumSq = q,
                           !.best = b, !.worst = w]
      BY <1>4, <1>6 DEF Merged
    <2>2. h.addr # NoAddr /\ h.rtt > 0 /\ h.recv > 0 /\ h.recv \in Nat /\ h.recv <= Queries
      BY <1>2, <1>6 DEF GoodHop
    <2>3. s \in Nat /\ q \in Nat
      <3> DEFINE u == h.rtt * h.recv
                 v == h.rtt * h.rtt * h.recv
      <3>1. u \in Nat /\ v \in Nat
        BY <1>2, <2>2
      <3> HIDE DEF u, v
      <3>2. acc.sum + u \in Nat /\ acc.sumSq + v \in Nat
        BY <1>1, <3>1
      <3> QED BY <3>2 DEF u, v
    <2>4. /\ b \in Nat /\ w \in Nat /\ 0 < b /\ b <= h.rtt /\ h.rtt <= w
          /\ acc.recv > 0 => b <= acc.best /\ acc.worst <= w
      <3>1. acc.recv > 0 => acc.best > 0
        BY DEF GoodRow
      <3> QED BY <1>1, <1>2, <2>2, <3>1 DEF Best, Worst
    <2>5. /\ m \in R
          /\ m.addr = h.addr /\ m.sent = acc.sent + Queries
          /\ m.recv = acc.recv + h.recv /\ m.last = h.rtt /\ m.best = b
          /\ m.worst = w /\ m.sum = s /\ m.sumSq = q
      <3>1. acc.recv + h.recv \in Nat
        BY <1>1, <2>2
      <3>2. a = h.addr
        BY <2>2
      <3> HIDE DEF a, o, s, q, b, w, kept, m
      <3> QED BY <1>2, <1>4, <2>1, <2>3, <2>4, <3>1, <3>2 DEF RowType
    <2>6. acc.recv <= acc.sent
      BY DEF GoodRow
    <2>7. b * (acc.recv + h.recv) <= s /\ s <= w * (acc.recv + h.recv)
      <3>0. acc.best * acc.recv <= acc.sum /\ acc.sum <= acc.worst * acc.recv
        <4>1. CASE acc.recv = 0
          <5>1. acc.best = 0 /\ acc.sum = 0 /\ acc.worst = 0
            BY <4>1 DEF GoodRow
          <5> QED BY <4>1, <5>1
        <4>2. CASE acc.recv > 0
          BY <4>2 DEF GoodRow
        <4> QED BY <1>1, <4>1, <4>2
      <3>1. acc.recv = 0 => acc.sum = 0
        BY DEF GoodRow
      <3> HIDE DEF b, w
      <3> DEFINE n == acc.recv
                 k == h.recv
                 t == acc.sum
                 r == h.rtt
                 c == acc.best
                 v == acc.worst
      <3>2. /\ n \in Nat /\ k \in Nat /\ t \in Nat /\ r \in Nat /\ b \in Nat /\ c \in Nat
            /\ v \in Nat /\ w \in Nat
            /\ n > 0 => b <= c /\ v <= w
            /\ c * n <= t /\ t <= v * n /\ b <= r /\ r <= w
            /\ n = 0 => t = 0
        BY <1>1, <1>2, <2>2, <2>4, <3>0, <3>1
      <3>3. s = t + r * k
        OBVIOUS
      <3> HIDE DEF n, k, t, r, c, v, s
      <3>4. b * (n + k) <= t + r * k /\ t + r * k <= w * (n + k)
        BY <3>2, MeanStays
      <3> QED BY <3>3, <3>4 DEF n, k
    <2>8. q + b * w * (acc.recv + h.recv) <= (b + w) * s
      <3>0. /\ acc.best * acc.recv <= acc.sum /\ acc.sum <= acc.worst * acc.recv
            /\ acc.sumSq + acc.best * acc.worst * acc.recv <= (acc.best + acc.worst) * acc.sum
        <4>1. CASE acc.recv = 0
          <5>1. acc.best = 0 /\ acc.sum = 0 /\ acc.worst = 0 /\ acc.sumSq = 0
            BY <4>1 DEF GoodRow
          <5> QED BY <4>1, <5>1
        <4>2. CASE acc.recv > 0
          BY <4>2 DEF GoodRow
        <4> QED BY <1>1, <4>1, <4>2
      <3>1. acc.recv = 0 => acc.sum = 0 /\ acc.sumSq = 0
        BY DEF GoodRow
      <3> HIDE DEF b, w
      <3> DEFINE n == acc.recv
                 k == h.recv
                 t == acc.sum
                 A == acc.sumSq
                 r == h.rtt
                 c == acc.best
                 v == acc.worst
      <3>2. /\ n \in Nat /\ k \in Nat /\ t \in Nat /\ A \in Nat /\ r \in Nat
            /\ b \in Nat /\ c \in Nat /\ v \in Nat /\ w \in Nat
            /\ n > 0 => b <= c /\ v <= w
            /\ c * n <= t /\ t <= v * n /\ b <= r /\ r <= w
            /\ A + c * v * n <= (c + v) * t
            /\ n = 0 => t = 0 /\ A = 0
        BY <1>1, <1>2, <2>2, <2>4, <3>0, <3>1
      <3>3. s = t + r * k /\ q = A + r * r * k
        OBVIOUS
      <3> HIDE DEF n, k, t, A, r, c, v, s, q
      <3>4. (A + r * r * k) + b * w * (n + k) <= (b + w) * (t + r * k)
        BY <3>2, SpreadStays
      <3> QED BY <3>3, <3>4 DEF n, k
    <2> HIDE DEF m, kept, a, o, s, q, b, w
    <2>9. m.recv <= m.sent /\ m.recv > 0 /\ m.recv \in Nat
      BY <1>1, <2>2, <2>5, <2>6
    <2>10. GoodRow(m)
      BY <2>2, <2>4, <2>5, <2>7, <2>8, <2>9 DEF GoodRow
    <2> QED BY <2>5, <2>10 DEF m
  <1> QED BY <1>5, <1>6

(***************************************************************************)
(* Every state: types, the cycle of each worker and its table.             *)
(***************************************************************************)

LEMMA InitGood == Init => IInv
  <1> SUFFICES ASSUME Init PROVE IInv
    OBVIOUS
  <1> USE Sizes
  <1>1. DnsTypeOK
    BY DnsAssumption DEF Init, DnsInit, DnsTypeOK
  <1>2. TypeOK
    <2>1. <<>> \in Seq(HopType) /\ <<>> \in Seq(HostName \cup {NoName}) /\ <<>> \in Seq(RowType) /\ Len(<<>>) = 0
      OBVIOUS
    <2> QED BY <1>1, <2>1 DEF Init, TypeOK
  <1>3. ASSUME NEW w \in Worker PROVE CycleOK(w)
    <2>1. pc[w] = "idle" /\ hops[w] = <<>> /\ host[w] = <<>>
      BY DEF Init
    <2> QED BY <2>1 DEF CycleOK
  <1>4. ASSUME NEW d \in Display PROVE TableOK(d)
    <2>1. table[d] = <<>> /\ cycles[d] = 0
      BY DEF Init
    <2> QED BY <2>1 DEF TableOK
  <1> QED BY <1>2, <1>3, <1>4 DEF IInv

\* A step leaves a worker alone, or a table.
LEMMA CycleElsewhere ==
  ASSUME NEW w \in Worker, CycleOK(w), pc'[w] = pc[w], hops'[w] = hops[w], host'[w] = host[w]
  PROVE  CycleOK(w)'
  BY DEF CycleOK

LEMMA TableElsewhere ==
  ASSUME NEW d \in Display, TableOK(d), table'[d] = table[d], cycles'[d] = cycles[d]
  PROVE  TableOK(d)'
  BY DEF TableOK

LEMMA BeginGood ==
  ASSUME IInv, NEW w \in Worker, Begin(w)
  PROVE  IInv'
  <1> USE Sizes
  <1>1. TypeOK /\ (\A v \in Worker : CycleOK(v)) /\ \A d \in Display : TableOK(d)
    BY DEF IInv
  <1>2. TypeOK'
    <2>1. <<>> \in Seq(HopType) /\ <<>> \in Seq(HostName \cup {NoName}) /\ Len(<<>>) = 0
      OBVIOUS
    <2>2. DnsTypeOK'
      BY <1>1 DEF TypeOK, DnsTypeOK, Begin, dns
    <2> QED BY <1>1, <2>1, <2>2 DEF TypeOK, Begin, dns
  <1>3. CycleOK(w)'
    <2>1. pc'[w] = "tracing" /\ hops'[w] = <<>> /\ host'[w] = <<>>
      BY <1>1 DEF TypeOK, Begin
    <2> QED BY <2>1 DEF CycleOK
  <1>4. ASSUME NEW v \in Worker, v # w PROVE CycleOK(v)'
    <2>1. pc'[v] = pc[v] /\ hops'[v] = hops[v] /\ host'[v] = host[v]
      BY <1>1, <1>4 DEF TypeOK, Begin
    <2> QED BY <1>1, <2>1, CycleElsewhere
  <1>5. ASSUME NEW d \in Display PROVE TableOK(d)'
    BY <1>1, TableElsewhere DEF Begin
  <1> QED BY <1>2, <1>3, <1>4, <1>5 DEF IInv

LEMMA StepGood ==
  ASSUME IInv, NEW w \in Worker, Step(w)
  PROVE  IInv'
  <1> USE Sizes
  <1>1. TypeOK /\ (\A v \in Worker : CycleOK(v)) /\ \A d \in Display : TableOK(d)
    BY DEF IInv
  <1> DEFINE s == hops[w]
             n == Len(s) + 1
  <1>2. s \in Seq(HopType) /\ n \in 1 .. MaxHops /\ pc[w] = "tracing" /\ host[w] = <<>>
    BY <1>1 DEF TypeOK, CycleOK, Step
  <1>3. PICK h \in HopsAt(w, n) : hops' = [hops EXCEPT ![w] = Append(s, h)]
    BY DEF Step
  <1>4. GoodHop(h) /\ h \in HopType
    <2>1. GoodHop(h)
      <3> HIDE DEF n
      <3> QED BY <1>2, <1>3, HopIsGood
    <2> QED BY <2>1 DEF GoodHop
  <1> DEFINE t == Append(s, h)
  <1>5. /\ t \in Seq(HopType) /\ Len(t) = n /\ t[n] = h /\ t # <<>>
        /\ \A i \in 1 .. Len(s) : t[i] = s[i]
    BY <1>2, <1>4
  <1>6. hops'[w] = t /\ pc'[w] = (IF Finished(t) THEN "naming" ELSE "tracing") /\ host'[w] = <<>>
    BY <1>1, <1>2, <1>3 DEF TypeOK, Step
  <1>7. TypeOK'
    <2> HIDE DEF s, t, n
    <2>1. hops' = [hops EXCEPT ![w] = t]
      BY <1>3 DEF t
    <2>2. hops' \in [Worker -> Seq(HopType)] /\ \A v \in Worker : Len(hops'[v]) <= MaxHops
      BY <1>1, <1>2, <1>5, <2>1 DEF TypeOK
    <2>3. DnsTypeOK'
      BY <1>1 DEF TypeOK, DnsTypeOK, Step, dns
    <2>4. pc' \in [Worker -> {"idle", "tracing", "naming"}]
      BY <1>1 DEF TypeOK, Step
    <2> QED BY <1>1, <2>2, <2>3, <2>4 DEF TypeOK, Step
  <1>8. CycleOK(w)'
    <2>1. Len(hops'[w]) <= MaxHops /\ Len(host'[w]) <= Len(hops'[w]) /\ hops'[w] # <<>>
      BY <1>2, <1>5, <1>6
    <2>2. pc'[w] = "tracing" => Len(hops'[w]) < MaxHops /\ host'[w] = <<>>
      BY <1>2, <1>5, <1>6 DEF Finished
    <2>3. \A i \in DOMAIN hops'[w] : GoodHop(hops'[w][i])
      <3> SUFFICES ASSUME NEW i \in 1 .. n PROVE GoodHop(t[i])
        BY <1>5, <1>6
      <3>1. CASE i = n
        BY <1>4, <1>5, <3>1
      <3>2. CASE i # n
        <4>1. i \in 1 .. Len(s)
          BY <1>2, <3>2
        <4>2. GoodHop(s[i])
          BY <1>1, <1>2, <4>1 DEF CycleOK
        <4> QED BY <1>5, <4>1, <4>2
      <3> QED BY <3>1, <3>2
    <2>4. \A i \in DOMAIN host'[w] : FALSE
      BY <1>6
    <2> QED BY <2>1, <2>2, <2>3, <2>4 DEF CycleOK, GoodHop, HopType
  <1>9. ASSUME NEW d \in Display PROVE TableOK(d)'
    BY <1>1, TableElsewhere DEF Step
  <1>10. ASSUME NEW v \in Worker, v # w PROVE CycleOK(v)'
    <2>1. pc'[v] = pc[v] /\ hops'[v] = hops[v] /\ host'[v] = host[v]
      BY <1>1, <1>3, <1>10 DEF TypeOK, Step
    <2> QED BY <1>1, <2>1, CycleElsewhere
  <1> QED BY <1>7, <1>8, <1>9, <1>10 DEF IInv

\* The name that lookup returns.
LEMMA NameIsName ==
  ASSUME DnsTypeOK, NEW a \in HopAddr
  PROVE  NameOf(a) \in HostName \cup {NoName} /\ (NameOf(a) # NoName => NameOf(a) = names[a] /\ names[a] \in HostName)
  BY DnsAssumption DEF DnsTypeOK, NameOf

LEMMA LookupTypes ==
  ASSUME DnsTypeOK, NEW a \in HopAddr, Lookup(a)
  PROVE  DnsTypeOK'
  <1>1. CASE Fresh(a)
    BY <1>1 DEF DnsTypeOK, Lookup
  <1>2. CASE ~Fresh(a)
    BY <1>2 DEF DnsTypeOK, Lookup
  <1> QED BY <1>1, <1>2

LEMMA ResolveTypes ==
  ASSUME DnsTypeOK, NEW a \in HopAddr, Resolve(a)
  PROVE  DnsTypeOK'
  <1>1. Found(a) \in HostName \cup {NoName, Unknown}
    BY DnsAssumption DEF Found
  <1>2. flying[a] - 1 \in Nat
    BY DEF DnsTypeOK, Resolve
  <1> QED BY <1>1, <1>2 DEF DnsTypeOK, Resolve

\* The name that is due: of a hop that answered, from the cache.
LEMMA NameGives ==
  ASSUME IInv, NEW w \in Worker, Name(w)
  PROVE  \E x \in HostName \cup {NoName} :
           /\ host' = [host EXCEPT ![w] = Append(@, x)]
           /\ \/ Hop(w).addr = NoAddr /\ x = NoName /\ UNCHANGED dns
              \/ Hop(w).addr \in HopAddr /\ x = NameOf(Hop(w).addr) /\ Lookup(Hop(w).addr)
  <1> USE Sizes
  <1>1. TypeOK
    BY DEF IInv
  <1> DEFINE a == Hop(w).addr
  <1>2. a \in HopAddr \cup {NoAddr}
    <2> DEFINE n == Len(host[w]) + 1
    <2>1. hops[w] \in Seq(HopType) /\ n \in 1 .. Len(hops[w])
      BY <1>1 DEF TypeOK, Name
    <2> HIDE DEF n
    <2>2. hops[w][n] \in HopType
      BY <2>1
    <2> QED BY <2>2 DEF HopType, Hop, n
  <1>3. CASE a = NoAddr
    BY <1>3 DEF Name
  <1>4. CASE a # NoAddr
    <2>1. NameOf(a) \in HostName \cup {NoName}
      BY <1>1, <1>2, <1>4, NameIsName DEF TypeOK
    <2>2. host' = [host EXCEPT ![w] = Append(@, NameOf(a))] /\ Lookup(a)
      BY <1>4 DEF Name
    <2> QED BY <1>2, <1>4, <2>1, <2>2
  <1> QED BY <1>3, <1>4

LEMMA NameGood ==
  ASSUME IInv, NEW w \in Worker, Name(w)
  PROVE  IInv'
  <1> USE Sizes
  <1>1. TypeOK /\ (\A v \in Worker : CycleOK(v)) /\ \A d \in Display : TableOK(d)
    BY DEF IInv
  <1>2. PICK x \in HostName \cup {NoName} :
           /\ host' = [host EXCEPT ![w] = Append(@, x)]
           /\ \/ Hop(w).addr = NoAddr /\ x = NoName /\ UNCHANGED dns
              \/ Hop(w).addr \in HopAddr /\ x = NameOf(Hop(w).addr) /\ Lookup(Hop(w).addr)
    BY NameGives
  <1> DEFINE s == host[w]
             t == Append(s, x)
             n == Len(s) + 1
  <1>3. s \in Seq(HostName \cup {NoName}) /\ Len(s) < Len(hops[w]) /\ hops[w] \in Seq(HopType)
    BY <1>1 DEF TypeOK, Name
  <1>4. /\ t \in Seq(HostName \cup {NoName}) /\ Len(t) = n /\ t[n] = x
        /\ \A i \in 1 .. Len(s) : t[i] = s[i]
    BY <1>2, <1>3
  <1>5. /\ host'[w] = t /\ pc[w] = "naming" /\ pc' = pc /\ hops' = hops /\ table' = table
        /\ cycles' = cycles
    BY <1>1, <1>2 DEF TypeOK, Name
  <1>6. TypeOK'
    <2>1. DnsTypeOK'
      <3>1. CASE UNCHANGED dns
        BY <1>1, <3>1 DEF TypeOK, DnsTypeOK, dns
      <3>2. CASE Hop(w).addr \in HopAddr /\ Lookup(Hop(w).addr)
        BY <1>1, <3>2, LookupTypes DEF TypeOK
      <3> QED BY <1>2, <3>1, <3>2
    <2>2. host' = [host EXCEPT ![w] = t]
      BY <1>2
    <2> HIDE DEF s, t, n
    <2> QED BY <1>1, <1>4, <1>5, <2>1, <2>2 DEF TypeOK
  <1>7. CycleOK(w)'
    <2>1. Len(host'[w]) <= Len(hops'[w])
      BY <1>3, <1>4, <1>5
    <2>2. ASSUME NEW i \in DOMAIN host'[w], host'[w][i] # NoName PROVE hops'[w][i].addr # NoAddr
      <3>1. i \in 1 .. n
        BY <1>4, <1>5
      <3>2. CASE i = n
        <4>1. x # NoName
          BY <1>4, <1>5, <2>2, <3>2
        <4>2. Hop(w).addr # NoAddr
          BY <1>2, <4>1, Sizes
        <4> QED BY <1>5, <3>2, <4>2 DEF Hop
      <3>3. CASE i # n
        <4>1. i \in 1 .. Len(s)
          BY <1>3, <3>1, <3>3
        <4>2. s[i] # NoName
          BY <1>4, <1>5, <2>2, <4>1
        <4>3. i \in DOMAIN s
          BY <1>3, <4>1
        <4> QED BY <1>1, <1>5, <4>2, <4>3 DEF CycleOK
      <3> QED BY <3>2, <3>3
    <2>3. CycleOK(w)
      BY <1>1
    <2> QED BY <1>5, <2>1, <2>2, <2>3 DEF CycleOK, GoodHop, HopType
  <1>8. ASSUME NEW d \in Display PROVE TableOK(d)'
    BY <1>1, <1>5, TableElsewhere
  <1>9. ASSUME NEW v \in Worker, v # w PROVE CycleOK(v)'
    <2>1. host'[v] = host[v]
      BY <1>1, <1>2, <1>9 DEF TypeOK
    <2> QED BY <1>1, <1>5, <2>1, CycleElsewhere
  <1> QED BY <1>6, <1>7, <1>8, <1>9 DEF IInv

\* The table after the cycle of a worker.
LEMMA UpdateGives ==
  ASSUME IInv, NEW w \in Worker, Update(w)
  PROVE  LET t == table[DisplayOf[w]]  h == hops[w]  u == table'[DisplayOf[w]]
             n == IF Len(t) < Len(h) THEN Len(h) ELSE Len(t)
             row(i) == IF i <= Len(t) THEN t[i] ELSE Blank
         IN  /\ n \in 1 .. MaxHops /\ Len(h) \in 1 .. n /\ Len(t) \in 0 .. n
             /\ u = [i \in 1 .. n |-> IF i <= Len(h) THEN Merged(row(i), h[i], host[w][i]) ELSE row(i)]
             /\ \A i \in 1 .. n : GoodRow(row(i))
             /\ \A i \in 1 .. Len(h) : GoodRow(Merged(row(i), h[i], host[w][i]))
                                       /\ Merged(row(i), h[i], host[w][i]).sent = row(i).sent + Queries
  <1> USE Sizes
  <1> DEFINE d == DisplayOf[w]
             t == table[d]
             h == hops[w]
             o == host[w]
             u == table'[d]
             n == IF Len(t) < Len(h) THEN Len(h) ELSE Len(t)
             row(i) == IF i <= Len(t) THEN t[i] ELSE Blank
  <1>0. d \in Display
    BY TraceAssumption
  <1>1. TypeOK /\ CycleOK(w) /\ TableOK(d)
    BY <1>0 DEF IInv
  <1>2. /\ t \in Seq(RowType) /\ h \in Seq(HopType) /\ o \in Seq(HostName \cup {NoName})
        /\ h # <<>> /\ Len(o) = Len(h) /\ Len(h) <= MaxHops /\ Len(t) <= MaxHops
    BY <1>0, <1>1 DEF TypeOK, CycleOK, Update
  <1>3. n \in 1 .. MaxHops /\ Len(h) \in 1 .. n /\ Len(t) \in 0 .. n /\ n \in Nat
    BY <1>2
  <1>4. u = [i \in 1 .. n |-> IF i <= Len(h) THEN Merged(row(i), h[i], o[i]) ELSE row(i)]
    <2> DEFINE rows == Rows(t, Len(h))
    <2>1. rows = [i \in 1 .. n |-> row(i)]
      BY DEF Rows
    <2>2. u = [i \in DOMAIN rows |-> IF i <= Len(h) THEN Merged(rows[i], h[i], o[i]) ELSE rows[i]]
      BY <1>0, <1>1 DEF TypeOK, Update
    <2> HIDE DEF n, row, rows
    <2> QED BY <2>1, <2>2
  <1>5. ASSUME NEW i \in 1 .. n PROVE GoodRow(row(i))
    <2>1. CASE i <= Len(t)
      <3>1. i \in DOMAIN t
        BY <1>2, <1>3, <2>1
      <3>2. GoodRow(t[i])
        BY <1>1, <3>1 DEF TableOK
      <3> QED BY <2>1, <3>2
    <2>2. CASE ~(i <= Len(t))
      BY <2>2, BlankIsGood
    <2> QED BY <2>1, <2>2
  <1>6. ASSUME NEW i \in 1 .. Len(h)
        PROVE  GoodRow(Merged(row(i), h[i], o[i]))
               /\ Merged(row(i), h[i], o[i]).sent = row(i).sent + Queries
    <2>1. i \in 1 .. n /\ i \in DOMAIN h /\ i \in DOMAIN o
      BY <1>2, <1>3
    <2>2. GoodRow(row(i))
      <3> HIDE DEF row, n
      <3> QED BY <1>5, <2>1
    <2>3. GoodHop(h[i]) /\ (o[i] # NoName => h[i].addr # NoAddr)
      BY <1>1, <2>1 DEF CycleOK
    <2>4. o[i] \in HostName \cup {NoName}
      BY <1>2, <2>1
    <2> DEFINE r == row(i)
               g == h[i]
               p == o[i]
    <2> HIDE DEF r, g, p
    <2>5. GoodRow(r) /\ GoodHop(g) /\ p \in HostName \cup {NoName} /\ (p # NoName => g.addr # NoAddr)
      BY <2>2, <2>3, <2>4 DEF r, g, p
    <2>6. GoodRow(Merged(r, g, p)) /\ Merged(r, g, p).sent = r.sent + Queries
      BY <2>5, MergedIsGood
    <2> QED BY <2>6 DEF r, g, p
  <1> HIDE DEF row, n
  <1> QED BY <1>3, <1>4, <1>5, <1>6 DEF row, n

LEMMA UpdateGood ==
  ASSUME IInv, NEW w \in Worker, Update(w)
  PROVE  IInv'
  <1> USE Sizes
  <1> DEFINE d == DisplayOf[w]
             t == table[d]
             h == hops[w]
             o == host[w]
             u == table'[d]
             n == IF Len(t) < Len(h) THEN Len(h) ELSE Len(t)
             row(i) == IF i <= Len(t) THEN t[i] ELSE Blank
             new(i) == Merged(row(i), h[i], o[i])
  <1>0. d \in Display
    BY TraceAssumption
  <1>1. TypeOK /\ (\A v \in Worker : CycleOK(v)) /\ \A c \in Display : TableOK(c)
    BY DEF IInv
  <1>2. /\ n \in 1 .. MaxHops /\ Len(h) \in 1 .. n /\ Len(t) \in 0 .. n
        /\ u = [i \in 1 .. n |-> IF i <= Len(h) THEN new(i) ELSE row(i)]
        /\ \A i \in 1 .. n : GoodRow(row(i))
        /\ \A i \in 1 .. Len(h) : GoodRow(new(i)) /\ new(i).sent = row(i).sent + Queries
    BY UpdateGives
  <1>3. \A i \in 1 .. n : GoodRow(u[i]) /\ u[i] \in RowType
    <2> HIDE DEF new, row, n
    <2> SUFFICES ASSUME NEW i \in 1 .. n PROVE GoodRow(u[i]) /\ u[i] \in RowType
      OBVIOUS
    <2>1. GoodRow(u[i])
      <3>1. CASE i <= Len(h)
        <4>1. i \in 1 .. Len(h)
          BY <1>2, <3>1
        <4> QED BY <1>2, <3>1, <4>1
      <3>2. CASE ~(i <= Len(h))
        BY <1>2, <3>2
      <3> QED BY <3>1, <3>2
    <2> QED BY <2>1 DEF GoodRow
  <1>4. u \in Seq(RowType) /\ Len(u) = n /\ DOMAIN u = 1 .. n
    <2> HIDE DEF new, row, n
    <2>1. u \in [1 .. n -> RowType]
      <3>1. u = [i \in 1 .. n |-> u[i]]
        BY <1>2
      <3> QED BY <1>3, <3>1
    <2>2. n \in Nat
      BY <1>2
    <2> QED BY <2>1, <2>2
  <1>5. table' = [table EXCEPT ![d] = u] /\ cycles' = [cycles EXCEPT ![d] = @ + 1]
        /\ pc' = [pc EXCEPT ![w] = "idle"] /\ hops' = hops /\ host' = host /\ UNCHANGED dns
        /\ cycles[d] \in Nat /\ cycles'[d] = cycles[d] + 1
    BY <1>0, <1>1 DEF TypeOK, Update
  <1>6. TableOK(d)'
    <2>0. t \in Seq(RowType) /\ h \in Seq(HopType)
      BY <1>0, <1>1 DEF TypeOK
    <2>1. Len(u) <= MaxHops /\ u # <<>> /\ cycles'[d] # 0
      BY <1>2, <1>4, <1>5
    <2>2. u[1].sent = Queries * cycles'[d]
      <3>1. 1 \in 1 .. n /\ 1 \in 1 .. Len(h) /\ 1 <= Len(h)
        BY <1>2, <2>0
      <3>2. u[1] = new(1) /\ new(1).sent = row(1).sent + Queries
        <4> HIDE DEF new, row, n
        <4> QED BY <1>2, <3>1
      <3>3. row(1).sent = Queries * cycles[d]
        <4>1. CASE t = <<>>
          <5>1. cycles[d] = 0 /\ ~(1 <= Len(t))
            BY <1>0, <1>1, <4>1 DEF TableOK
          <5>2. row(1).sent = 0
            BY <5>1 DEF Blank
          <5> QED BY <5>1, <5>2
        <4>2. CASE t # <<>>
          <5>1. t[1].sent = Queries * cycles[d]
            BY <1>0, <1>1, <4>2 DEF TableOK
          <5>2. 1 <= Len(t)
            BY <2>0, <4>2
          <5> QED BY <5>1, <5>2
        <4> QED BY <4>1, <4>2
      <3>4. Queries * (cycles[d] + 1) = Queries * cycles[d] + Queries
        BY <1>5
      <3> QED BY <1>5, <3>2, <3>3, <3>4
    <2>3. ASSUME NEW i \in 2 .. Len(u) PROVE u[i].sent <= u[i - 1].sent
      <3>1. i \in 1 .. n /\ i - 1 \in 1 .. n /\ i \in Nat
        BY <1>2, <1>4
      <3>2. row(i).sent <= row(i - 1).sent /\ row(i).sent \in Nat /\ row(i - 1).sent \in Nat
        <4>0. row(i).sent \in Nat /\ row(i - 1).sent \in Nat
          <5> HIDE DEF row, n
          <5>1. GoodRow(row(i)) /\ GoodRow(row(i - 1))
            BY <1>2, <3>1
          <5> QED BY <5>1 DEF GoodRow, RowType
        <4>1. CASE i <= Len(t)
          <5>1. i \in 2 .. Len(t) /\ i - 1 <= Len(t)
            BY <2>0, <3>1, <4>1
          <5>2. t[i].sent <= t[i - 1].sent
            BY <1>0, <1>1, <5>1 DEF TableOK
          <5>3. row(i) = t[i] /\ row(i - 1) = t[i - 1]
            BY <4>1, <5>1
          <5> HIDE DEF row
          <5> QED BY <4>0, <5>2, <5>3
        <4>2. CASE ~(i <= Len(t))
          <5>1. row(i).sent = 0
            BY <4>2 DEF Blank
          <5> HIDE DEF row
          <5> QED BY <4>0, <5>1
        <4> QED BY <4>1, <4>2
      <3> HIDE DEF row, new, n, u
      <3>4. u[i].sent = (IF i <= Len(h) THEN row(i).sent + Queries ELSE row(i).sent)
        <4>1. CASE i <= Len(h)
          <5>1. i \in 1 .. Len(h)
            BY <3>1, <4>1
          <5> QED BY <1>2, <3>1, <4>1, <5>1
        <4> QED BY <1>2, <3>1, <4>1
      <3>5. u[i - 1].sent = (IF i - 1 <= Len(h) THEN row(i - 1).sent + Queries ELSE row(i - 1).sent)
        <4>1. CASE i - 1 <= Len(h)
          <5>1. i - 1 \in 1 .. Len(h)
            BY <3>1, <4>1
          <5> QED BY <1>2, <3>1, <4>1, <5>1
        <4> QED BY <1>2, <3>1, <4>1
      <3>6. i <= Len(h) => i - 1 <= Len(h)
        BY <2>0, <3>1
      <3> QED BY <3>2, <3>4, <3>5, <3>6
    <2> HIDE DEF u
    <2>4. table'[d] = u
      BY DEF u
    <2> QED BY <1>3, <1>4, <2>1, <2>2, <2>3, <2>4 DEF TableOK, GoodRow, RowType
  <1>7. CycleOK(w)'
    <2>1. CycleOK(w) /\ pc'[w] = "idle"
      BY <1>1, <1>5 DEF TypeOK
    <2> QED BY <1>5, <2>1 DEF CycleOK, GoodHop, HopType
  <1>8. TypeOK'
    <2> HIDE DEF u, n
    <2>1. table' \in [Display -> Seq(RowType)] /\ \A c \in Display : Len(table'[c]) <= MaxHops
      <3>1. Len(u) <= MaxHops
        BY <1>2, <1>4
      <3> QED BY <1>0, <1>1, <1>4, <1>5, <3>1 DEF TypeOK
    <2>2. cycles' \in [Display -> Nat]
      BY <1>1, <1>5 DEF TypeOK
    <2>3. DnsTypeOK'
      BY <1>1, <1>5 DEF TypeOK, DnsTypeOK, dns
    <2> QED BY <1>1, <1>5, <2>1, <2>2, <2>3 DEF TypeOK
  <1>9. ASSUME NEW v \in Worker, v # w PROVE CycleOK(v)'
    <2>1. pc'[v] = pc[v]
      BY <1>1, <1>5, <1>9 DEF TypeOK
    <2> QED BY <1>1, <1>5, <2>1, CycleElsewhere
  <1>10. ASSUME NEW c \in Display, c # d PROVE TableOK(c)'
    <2>1. table'[c] = table[c] /\ cycles'[c] = cycles[c]
      BY <1>1, <1>5, <1>10 DEF TypeOK
    <2> QED BY <1>1, <2>1, TableElsewhere
  <1> QED BY <1>6, <1>7, <1>8, <1>9, <1>10 DEF IInv

LEMMA NextGood == IInv /\ [Next]_vars => IInv'
  <1> SUFFICES ASSUME IInv, [Next]_vars PROVE IInv'
    OBVIOUS
  <1>1. TypeOK /\ (\A w \in Worker : CycleOK(w)) /\ \A d \in Display : TableOK(d)
    BY DEF IInv
  <1>2. CASE UNCHANGED vars
    <2>1. UNCHANGED <<names, pending, flying, works, pc, hops, host, table, cycles>>
      BY <1>2 DEF vars
    <2>2. TypeOK'
      BY <1>1, <2>1 DEF TypeOK, DnsTypeOK
    <2>3. ASSUME NEW w \in Worker PROVE CycleOK(w)'
      BY <1>1, <2>1, CycleElsewhere
    <2>4. ASSUME NEW d \in Display PROVE TableOK(d)'
      BY <1>1, <2>1, TableElsewhere
    <2> QED BY <2>2, <2>3, <2>4 DEF IInv
  <1>3. CASE (Toggle \/ \E a \in HopAddr : Resolve(a)) /\ UNCHANGED trace
    <2>1. UNCHANGED <<pc, hops, host, table, cycles>>
      BY <1>3 DEF trace
    <2>2. DnsTypeOK'
      <3>1. CASE Toggle
        BY <1>1, <3>1 DEF TypeOK, DnsTypeOK, Toggle
      <3>2. CASE \E a \in HopAddr : Resolve(a)
        BY <1>1, <3>2, ResolveTypes DEF TypeOK
      <3> QED BY <1>3, <3>1, <3>2
    <2>3. TypeOK'
      BY <1>1, <2>1, <2>2 DEF TypeOK
    <2>4. ASSUME NEW w \in Worker PROVE CycleOK(w)'
      BY <1>1, <2>1, CycleElsewhere
    <2>5. ASSUME NEW d \in Display PROVE TableOK(d)'
      BY <1>1, <2>1, TableElsewhere
    <2> QED BY <2>3, <2>4, <2>5 DEF IInv
  <1> QED BY <1>2, <1>3, BeginGood, StepGood, NameGood, UpdateGood DEF Next

LEMMA AlwaysGood == Spec => []IInv
  <1> QED BY InitGood, NextGood, PTL DEF Spec

\* Every variable keeps its type: the hops of a cycle and the rows of a table are never
\* more than MaxHops, a hop has no more answers than probes
\* (traceroute.go:30-61, store.go:186-217).
THEOREM TypeCorrect == Spec => []TypeOK
  <1>1. IInv => TypeOK
    BY DEF IInv
  <1> QED BY <1>1, AlwaysGood, PTL

LEMMA MeanBetween ==
  ASSUME NEW b \in Nat, NEW s \in Nat, NEW w \in Nat, NEW n \in Nat \ {0}, b * n <= s, s <= w * n
  PROVE  b <= s \div n /\ s \div n <= w
  <1> DEFINE q == s \div n
             r == s % n
  <1>1. q \in Nat /\ r \in 0 .. n - 1 /\ s = n * q + r
    OBVIOUS
  <1> HIDE DEF q, r
  <1>2. ASSUME q < b PROVE FALSE
    <2>1. (q + 1) * n <= b * n
      <3>1. q + 1 \in Nat /\ q + 1 <= b
        BY <1>1, <1>2
      <3>2. \A x, y, m \in Nat : x <= y => x * m <= y * m
        BY TimesGrows
      <3> QED BY <3>1, <3>2
    <2>2. (q + 1) * n = n * q + n
      BY <1>1
    <2>3. n * q \in Nat /\ b * n \in Nat
      BY <1>1
    <2> QED BY <1>1, <2>1, <2>2, <2>3
  <1>3. ASSUME w < q PROVE FALSE
    <2>1. (w + 1) * n <= q * n
      <3>1. w + 1 \in Nat /\ w + 1 <= q
        BY <1>1, <1>3
      <3>2. \A x, y, m \in Nat : x <= y => x * m <= y * m
        BY TimesGrows
      <3> QED BY <1>1, <3>1, <3>2
    <2>2. (w + 1) * n = w * n + n /\ q * n = n * q
      BY <1>1
    <2>3. w * n \in Nat /\ n * q \in Nat
      BY <1>1
    <2> QED BY <1>1, <2>1, <2>2, <2>3
  <1>4. b <= q /\ q <= w
    BY <1>1, <1>2, <1>3
  <1> QED BY <1>4 DEF q

\* The variance of n times between b and w is no more than the square of half of what
\* lies between them, where s is their sum and A that of their squares.
LEMMA HalfTheSpread ==
  ASSUME NEW n \in Nat, NEW s \in Nat, NEW A \in Nat, NEW b \in Nat, NEW w \in Nat,
         b * n <= s, s <= w * n, A + b * w * n <= (b + w) * s
  PROVE  4 * (A * n - s * s) <= (n * (w - b)) * (n * (w - b))
  <1>1. PICK x \in Nat : s = b * n + x
    <2> DEFINE y == b * n
    <2>1. y \in Nat /\ y <= s
      OBVIOUS
    <2> HIDE DEF y
    <2>2. s - y \in Nat /\ s = y + (s - y)
      BY <2>1
    <2> QED BY <2>2 DEF y
  <1>2. PICK z \in Nat : w * n = s + z
    <2> DEFINE y == w * n
    <2>1. y \in Nat /\ s <= y
      OBVIOUS
    <2> HIDE DEF y
    <2>2. y - s \in Nat /\ y = s + (y - s)
      BY <2>1
    <2> QED BY <2>2 DEF y
  <1>3. A * n + b * w * n * n <= (b + w) * s * n
    <2> DEFINE l == A + b * w * n
               m == (b + w) * s
    <2>1. l \in Nat /\ m \in Nat /\ l <= m
      OBVIOUS
    <2> HIDE DEF l, m
    <2>2. l * n <= m * n
      BY <2>1, TimesGrows
    <2>3. (A + b * w * n) * n = A * n + b * w * n * n
      OBVIOUS
    <2> QED BY <2>2, <2>3 DEF l, m
  <1>4. (b + w) * s * n = (s - x) * s + (s + z) * s
    <2>1. (b + w) * s * n = (b * n) * s + (w * n) * s
      OBVIOUS
    <2>2. b * n = s - x
      BY <1>1
    <2> QED BY <1>2, <2>1, <2>2
  <1>5. b * w * n * n = (s - x) * (s + z)
    <2>1. b * w * n * n = (b * n) * (w * n)
      OBVIOUS
    <2>2. b * n = s - x
      BY <1>1
    <2> QED BY <1>2, <2>1, <2>2
  <1>6. (s - x) * s + (s + z) * s = (s - x) * (s + z) + s * s + x * z
    OBVIOUS
  <1>7. A * n - s * s <= x * z
    <2> DEFINE p == A * n
               q == (s - x) * (s + z)
               t == s * s
               y == x * z
    <2>1. p + q <= q + t + y
      BY <1>3, <1>4, <1>5, <1>6
    <2>2. p \in Int /\ q \in Int /\ t \in Int /\ y \in Int
      OBVIOUS
    <2> HIDE DEF p, q, t, y
    <2>3. p - t <= y
      BY <2>1, <2>2
    <2> QED BY <2>3 DEF p, t, y
  <1>8. n * (w - b) = x + z
    <2>1. n * (w - b) = w * n - b * n
      OBVIOUS
    <2>2. b * n = s - x /\ w * n = s + z
      BY <1>1, <1>2
    <2> QED BY <2>1, <2>2
  <1>9. 4 * (x * z) <= (x + z) * (x + z)
    <2>1. (x + z) * (x + z) = 4 * (x * z) + (x - z) * (x - z)
      OBVIOUS
    <2>2. (x - z) * (x - z) >= 0
      <3> DEFINE d == x - z
      <3>1. d \in Int
        OBVIOUS
      <3> HIDE DEF d
      <3>2. d * d >= 0
        BY <3>1
      <3> QED BY <3>2 DEF d
    <2> DEFINE p == x * z
               q == (x - z) * (x - z)
               t == (x + z) * (x + z)
    <2>3. p \in Int /\ q \in Int /\ t \in Int /\ t = 4 * p + q /\ q >= 0
      BY <2>1, <2>2
    <2> HIDE DEF p, q, t
    <2>4. 4 * p <= t
      BY <2>3
    <2> QED BY <2>4 DEF p, t
  <1> DEFINE v == A * n - s * s
             p == x * z
             t == (x + z) * (x + z)
  <1>10. v \in Int /\ p \in Int /\ t \in Int /\ v <= p /\ 4 * p <= t
    BY <1>7, <1>9
  <1> HIDE DEF v, p, t
  <1>11. 4 * v <= t
    BY <1>10
  <1> QED BY <1>8, <1>11 DEF v, t

\* The figures of a row belong together, however many cycles were merged into it,
\* whatever the path was, whichever probes were lost and whatever the floats lose of the
\* mean and of the variance: the last time is between the best and the worst and the
\* mean is but for its error, what math.Sqrt is given is not negative, and the deviation
\* is no more than half the spread but for its error (store.go:196-217, 321-348).
THEOREM FiguresAddUp == Spec => []RowsAddUp
  <1>1. IInv => RowsAddUp
    <2> SUFFICES ASSUME IInv, NEW d \in Display, NEW i \in DOMAIN table[d],
                        NEW e \in -MeanErr .. MeanErr, NEW f \in -VarErr .. VarErr
                 PROVE  LET h == HopStats(table[d][i], e, f)
                            spread == h.recv * (h.worst - h.best)
                        IN  /\ h.lost \in 0 .. h.sent
                            /\ h.square >= 0 /\ 4 * h.square <= spread * spread + 4 * VarErr
                            /\ h.recv = 0 =>
                                 h.addr = NoAddr /\ h.host = NoName /\ {h.best, h.last, h.avg, h.worst} = {0}
                            /\ h.recv > 0 =>
                                 /\ h.addr # NoAddr
                                 /\ 0 < h.best /\ h.best <= h.last /\ h.last <= h.worst
                                 /\ h.best - MeanErr <= h.avg /\ h.avg <= h.worst + MeanErr
      BY DEF RowsAddUp
    <2> DEFINE r == table[d][i]
    <2>1. GoodRow(r)
      BY DEF IInv, TableOK
    <2>0. MeanErr \in Nat /\ VarErr \in Nat /\ e \in Int /\ f \in Int
          /\ -MeanErr <= e /\ e <= MeanErr /\ f <= VarErr
      BY TraceAssumption
    <2> HIDE DEF r
    <2>2. /\ r.sent \in Nat /\ r.recv \in Nat /\ r.best \in Nat /\ r.worst \in Nat /\ r.last \in Nat
          /\ r.sum \in Nat /\ r.sumSq \in Nat
      BY <2>1 DEF GoodRow, RowType
    <2> DEFINE h == HopStats(r, e, f)
               avg == IF r.recv > 0 THEN r.sum \div r.recv + e ELSE 0
               var == r.sumSq * r.recv - r.sum * r.sum
               sq == IF r.recv > 0 /\ var + f > 0 THEN var + f ELSE 0
               spread == r.recv * (r.worst - r.best)
    <2>3. /\ h.addr = r.addr /\ h.host = r.host /\ h.sent = r.sent /\ h.recv = r.recv
          /\ h.lost = r.sent - r.recv /\ h.last = r.last /\ h.best = r.best /\ h.worst = r.worst
          /\ h.avg = avg /\ h.square = sq
      BY DEF HopStats
    <2>4. sq >= 0 /\ 4 * sq <= spread * spread + 4 * VarErr
      <3> DEFINE m == spread * spread
      <3>1. var \in Int /\ m \in Int
        BY <2>2
      <3>2. m >= 0
        <4>1. spread \in Int
          BY <2>2
        <4> HIDE DEF spread
        <4> QED BY <4>1
      <3>3. r.recv > 0 => 4 * var <= m
        <4> SUFFICES ASSUME r.recv > 0 PROVE 4 * var <= m
          OBVIOUS
        <4> DEFINE n == r.recv
                   s == r.sum
                   A == r.sumSq
                   b == r.best
                   w == r.worst
        <4>1. /\ n \in Nat /\ s \in Nat /\ A \in Nat /\ b \in Nat /\ w \in Nat
              /\ b * n <= s /\ s <= w * n /\ A + b * w * n <= (b + w) * s
          BY <2>1, <2>2 DEF GoodRow
        <4> HIDE DEF n, s, A, b, w
        <4>2. 4 * (A * n - s * s) <= (n * (w - b)) * (n * (w - b))
          BY <4>1, HalfTheSpread
        <4> QED BY <4>2 DEF n, s, A, b, w
      <3> HIDE DEF var, m
      <3>4. sq >= 0 /\ 4 * sq <= m + 4 * VarErr
        <4>1. CASE r.recv > 0 /\ var + f > 0
          <5>1. sq = var + f
            BY <4>1
          <5> HIDE DEF sq
          <5> QED BY <2>0, <3>1, <3>3, <4>1, <5>1
        <4>2. CASE ~(r.recv > 0 /\ var + f > 0)
          <5>1. sq = 0
            BY <4>2
          <5> HIDE DEF sq
          <5> QED BY <2>0, <3>1, <3>2, <5>1
        <4> QED BY <4>1, <4>2
      <3> QED BY <3>4 DEF m
    <2>5. r.recv > 0 => r.best - MeanErr <= avg /\ avg <= r.worst + MeanErr
      <3> SUFFICES ASSUME r.recv > 0 PROVE r.best - MeanErr <= avg /\ avg <= r.worst + MeanErr
        OBVIOUS
      <3>1. r.best * r.recv <= r.sum /\ r.sum <= r.worst * r.recv
        BY <2>1 DEF GoodRow
      <3> DEFINE b == r.best
                 s == r.sum
                 v == r.worst
                 n == r.recv
                 mean == s \div n
      <3>2. b \in Nat /\ s \in Nat /\ v \in Nat /\ n \in Nat \ {0} /\ b * n <= s /\ s <= v * n
        BY <2>2, <3>1
      <3>3. avg = mean + e /\ mean \in Int
        BY <3>2
      <3> HIDE DEF b, s, v, n, avg
      <3>4. b <= mean /\ mean <= v
        BY <3>2, MeanBetween
      <3> HIDE DEF mean
      <3>5. b - MeanErr <= avg /\ avg <= v + MeanErr
        BY <2>0, <3>2, <3>3, <3>4
      <3> QED BY <3>5 DEF b, v
    <2>6. r.recv = 0 => avg = 0
      OBVIOUS
    <2> HIDE DEF h, var, sq, avg
    <2>7. h.lost \in 0 .. h.sent
      <3>1. r.recv <= r.sent
        BY <2>1 DEF GoodRow
      <3> QED BY <2>2, <2>3, <3>1
    <2>8. h.recv = 0 => h.addr = NoAddr /\ h.host = NoName /\ {h.best, h.last, h.avg, h.worst} = {0}
      BY <2>1, <2>3, <2>6 DEF GoodRow
    <2>9. h.recv > 0 =>
            /\ h.addr # NoAddr
            /\ 0 < h.best /\ h.best <= h.last /\ h.last <= h.worst
            /\ h.best - MeanErr <= h.avg /\ h.avg <= h.worst + MeanErr
      BY <2>1, <2>3, <2>5 DEF GoodRow
    <2>10. h.square >= 0
           /\ 4 * h.square <= (h.recv * (h.worst - h.best)) * (h.recv * (h.worst - h.best)) + 4 * VarErr
      BY <2>3, <2>4
    <2> QED BY <2>7, <2>8, <2>9, <2>10 DEF h, r
  <1> QED BY <1>1, AlwaysGood, PTL

\* A row has been sent no more probes than the row before it, and the first has all
\* those of every cycle, for the cycles of its workers all start at the first hop
\* (traceroute.go:30-61, store.go:190-204).
THEOREM ProbesFallAlongPath == Spec => []SentFallsAlongPath
  <1>1. IInv => SentFallsAlongPath
    BY DEF IInv, TableOK, SentFallsAlongPath
  <1> QED BY <1>1, AlwaysGood, PTL

(***************************************************************************)
(* The shared cache of names.                                              *)
(***************************************************************************)

DnsInv == DnsTypeOK /\ LookedUpOnce

LEMMA InitOnce == DnsInit => DnsInv
  BY DnsAssumption DEF DnsInit, DnsInv, DnsTypeOK, LookedUpOnce

\* lookup starts a goroutine for an address only where there is none.
LEMMA LookupOnce ==
  ASSUME DnsInv, NEW a \in HopAddr, Lookup(a)
  PROVE  DnsInv'
  <1>1. CASE Fresh(a)
    <2>1. flying[a] = 0 /\ flying' = [flying EXCEPT ![a] = 1] /\ pending' = pending \cup {a}
      BY <1>1 DEF DnsInv, DnsTypeOK, LookedUpOnce, Fresh, Lookup
    <2> QED BY <1>1, <2>1 DEF DnsInv, DnsTypeOK, LookedUpOnce, Fresh, Lookup
  <1>2. CASE ~Fresh(a)
    BY <1>2 DEF DnsInv, DnsTypeOK, LookedUpOnce, Lookup
  <1> QED BY <1>1, <1>2

\* The goroutine that ends was the only one of its address.
LEMMA ResolveOnce ==
  ASSUME DnsInv, NEW a \in HopAddr, Resolve(a)
  PROVE  DnsInv'
  <1>1. a \in pending /\ flying[a] = 1
    BY DEF DnsInv, DnsTypeOK, LookedUpOnce, Resolve
  <1>2. Found(a) \in HostName \cup {NoName} /\ Found(a) # Unknown
    BY DnsAssumption DEF Found, NoName, Unknown
  <1>3. /\ flying' = [flying EXCEPT ![a] = 0] /\ pending' = pending \ {a}
        /\ names' = [names EXCEPT ![a] = Found(a)] /\ works' = works
    BY <1>1 DEF Resolve
  <1> QED BY <1>1, <1>2, <1>3 DEF DnsInv, DnsTypeOK, LookedUpOnce

\* The cache keeps its types, and looks no address up twice: at any moment the
\* goroutines that run are one for each pending address, whatever workers ask for
\* and however long the DNS takes (dns.go:22-46).
THEOREM NeverTwice == DnsSpec => [](DnsTypeOK /\ LookedUpOnce)
  <1>1. DnsInv /\ [DnsNext]_dns => DnsInv'
    <2> SUFFICES ASSUME DnsInv, [DnsNext]_dns PROVE DnsInv'
      OBVIOUS
    <2>1. CASE Toggle
      BY <2>1 DEF DnsInv, DnsTypeOK, LookedUpOnce, Toggle
    <2>2. CASE UNCHANGED dns
      BY <2>2 DEF DnsInv, DnsTypeOK, LookedUpOnce, dns
    <2> QED BY <2>1, <2>2, LookupOnce, ResolveOnce DEF DnsNext
  <1> QED BY InitOnce, <1>1, PTL DEF DnsSpec, DnsInv

\* A name is not taken back: only the lookup of an address enters a result for it,
\* and it is looked up but once (dns.go:24-45).
THEOREM NamesStay == DnsSpec => NameStays
  <1>1. DnsInv /\ [DnsNext]_dns =>
          [\A a \in HopAddr : names[a] \in HostName => names'[a] = names[a]]_dns
    <2> SUFFICES ASSUME DnsInv, DnsNext, NEW a \in HopAddr, names[a] \in HostName
                 PROVE  names'[a] = names[a]
      BY DEF dns
    <2>1. CASE \E b \in HopAddr : Resolve(b)
      <3>1. PICK b \in HopAddr : Resolve(b)
        BY <2>1
      <3>2. b \in pending /\ names[b] = Unknown
        BY <3>1 DEF DnsInv, DnsTypeOK, LookedUpOnce, Resolve
      <3>3. a # b
        BY <3>2, DnsAssumption
      <3> QED BY <3>1, <3>3 DEF DnsInv, DnsTypeOK, Resolve
    <2> QED BY <2>1 DEF DnsNext, Toggle, Lookup
  <1>2. DnsSpec => []DnsInv
    BY NeverTwice, PTL DEF DnsInv
  <1> QED BY <1>1, <1>2, PTL DEF DnsSpec, NameStays

\* Every step of the workers is one of the cache, or none: what they ask for is an
\* address of a hop.
LEMMA WorkersUseTheCache == Spec => DnsSpec
  <1>1. Init => DnsInit
    BY DEF Init
  <1>2. IInv /\ [Next]_vars => [DnsNext]_dns
    <2> SUFFICES ASSUME IInv, Next PROVE DnsNext \/ UNCHANGED dns
      BY DEF vars, dns
    <2>1. ASSUME NEW w \in Worker, Name(w) PROVE DnsNext \/ UNCHANGED dns
      BY <2>1, NameGives DEF DnsNext
    <2>2. ASSUME NEW w \in Worker, Begin(w) \/ Step(w) \/ Update(w) PROVE UNCHANGED dns
      BY <2>2 DEF Begin, Step, Update
    <2> QED BY <2>1, <2>2 DEF Next, DnsNext
  <1> QED BY <1>1, <1>2, AlwaysGood, PTL DEF Spec, DnsSpec

\* However many workers share the cache and whichever hops their paths have in common,
\* an address is looked up by one goroutine at a time, and not again once there is a
\* result (dns.go:22-46, prober.go:131-134).
THEOREM SharedNeverTwice == Spec => []LookedUpOnce
  BY WorkersUseTheCache, NeverTwice, PTL

\* A name a worker has been given is not taken back while the workers run
\* (dns.go:24-27, 40-43).
THEOREM SharedNamesStay == Spec => NameStays
  BY WorkersUseTheCache, NamesStay, PTL

(***************************************************************************)
(* The names in the rows.                                                  *)
(***************************************************************************)

At(w, i) == Path[w][i] \cup {NoAddr}

NameOK(a) == names[a] \in {Unknown, NoName, Ptr[a]}

HopNamed(w) ==
    /\ \A i \in DOMAIN hops[w] : hops[w][i].addr \in At(w, i)
    /\ \A i \in DOMAIN host[w] : host[w][i] # NoName => host[w][i] = Ptr[hops[w][i].addr]

RowNamed(d, i, r) ==
    /\ r.addr # NoAddr => r.addr \in OnPath(d, i)
    /\ r.host # NoName => r.addr # NoAddr /\ \E a \in OnPath(d, i) : r.host = Ptr[a]

NamedInv ==
    /\ \A a \in HopAddr : NameOK(a)
    /\ \A w \in Worker : HopNamed(w)
    /\ \A d \in Display : \A i \in DOMAIN table[d] : RowNamed(d, i, table[d][i])

\* A step leaves the names of a worker's hops alone.
LEMMA NamedElsewhere ==
  ASSUME NEW w \in Worker, hops'[w] = hops[w], host'[w] = host[w], HopNamed(w)
  PROVE  HopNamed(w)'
  BY DEF HopNamed, At

LEMMA NamesAreDns ==
  ASSUME DnsTypeOK, \A a \in HopAddr : NameOK(a), DnsNext \/ UNCHANGED dns
  PROVE  (\A a \in HopAddr : NameOK(a))'
  <1>1. CASE UNCHANGED dns \/ Toggle \/ \E b \in HopAddr : Lookup(b)
    BY <1>1 DEF dns, Toggle, Lookup, NameOK
  <1>2. ASSUME NEW b \in HopAddr, Resolve(b) PROVE (\A a \in HopAddr : NameOK(a))'
    <2> SUFFICES ASSUME NEW a \in HopAddr PROVE names'[a] \in {Unknown, NoName, Ptr[a]}
      BY DEF NameOK
    <2>1. CASE a = b
      <3>1. names'[a] = Found(b)
        BY <1>2, <2>1 DEF DnsTypeOK, Resolve
      <3> QED BY <2>1, <3>1 DEF Found
    <2>2. CASE a # b
      <3>1. names'[a] = names[a]
        BY <1>2, <2>2 DEF DnsTypeOK, Resolve
      <3> QED BY <3>1 DEF NameOK
    <2> QED BY <2>1, <2>2
  <1> QED BY <1>1, <1>2 DEF DnsNext

LEMMA StepIsDns ==
  ASSUME IInv, Next
  PROVE  DnsNext \/ UNCHANGED dns
  <1>1. ASSUME NEW w \in Worker, Name(w) PROVE DnsNext \/ UNCHANGED dns
    BY <1>1, NameGives DEF DnsNext
  <1>2. ASSUME NEW w \in Worker, Begin(w) \/ Step(w) \/ Update(w) PROVE UNCHANGED dns
    BY <1>2 DEF Begin, Step, Update
  <1> QED BY <1>1, <1>2 DEF Next, DnsNext

LEMMA StepNamed ==
  ASSUME IInv, NEW w \in Worker, HopNamed(w), Step(w)
  PROVE  HopNamed(w)'
  <1> USE Sizes
  <1> DEFINE s == hops[w]
             n == Len(s) + 1
  <1>1. TypeOK /\ CycleOK(w)
    BY DEF IInv
  <1>2. s \in Seq(HopType) /\ n \in 1 .. MaxHops /\ host[w] = <<>>
    BY <1>1 DEF TypeOK, CycleOK, Step
  <1>3. PICK h \in HopsAt(w, n) : hops' = [hops EXCEPT ![w] = Append(s, h)]
    BY DEF Step
  <1>4. h.addr \in At(w, n)
    <2> HIDE DEF n
    <2> QED BY <1>2, <1>3, HopIsGood DEF At
  <1>5. hops'[w] = Append(s, h) /\ host'[w] = <<>>
    BY <1>1, <1>2, <1>3 DEF TypeOK, Step
  <1>6. ASSUME NEW i \in DOMAIN hops'[w] PROVE hops'[w][i].addr \in At(w, i)
    <2>1. i \in 1 .. n
      BY <1>2, <1>5
    <2>2. CASE i = n
      BY <1>2, <1>4, <1>5, <2>2
    <2>3. CASE i # n
      <3>1. i \in DOMAIN s /\ hops'[w][i] = s[i]
        BY <1>2, <1>5, <2>1, <2>3
      <3> QED BY <3>1 DEF HopNamed
    <2> QED BY <2>1, <2>2, <2>3
  <1> QED BY <1>5, <1>6 DEF HopNamed, At

LEMMA NameNamed ==
  ASSUME IInv, NEW w \in Worker, HopNamed(w), \A a \in HopAddr : NameOK(a), Name(w)
  PROVE  HopNamed(w)'
  <1> DEFINE s == host[w]
             n == Len(s) + 1
  <1>1. TypeOK
    BY DEF IInv
  <1>2. s \in Seq(HostName \cup {NoName}) /\ hops' = hops
    BY <1>1 DEF TypeOK, Name
  <1>3. PICK x \in HostName \cup {NoName} :
           /\ host' = [host EXCEPT ![w] = Append(@, x)]
           /\ \/ Hop(w).addr = NoAddr /\ x = NoName /\ UNCHANGED dns
              \/ Hop(w).addr \in HopAddr /\ x = NameOf(Hop(w).addr) /\ Lookup(Hop(w).addr)
    BY NameGives
  <1>4. host'[w] = Append(s, x)
    BY <1>1, <1>3 DEF TypeOK
  <1>5. x # NoName => x = Ptr[hops[w][n].addr]
    <2> SUFFICES ASSUME x # NoName PROVE x = Ptr[Hop(w).addr]
      BY DEF Hop
    <2>1. Hop(w).addr \in HopAddr /\ x = NameOf(Hop(w).addr)
      BY <1>3
    <2> QED BY <2>1, DnsAssumption DEF NameOf, NameOK
  <1>6. ASSUME NEW i \in DOMAIN host'[w], host'[w][i] # NoName
        PROVE  host'[w][i] = Ptr[hops'[w][i].addr]
    <2>1. i \in 1 .. n
      BY <1>2, <1>3, <1>4
    <2>2. CASE i = n
      <3>1. host'[w][i] = x
        BY <1>2, <1>3, <1>4, <2>2
      <3> QED BY <1>2, <1>5, <1>6, <2>2, <3>1
    <2>3. CASE i # n
      <3>1. i \in DOMAIN s /\ host'[w][i] = s[i]
        BY <1>2, <1>3, <1>4, <2>1, <2>3
      <3> QED BY <1>2, <1>6, <3>1 DEF HopNamed
    <2> QED BY <2>1, <2>2, <2>3
  <1> QED BY <1>2, <1>6 DEF HopNamed, At

\* Address and name of a hop are taken over by a row at the same distance.
LEMMA MergedNamed ==
  ASSUME NEW w \in Worker, NEW i \in 1 .. MaxHops, NEW r, NEW h, NEW name,
         GoodRow(r), RowNamed(DisplayOf[w], i, r), h.addr \in At(w, i),
         name # NoName => h.addr # NoAddr /\ name = Ptr[h.addr]
  PROVE  RowNamed(DisplayOf[w], i, Merged(r, h, name))
  <1> DEFINE a == IF h.addr = NoAddr THEN r.addr ELSE h.addr
             o == IF name = NoName THEN r.host ELSE name
             kept == [r EXCEPT !.addr = a, !.host = o, !.sent = r.sent + Queries]
             m == Merged(r, h, name)
  <1>0. r \in RowType
    BY DEF GoodRow
  <1>1. kept.addr = a /\ kept.host = o
    BY <1>0 DEF RowType
  <1>2. m.addr = a /\ m.host = o
    <2>1. CASE h.recv = 0
      <3>1. m = kept
        BY <1>0, <2>1 DEF Merged, RowType
      <3> QED BY <1>1, <3>1
    <2>2. CASE h.recv # 0
      <3>1. m = [kept EXCEPT !.recv = @ + h.recv, !.last = h.rtt,
                          !.sum = @ + h.rtt * h.recv, !.sumSq = @ + h.rtt * h.rtt * h.recv,
                          !.best = Best(@, h.rtt), !.worst = Worst(@, h.rtt)]
        BY <2>2 DEF Merged
      <3> HIDE DEF kept, m, a, o
      <3> QED BY <1>1, <3>1
    <2> QED BY <2>1, <2>2
  <1> DEFINE P == OnPath(DisplayOf[w], i)
  <1>3. h.addr # NoAddr => h.addr \in P
    BY DEF At, OnPath
  <1> HIDE DEF P
  <1>4. RowNamed(DisplayOf[w], i, r) <=>
          /\ r.addr # NoAddr => r.addr \in P
          /\ r.host # NoName => r.addr # NoAddr /\ \E x \in P : r.host = Ptr[x]
    BY DEF RowNamed, P
  <1>5. a # NoAddr => a \in P
    BY <1>3, <1>4
  <1>6. o # NoName => a # NoAddr /\ \E x \in P : o = Ptr[x]
    <2>1. CASE name # NoName
      BY <1>3, <2>1
    <2>2. CASE name = NoName
      BY <1>4, <2>2
    <2> QED BY <2>1, <2>2
  <1> HIDE DEF a, o, m
  <1> QED BY <1>2, <1>5, <1>6 DEF RowNamed, m, P

LEMMA UpdateNamed ==
  ASSUME IInv, NEW w \in Worker, HopNamed(w),
         \A i \in DOMAIN table[DisplayOf[w]] : RowNamed(DisplayOf[w], i, table[DisplayOf[w]][i]),
         Update(w)
  PROVE  \A i \in DOMAIN table'[DisplayOf[w]] : RowNamed(DisplayOf[w], i, table'[DisplayOf[w]][i])
  <1> USE Sizes
  <1> DEFINE d == DisplayOf[w]
             t == table[d]
             h == hops[w]
             o == host[w]
             u == table'[d]
             n == IF Len(t) < Len(h) THEN Len(h) ELSE Len(t)
             row(i) == IF i <= Len(t) THEN t[i] ELSE Blank
             new(i) == Merged(row(i), h[i], o[i])
  <1>0. d \in Display
    BY TraceAssumption
  <1>1. TypeOK /\ CycleOK(w)
    BY DEF IInv
  <1>2. /\ n \in 1 .. MaxHops /\ Len(h) \in 1 .. n /\ Len(t) \in 0 .. n
        /\ u = [i \in 1 .. n |-> IF i <= Len(h) THEN new(i) ELSE row(i)]
        /\ \A i \in 1 .. n : GoodRow(row(i))
    BY UpdateGives
  <1>3. t \in Seq(RowType) /\ h \in Seq(HopType) /\ o \in Seq(HostName \cup {NoName}) /\ Len(o) = Len(h)
    BY <1>0, <1>1 DEF TypeOK, Update
  <1> SUFFICES ASSUME NEW i \in 1 .. n PROVE RowNamed(d, i, u[i])
    <2> HIDE DEF n, row, new
    <2> QED BY <1>2
  <1>4. i \in 1 .. MaxHops /\ GoodRow(row(i))
    <2> HIDE DEF row
    <2> QED BY <1>2
  <1>5. RowNamed(d, i, row(i))
    <2>1. CASE i <= Len(t)
      <3>1. i \in DOMAIN t
        BY <1>3, <2>1, <1>4
      <3> QED BY <2>1, <3>1
    <2>2. CASE ~(i <= Len(t))
      BY <2>2 DEF RowNamed, Blank
    <2> QED BY <2>1, <2>2
  <1>6. CASE i <= Len(h)
    <2>1. i \in DOMAIN h /\ i \in DOMAIN o
      BY <1>3, <1>4, <1>6
    <2>2. h[i].addr \in At(w, i) /\ (o[i] # NoName => h[i].addr # NoAddr /\ o[i] = Ptr[h[i].addr])
      BY <1>1, <2>1 DEF HopNamed, CycleOK
    <2> DEFINE r == row(i)
               g == h[i]
               p == o[i]
    <2>3. /\ GoodRow(r) /\ RowNamed(DisplayOf[w], i, r) /\ g.addr \in At(w, i)
          /\ (p # NoName => g.addr # NoAddr /\ p = Ptr[g.addr])
      BY <1>4, <1>5, <2>2
    <2> HIDE DEF r, g, p
    <2>4. RowNamed(DisplayOf[w], i, Merged(r, g, p))
      BY <1>4, <2>3, MergedNamed
    <2>5. u[i] = Merged(r, g, p)
      <3> HIDE DEF row, n
      <3> QED BY <1>2, <1>6 DEF r, g, p
    <2> HIDE DEF u
    <2> QED BY <2>4, <2>5
  <1>7. CASE ~(i <= Len(h))
    <2>1. u[i] = row(i)
      <3> HIDE DEF row, n, new
      <3> QED BY <1>2, <1>7
    <2> HIDE DEF u, row
    <2> QED BY <1>5, <2>1
  <1> QED BY <1>6, <1>7

LEMMA InitNamed == Init => NamedInv
  <1> SUFFICES ASSUME Init PROVE NamedInv
    OBVIOUS
  <1>1. ASSUME NEW a \in HopAddr PROVE NameOK(a)
    BY DEF Init, DnsInit, NameOK
  <1>2. ASSUME NEW w \in Worker PROVE hops[w] = <<>> /\ host[w] = <<>>
    BY DEF Init
  <1>3. ASSUME NEW d \in Display PROVE table[d] = <<>>
    BY DEF Init
  <1> QED BY <1>1, <1>2, <1>3 DEF NamedInv, HopNamed

\* Only the cycle of a target shown as d writes to the rows of d.
LEMMA RowsNamed ==
  ASSUME IInv, NamedInv, Next, NEW d \in Display
  PROVE  \A i \in DOMAIN table'[d] : RowNamed(d, i, table'[d][i])
  <1>1. TypeOK
    BY DEF IInv
  <1>2. \A i \in DOMAIN table[d] : RowNamed(d, i, table[d][i])
    BY DEF NamedInv
  <1>3. CASE table'[d] = table[d]
    BY <1>2, <1>3
  <1>4. ASSUME NEW w \in Worker, Update(w) PROVE \A i \in DOMAIN table'[d] : RowNamed(d, i, table'[d][i])
    <2>1. CASE d = DisplayOf[w]
      <3>1. HopNamed(w)
        BY DEF NamedInv
      <3>2. \A i \in DOMAIN table[DisplayOf[w]] : RowNamed(DisplayOf[w], i, table[DisplayOf[w]][i])
        BY <1>2, <2>1
      <3> QED BY <1>4, <2>1, <3>1, <3>2, UpdateNamed
    <2>2. CASE d # DisplayOf[w]
      <3>1. PICK u : table' = [table EXCEPT ![DisplayOf[w]] = u]
        BY <1>4 DEF Update
      <3>2. table'[d] = table[d]
        BY <1>1, <2>2, <3>1 DEF TypeOK
      <3> QED BY <1>3, <3>2
    <2> QED BY <2>1, <2>2
  <1>5. CASE UNCHANGED trace
    BY <1>3, <1>5 DEF trace
  <1>6. ASSUME NEW w \in Worker, Begin(w) \/ Step(w) \/ Name(w) PROVE table' = table
    BY <1>6 DEF Begin, Step, Name
  <1> QED BY <1>3, <1>4, <1>5, <1>6 DEF Next

\* A worker keeps the names of its hops in order.
LEMMA HopsNamed ==
  ASSUME IInv, NamedInv, Next, NEW w \in Worker
  PROVE  HopNamed(w)'
  <1>1. TypeOK
    BY DEF IInv
  <1>2. HopNamed(w) /\ \A a \in HopAddr : NameOK(a)
    BY DEF NamedInv
  <1> DEFINE Kept == hops'[w] = hops[w] /\ host'[w] = host[w]
  <1>3. CASE Kept
    BY <1>2, <1>3, NamedElsewhere
  <1>4. CASE UNCHANGED trace
    BY <1>3, <1>4 DEF trace
  <1>5. ASSUME NEW v \in Worker, Begin(v) \/ Step(v) \/ Name(v), v # w PROVE Kept
    <2>1. CASE Begin(v)
      BY <1>1, <1>5, <2>1 DEF TypeOK, Begin
    <2>2. CASE Step(v)
      BY <1>1, <1>5, <2>2 DEF TypeOK, Step
    <2>3. CASE Name(v)
      <3>1. hops' = hops
        BY <2>3 DEF Name
      <3>2. host'[w] = host[w]
        BY <1>1, <1>5, <2>3, NameGives DEF TypeOK
      <3> QED BY <3>1, <3>2
    <2> QED BY <1>5, <2>1, <2>2, <2>3
  <1>6. ASSUME NEW v \in Worker, Update(v) PROVE Kept
    BY <1>6 DEF Update
  <1>7. CASE Begin(w)
    <2>1. hops'[w] = <<>> /\ host'[w] = <<>>
      BY <1>1, <1>7 DEF TypeOK, Begin
    <2> QED BY <2>1 DEF HopNamed
  <1>8. CASE Step(w)
    BY <1>2, <1>8, StepNamed
  <1>9. CASE Name(w)
    BY <1>2, <1>9, NameNamed
  <1> HIDE DEF Kept
  <1> QED BY <1>3, <1>4, <1>5, <1>6, <1>7, <1>8, <1>9 DEF Next

LEMMA NextNamed == IInv /\ NamedInv /\ [Next]_vars => NamedInv'
  <1> SUFFICES ASSUME IInv, NamedInv, [Next]_vars PROVE NamedInv'
    OBVIOUS
  <1>1. TypeOK
    BY DEF IInv
  <1>2. (\A a \in HopAddr : NameOK(a))'
    <2>1. DnsNext \/ UNCHANGED dns
      <3>1. CASE UNCHANGED vars
        BY <3>1 DEF vars, dns
      <3> QED BY <3>1, StepIsDns
    <2> QED BY <1>1, <2>1, NamesAreDns DEF NamedInv, TypeOK
  <1>3. ASSUME NEW w \in Worker PROVE HopNamed(w)'
    <2>1. CASE UNCHANGED vars
      <3>1. hops'[w] = hops[w] /\ host'[w] = host[w] /\ HopNamed(w)
        BY <2>1 DEF vars, NamedInv
      <3> QED BY <3>1, NamedElsewhere
    <2> QED BY <2>1, HopsNamed
  <1>4. ASSUME NEW d \in Display PROVE \A i \in DOMAIN table'[d] : RowNamed(d, i, table'[d][i])
    <2>1. CASE UNCHANGED vars
      BY <2>1 DEF vars, NamedInv
    <2> QED BY <2>1, RowsNamed
  <1> QED BY <1>2, <1>3, <1>4 DEF NamedInv, RowNamed, OnPath

\* The address and the name in a row are of the hop the row is about, whatever routers
\* are on the path in turn and however many targets are shown in one table: a name that
\* comes cycles later, or to a worker that did not ask first, is still put to an address
\* that answered at that distance.  It need not be that of the address in the row, for a
\* router without a name may take the row over while the name of the one before stays
\* (TraceMoves.cfg, prober.go:129-136, store.go:196-203).
THEOREM NamesFitHops == Spec => []NameFitsHop
  <1>1. NamedInv => NameFitsHop
    BY DEF NamedInv, RowNamed, NameFitsHop
  <1> QED BY InitNamed, NextNamed, <1>1, AlwaysGood, PTL DEF Spec
=============================================================================
