------------------------- MODULE IcmpProbe_proofs -------------------------
(***************************************************************************)
(* Proofs about IcmpProbe: where each socket is given the answers to its   *)
(* own echoes only, an echo reply is never counted for another probe than  *)
(* the one it answers, but for one at least SeqMod probes later.           *)
(***************************************************************************)
EXTENDS IcmpProbe, SequenceTheorems, TLAPS

(***************************************************************************)
(* The inductive invariant.                                                *)
(***************************************************************************)

\* The echo e was sent on c as one of its first k probes.
SentBy(c, e, k) ==
    /\ e.conn = c /\ e.dst = DstOf[c]
    /\ e.n \in 1 .. k /\ e.seq = e.n % SeqMod

\* The message m answers one of the first k echoes of c.
Genuine(c, m, k) ==
    SentBy(c, m.echo, k) /\ (m.kind = "echo-reply" => m.from = DstOf[c] /\ m.quoted)

\* Whatever flies or waits in a receive buffer belongs to the socket it is for.
Owned ==
    /\ \A c \in Conn : seq[c] = sent[c] % SeqMod
    /\ \A e \in echoes : SentBy(e.conn, e, sent[e.conn])
    /\ \A c \in Conn : \A i \in DOMAIN inbox[c] : Genuine(c, inbox[c][i], sent[c])

IInv == TypeOK /\ Owned /\ ReplyIsOwn

(***************************************************************************)
(* Lemmas.                                                                 *)
(***************************************************************************)

\* Of two probes of a socket with one sequence number the later one comes SeqMod
\* probes after the earlier one, or more (socket_posix.go:72).
LEMMA SeqTellsProbes ==
  ASSUME NEW a \in Nat, NEW b \in Nat, b <= a, a % SeqMod = b % SeqMod
  PROVE  b = a \/ b <= a - SeqMod
  <1> DEFINE M == SeqMod
             q == a \div M
             p == b \div M
             r == a % M
  <1>0. M \in Nat \ {0}
    BY IcmpAssumption
  <1>1. q \in Int /\ p \in Int /\ r \in Int /\ a = M * q + r /\ b = M * p + r
    BY <1>0
  <1> HIDE DEF M, q, p, r
  <1>2. CASE q = p
    BY <1>1, <1>2
  <1>3. ASSUME q < p PROVE FALSE
    <2>1. PICK k \in Nat : p = q + 1 + k
      <3>1. p - q - 1 \in Nat /\ p = q + 1 + (p - q - 1)
        BY <1>1, <1>3
      <3> QED BY <3>1
    <2>2. M * p = M * q + M + M * k
      BY <1>0, <1>1, <2>1
    <2>3. M * k \in Nat /\ M * q \in Int
      BY <1>0, <1>1
    <2> QED BY <1>0, <1>1, <2>2, <2>3
  <1>4. CASE p < q
    <2>1. PICK k \in Nat : q = p + 1 + k
      <3>1. q - p - 1 \in Nat /\ q = p + 1 + (q - p - 1)
        BY <1>1, <1>4
      <3> QED BY <3>1
    <2>2. M * q = M * p + M + M * k
      BY <1>0, <1>1, <2>1
    <2>3. M * k \in Nat /\ M * p \in Int
      BY <1>0, <1>1
    <2>4. b <= a - M
      BY <1>0, <1>1, <2>2, <2>3
    <2> QED BY <2>4 DEF M
  <1> QED BY <1>1, <1>2, <1>3, <1>4

\* A number is what is left of it on division (socket_posix.go:72).
LEMMA RestIsUnique ==
  ASSUME NEW M \in Nat \ {0}, NEW q \in Int, NEW r \in 0 .. M - 1
  PROVE  (M * q + r) % M = r
  <1> DEFINE n == M * q + r
             p == n \div M
             t == n % M
  <1>1. n \in Int /\ p \in Int /\ t \in 0 .. M - 1 /\ n = M * p + t
    OBVIOUS
  <1>2. M * q + r = M * p + t
    BY <1>1
  <1> HIDE DEF p, t, n
  <1>3. ASSUME q < p PROVE FALSE
    <2>1. PICK k \in Nat : p = q + 1 + k
      <3>1. p - q - 1 \in Nat /\ p = q + 1 + (p - q - 1)
        BY <1>1, <1>3
      <3> QED BY <3>1
    <2>2. M * p = M * q + M + M * k
      BY <1>1, <2>1
    <2>3. M * k \in Nat /\ M * q \in Int
      OBVIOUS
    <2> QED BY <1>1, <1>2, <2>2, <2>3
  <1>4. ASSUME p < q PROVE FALSE
    <2>1. PICK k \in Nat : q = p + 1 + k
      <3>1. q - p - 1 \in Nat /\ q = p + 1 + (q - p - 1)
        BY <1>1, <1>4
      <3> QED BY <3>1
    <2>2. M * q = M * p + M + M * k
      BY <1>1, <2>1
    <2>3. M * k \in Nat /\ M * p \in Int
      BY <1>1
    <2> QED BY <1>1, <1>2, <2>2, <2>3
  <1>5. q = p
    BY <1>1, <1>3, <1>4
  <1>6. t = r
    <2>1. M * q = M * p /\ M * q \in Int
      BY <1>5
    <2> QED BY <1>1, <1>2, <2>1
  <1> QED BY <1>6 DEF t, n

\* The next number is the number of the next probe, round after round
\* (socket_posix.go:72).
LEMMA NextSeqCounts ==
  ASSUME NEW n \in Nat
  PROVE  /\ NextSeq(n % SeqMod) = (n + 1) % SeqMod
         /\ NextSeq(n % SeqMod) \in 0 .. SeqMod - 1
  <1> DEFINE M == SeqMod
             q == n \div M
             r == n % M
  <1>0. M \in Nat \ {0, 1}
    BY IcmpAssumption
  <1>1. q \in Int /\ r \in 0 .. M - 1 /\ n = M * q + r
    BY <1>0
  <1> HIDE DEF M, q, r
  <1>2. CASE r + 1 < M
    <2>1. n + 1 = M * q + (r + 1) /\ r + 1 \in 0 .. M - 1
      BY <1>0, <1>1, <1>2
    <2>2. (n + 1) % M = r + 1
      BY <1>0, <1>1, <2>1, RestIsUnique
    <2>3. (r + 1) % M = r + 1
      BY <1>0, <1>1, <1>2
    <2> QED BY <2>1, <2>2, <2>3 DEF NextSeq, M, r
  <1>3. CASE r + 1 = M
    <2>1. n + 1 = M * (q + 1) + 0 /\ 0 \in 0 .. M - 1 /\ q + 1 \in Int
      <3>1. M * (q + 1) = M * q + M
        BY <1>0, <1>1
      <3>2. M * q \in Int
        BY <1>0, <1>1
      <3> QED BY <1>0, <1>1, <1>3, <3>1, <3>2
    <2>2. (n + 1) % M = 0
      BY <1>0, <2>1, RestIsUnique
    <2>3. (r + 1) % M = 0
      BY <1>0, <1>3
    <2>4. 0 \in 0 .. M - 1
      BY <1>0
    <2> QED BY <2>2, <2>3, <2>4 DEF NextSeq, M, r
  <1> QED BY <1>0, <1>1, <1>2, <1>3

\* A result without an answer is a result, and not an echo reply
\* (socket_posix.go:77, 100-102, 107-113).
LEMMA NoAnswerType ==
  ASSUME NEW kind \in {"timeout", "error"}
  PROVE  /\ NoAnswer(kind) \in [kind : Kind, from : Dst \cup {Router}, of : Of]
         /\ NoAnswer(kind).kind # "echo-reply"
  BY DEF NoAnswer, Kind, Of

LEMMA InitOwned == Init => IInv
  <1> SUFFICES ASSUME Init PROVE IInv
    OBVIOUS
  <1> USE IcmpAssumption DEF Init
  <1>1. 0 % SeqMod = 0 /\ 0 \in 0 .. SeqMod - 1 /\ 0 \in 0 .. MaxProbes /\ 0 <= MaxInbox
    OBVIOUS
  <1>2. TypeOK
    <2>1. <<>> \in Seq(Message) /\ Len(<<>>) = 0
      OBVIOUS
    <2>2. NoAnswer("timeout") \in [kind : Kind, from : Dst \cup {Router}, of : Of]
      BY NoAnswerType
    <2> QED BY <1>1, <2>1, <2>2 DEF TypeOK
  <1>3. Owned
    BY <1>1 DEF Owned
  <1>4. ReplyIsOwn
    BY NoAnswerType DEF ReplyIsOwn
  <1> QED BY <1>2, <1>3, <1>4 DEF IInv

\* Send: the new echo is the newest of its socket, and the others stay its own.
LEMMA SendOwned ==
  ASSUME IInv, NEW c \in Conn, Send(c)
  PROVE  IInv'
  <1> USE IcmpAssumption
  <1>1. /\ sent[c] \in Nat /\ sent[c] + 1 \in 1 .. MaxProbes
        /\ seq'[c] = sent'[c] % SeqMod /\ seq'[c] \in 0 .. SeqMod - 1
        /\ sent'[c] = sent[c] + 1
    <2>1. sent[c] \in Nat /\ sent[c] + 1 <= MaxProbes /\ seq[c] = sent[c] % SeqMod
      BY DEF IInv, TypeOK, Owned, Send
    <2>2. NextSeq(sent[c] % SeqMod) = (sent[c] + 1) % SeqMod /\ NextSeq(sent[c] % SeqMod) \in 0 .. SeqMod - 1
      BY <2>1, NextSeqCounts
    <2>3. seq'[c] = NextSeq(seq[c]) /\ sent'[c] = sent[c] + 1
      BY DEF IInv, TypeOK, Send
    <2> QED BY <2>1, <2>2, <2>3
  <1>2. \A d \in Conn \ {c} : sent'[d] = sent[d] /\ seq'[d] = seq[d]
    BY DEF IInv, TypeOK, Send
  <1> DEFINE new == [conn |-> c, n |-> sent'[c], dst |-> DstOf[c], seq |-> seq'[c], answers |-> 0]
  <1>3. new \in Flying /\ SentBy(c, new, sent'[c]) /\ echoes' = echoes \cup {new}
    BY <1>1 DEF Flying, SentBy, Send
  <1>4. \A d \in Conn : sent[d] \in Nat /\ sent'[d] \in Nat /\ sent[d] <= sent'[d]
    <2>1. \A d \in Conn : sent[d] \in Nat
      BY DEF IInv, TypeOK
    <2> QED BY <1>1, <1>2, <2>1
  <1>5. TypeOK'
    BY <1>1, <1>3 DEF IInv, TypeOK, Send
  <1>6. Owned'
    <2>1. \A d \in Conn : seq'[d] = sent'[d] % SeqMod
      BY <1>1, <1>2 DEF IInv, Owned
    <2>2. \A e \in echoes' : SentBy(e.conn, e, sent'[e.conn])
      <3> SUFFICES ASSUME NEW e \in echoes' PROVE SentBy(e.conn, e, sent'[e.conn])
        OBVIOUS
      <3>1. CASE e \in echoes
        <4>1. e.conn \in Conn /\ SentBy(e.conn, e, sent[e.conn])
          BY <3>1 DEF IInv, TypeOK, Owned, Flying
        <4> QED BY <4>1, <1>4 DEF SentBy
      <3>2. CASE e = new
        BY <3>2, <1>3
      <3> QED BY <3>1, <3>2, <1>3
    <2>3. \A d \in Conn : \A i \in DOMAIN inbox'[d] : Genuine(d, inbox'[d][i], sent'[d])
      <3> SUFFICES ASSUME NEW d \in Conn, NEW i \in DOMAIN inbox[d]
                   PROVE  Genuine(d, inbox[d][i], sent'[d])
        BY DEF Send
      <3>1. Genuine(d, inbox[d][i], sent[d])
        BY DEF IInv, Owned
      <3> QED BY <3>1, <1>4 DEF Genuine, SentBy
    <2> QED BY <2>1, <2>2, <2>3 DEF Owned
  <1>7. ReplyIsOwn'
    BY <1>2 DEF IInv, TypeOK, ReplyIsOwn, Send
  <1> QED BY <1>5, <1>6, <1>7 DEF IInv

\* SendFails: an error reports no echo, and the number is spent all the same.
LEMMA SendFailsOwned ==
  ASSUME IInv, NEW c \in Conn, SendFails(c)
  PROVE  IInv'
  <1> USE IcmpAssumption
  <1>1. /\ sent'[c] = sent[c] + 1 /\ sent'[c] \in 0 .. MaxProbes
        /\ seq'[c] = sent'[c] % SeqMod /\ seq'[c] \in 0 .. SeqMod - 1
    <2>1. sent[c] \in Nat /\ sent[c] + 1 <= MaxProbes /\ seq[c] = sent[c] % SeqMod
      BY DEF IInv, TypeOK, Owned, SendFails
    <2>2. NextSeq(sent[c] % SeqMod) = (sent[c] + 1) % SeqMod /\ NextSeq(sent[c] % SeqMod) \in 0 .. SeqMod - 1
      BY <2>1, NextSeqCounts
    <2>3. seq'[c] = NextSeq(seq[c]) /\ sent'[c] = sent[c] + 1
      BY DEF IInv, TypeOK, SendFails
    <2> QED BY <2>1, <2>2, <2>3
  <1>2. \A d \in Conn \ {c} :
           sent'[d] = sent[d] /\ seq'[d] = seq[d] /\ result'[d] = result[d]
    BY DEF IInv, TypeOK, SendFails
  <1>3. \A d \in Conn : sent[d] \in Nat /\ sent'[d] \in Nat /\ sent[d] <= sent'[d]
    <2>1. \A d \in Conn : sent[d] \in Nat
      BY DEF IInv, TypeOK
    <2> QED BY <1>1, <1>2, <2>1
  <1>4. TypeOK'
    BY <1>1, NoAnswerType DEF IInv, TypeOK, SendFails
  <1>5. Owned'
    <2>1. \A d \in Conn : seq'[d] = sent'[d] % SeqMod
      BY <1>1, <1>2 DEF IInv, Owned
    <2>2. ASSUME NEW e \in echoes PROVE SentBy(e.conn, e, sent'[e.conn])
      <3>1. e.conn \in Conn /\ SentBy(e.conn, e, sent[e.conn])
        BY DEF IInv, TypeOK, Owned, Flying
      <3> QED BY <3>1, <1>3 DEF SentBy
    <2>3. ASSUME NEW d \in Conn, NEW i \in DOMAIN inbox[d]
          PROVE  Genuine(d, inbox[d][i], sent'[d])
      <3>1. Genuine(d, inbox[d][i], sent[d])
        BY DEF IInv, Owned
      <3> QED BY <3>1, <1>3 DEF Genuine, SentBy
    <2> QED BY <2>1, <2>2, <2>3 DEF Owned, SendFails
  <1>6. ReplyIsOwn'
    <2>1. result'[c].kind # "echo-reply"
      BY NoAnswerType DEF IInv, TypeOK, SendFails
    <2> QED BY <1>2, <2>1 DEF IInv, ReplyIsOwn, SendFails
  <1> QED BY <1>4, <1>5, <1>6 DEF IInv

\* Read: a reply that matches answers the probe under way.
LEMMA ReadOwned ==
  ASSUME IInv, NEW c \in Conn, Read(c)
  PROVE  IInv'
  <1> USE IcmpAssumption
  <1> DEFINE m == Head(inbox[c])
  <1>1. /\ inbox[c] \in Seq(Message) /\ Len(inbox[c]) \in Nat \ {0} /\ Len(inbox[c]) <= MaxInbox
        /\ m \in Message /\ m = inbox[c][1] /\ 1 \in DOMAIN inbox[c]
    BY HeadTailProperties, EmptySeq DEF IInv, TypeOK, Read
  <1>2. /\ Tail(inbox[c]) \in Seq(Message) /\ Len(Tail(inbox[c])) = Len(inbox[c]) - 1
        /\ \A i \in DOMAIN Tail(inbox[c]) : i + 1 \in DOMAIN inbox[c] /\ Tail(inbox[c])[i] = inbox[c][i + 1]
    BY <1>1, HeadTailProperties
  <1>3. Genuine(c, m, sent[c])
    BY <1>1 DEF IInv, Owned
  <1>4. \A d \in Conn : inbox'[d] = IF d = c THEN Tail(inbox[c]) ELSE inbox[d]
    BY DEF IInv, TypeOK, Read
  <1>5. Owned'
    <2>1. \A d \in Conn : \A i \in DOMAIN inbox'[d] : Genuine(d, inbox'[d][i], sent[d])
      <3> SUFFICES ASSUME NEW d \in Conn, NEW i \in DOMAIN inbox'[d]
                   PROVE  Genuine(d, inbox'[d][i], sent[d])
        OBVIOUS
      <3>1. \A j \in DOMAIN inbox[d] : Genuine(d, inbox[d][j], sent[d])
        BY DEF IInv, Owned
      <3>2. CASE d = c
        BY <1>2, <1>4, <3>1, <3>2
      <3>3. CASE d # c
        BY <1>4, <3>1, <3>3
      <3> QED BY <3>2, <3>3
    <2> QED BY <2>1 DEF IInv, Owned, Genuine, SentBy, Read
  <1> DEFINE r == [kind |-> m.kind, from |-> m.from, of |-> [conn |-> m.echo.conn, n |-> m.echo.n]]
  <1>6. r \in [kind : Kind, from : Dst \cup {Router}, of : Of]
    <2>1. m.kind \in Kind /\ m.from \in Dst \cup {Router} /\ m.echo \in Echo
      BY <1>1 DEF Message, Kind
    <2>2. [conn |-> m.echo.conn, n |-> m.echo.n] \in Of
      BY <2>1 DEF Echo, Of
    <2> QED BY <2>1, <2>2
  <1>7. TypeOK'
    <2>1. inbox' \in [Conn -> Seq(Message)] /\ \A d \in Conn : Len(inbox'[d]) <= MaxInbox
      BY <1>1, <1>2, <1>4 DEF IInv, TypeOK, Read
    <2>2. waiting' \in [Conn -> BOOLEAN]
      BY DEF IInv, TypeOK, Read
    <2>3. result' \in [Conn -> [kind : Kind, from : Dst \cup {Router}, of : Of]]
      BY <1>6 DEF IInv, TypeOK, Read
    <2> QED BY <2>1, <2>2, <2>3 DEF IInv, TypeOK, Read
  <1>8. ReplyIsOwn'
    <2>1. CASE UNCHANGED <<waiting, result>>
      BY <2>1 DEF IInv, ReplyIsOwn, Read
    <2>2. CASE Matches(c, m) /\ result' = [result EXCEPT ![c] = r] /\ waiting' = [waiting EXCEPT ![c] = FALSE]
      <3>1. \A d \in Conn \ {c} : result'[d] = result[d] /\ waiting'[d] = waiting[d]
        BY <2>2 DEF IInv, TypeOK
      <3>2. result'[c] = r
        BY <2>2 DEF IInv, TypeOK
      <3>3. ASSUME m.kind = "echo-reply" PROVE m.echo.n = sent[c] \/ m.echo.n <= sent[c] - SeqMod
        <4>1. m.echo.seq = seq[c]
          BY <2>2, <3>3 DEF Matches, EchoMatches
        <4>2. /\ m.echo.n % SeqMod = sent[c] % SeqMod /\ m.echo.n \in 1 .. sent[c]
              /\ sent[c] \in 0 .. MaxProbes
          BY <4>1, <1>3 DEF IInv, TypeOK, Owned, Genuine, SentBy
        <4> QED BY <4>2, SeqTellsProbes
      <3>4. ReplyIsOwn
        BY DEF IInv
      <3>5. sent' = sent
        BY DEF Read
      <3> QED BY <1>3, <3>1, <3>2, <3>3, <3>4, <3>5 DEF ReplyIsOwn, Genuine, SentBy
    <2> QED BY <2>1, <2>2 DEF Read
  <1> QED BY <1>5, <1>7, <1>8 DEF IInv

\* Expire: a timeout reports no echo.
LEMMA ExpireOwned ==
  ASSUME IInv, NEW c \in Conn, Expire(c)
  PROVE  IInv'
  <1>1. TypeOK'
    <2>1. NoAnswer("timeout") \in [kind : Kind, from : Dst \cup {Router}, of : Of]
      BY NoAnswerType
    <2> QED BY <2>1 DEF IInv, TypeOK, Expire
  <1>2. Owned'
    BY DEF IInv, Owned, Genuine, SentBy, Expire
  <1>3. ReplyIsOwn'
    <2>1. \A d \in Conn \ {c} : result'[d] = result[d] /\ waiting'[d] = waiting[d]
      BY DEF IInv, TypeOK, Expire
    <2>2. result'[c].kind # "echo-reply"
      BY NoAnswerType DEF IInv, TypeOK, Expire
    <2> QED BY <2>1, <2>2 DEF IInv, ReplyIsOwn, Expire
  <1> QED BY <1>1, <1>2, <1>3 DEF IInv

\* Answer: a datagram socket is given the answers to its own echoes.
LEMMA AnswerOwned ==
  ASSUME IInv, Raw = FALSE, NEW e \in echoes, Answer(e)
  PROVE  IInv'
  <1> USE IcmpAssumption
  <1> DEFINE next == [e EXCEPT !.answers = @ + 1]
             echo == [conn |-> e.conn, n |-> e.n, dst |-> e.dst, seq |-> e.seq]
  <1>1. e \in Flying /\ SentBy(e.conn, e, sent[e.conn])
    BY DEF IInv, TypeOK, Owned
  <1>2. echoes' = (echoes \ {e}) \cup {next} /\ next \in Flying
    <2>1. next \in Flying
      BY <1>1 DEF Flying, Answer
    <2> QED BY <2>1 DEF Answer
  <1>3. /\ echo \in Echo /\ SentBy(e.conn, echo, sent[e.conn]) /\ SentBy(e.conn, next, sent[e.conn]) /\ next.conn = e.conn
    BY <1>1 DEF Flying, Echo, SentBy
  <1>4. PICK kind \in Answers, quoted \in BOOLEAN :
           LET from == IF kind = "echo-reply" THEN e.dst ELSE Router
               msg  == [kind |-> kind, from |-> from, echo |-> echo, quoted |-> quoted]
           IN  /\ kind = "echo-reply" => quoted
               /\ inbox' = [c \in Conn |->
                     IF c \in Receivers(e) /\ Len(inbox[c]) < MaxInbox
                     THEN Append(inbox[c], msg) ELSE inbox[c]]
    BY DEF Answer
  <1> DEFINE from == IF kind = "echo-reply" THEN e.dst ELSE Router
             m    == [kind |-> kind, from |-> from, echo |-> echo, quoted |-> quoted]
  <1>5. m \in Message /\ Genuine(e.conn, m, sent[e.conn])
    BY <1>1, <1>3, <1>4 DEF Message, Genuine, SentBy, Flying
  <1>6. ASSUME NEW c \in Conn
        PROVE  /\ inbox'[c] \in Seq(Message) /\ Len(inbox'[c]) <= MaxInbox
               /\ \A i \in DOMAIN inbox'[c] : Genuine(c, inbox'[c][i], sent[c])
    <2>1. /\ inbox[c] \in Seq(Message) /\ Len(inbox[c]) <= MaxInbox
          /\ \A i \in DOMAIN inbox[c] : Genuine(c, inbox[c][i], sent[c])
      BY <1>6 DEF IInv, TypeOK, Owned
    <2>2. CASE inbox'[c] = inbox[c]
      BY <2>1, <2>2
    <2>3. CASE c = e.conn /\ Len(inbox[c]) < MaxInbox /\ inbox'[c] = Append(inbox[c], m)
      BY <1>5, <2>1, <2>3, AppendProperties
    <2> QED BY <1>4, <1>6, <2>2, <2>3 DEF Receivers
  <1>7. inbox' \in [Conn -> Seq(Message)]
    <2>1. inbox' = [c \in Conn |-> inbox'[c]]
      BY <1>4
    <2> QED BY <1>6, <2>1
  <1>8. TypeOK'
    BY <1>2, <1>6, <1>7 DEF IInv, TypeOK, Answer
  <1>9. Owned'
    <2>1. \A x \in echoes' : SentBy(x.conn, x, sent[x.conn])
      BY <1>2, <1>3 DEF IInv, Owned
    <2> QED BY <1>6, <2>1 DEF IInv, Owned, Genuine, SentBy, Answer
  <1>10. ReplyIsOwn'
    BY DEF IInv, ReplyIsOwn, Answer
  <1> QED BY <1>8, <1>9, <1>10 DEF IInv

LEMMA StutterOwned == ASSUME IInv, UNCHANGED vars PROVE IInv'
  BY DEF IInv, TypeOK, Owned, Genuine, SentBy, ReplyIsOwn, vars

(***************************************************************************)
(* The theorem.                                                            *)
(***************************************************************************)

\* Datagram sockets: an echo reply that a probe reports was sent by the destination of
\* its worker in answer to that very probe, or to one of its worker that was sent SeqMod
\* probes before or more, whatever is lost, late, doubled or out of order and however
\* often the numbers have gone round; and every variable keeps its type
\* (socket_posix.go:62-135).
THEOREM RepliesAreOwn ==
  ASSUME Raw = FALSE
  PROVE  Spec => [](TypeOK /\ ReplyIsOwn)
  <1>1. IInv /\ [Next]_vars => IInv'
    BY SendOwned, SendFailsOwned, ReadOwned, ExpireOwned, AnswerOwned, StutterOwned DEF Next
  <1>2. IInv => TypeOK /\ ReplyIsOwn
    BY DEF IInv
  <1> QED BY InitOwned, <1>1, <1>2, PTL DEF Spec
=============================================================================
