----------------------------- MODULE IcmpProbe -----------------------------
(***************************************************************************)
(* Probe of internal/icmp/socket_posix.go: every ping and trace worker has *)
(* a socket of its own, sends one echo at a time and reads its socket      *)
(* until a message matches the sequence number it sent or the deadline     *)
(* passes.  Between the sockets lies a network that loses, delays,         *)
(* duplicates and reorders what it carries, and answers with an echo reply *)
(* of the destination or with an error of a router that quotes the echo.   *)
(*                                                                         *)
(* A datagram socket is given the replies to its own echoes by the kernel; *)
(* a raw socket (Raw), the fallback, is given every message of the host.   *)
(*                                                                         *)
(* A packet carries the socket and the probe it belongs to as history      *)
(* fields (conn, n) that Probe does not read.  Messages that are no answer *)
(* to an echo of Probe are read and passed over; they are left out.        *)
(***************************************************************************)
EXTENDS Integers, Sequences, FiniteSets

CONSTANTS
    Conn,        \* sockets, one for each worker
    Dst,         \* destinations
    DstOf,       \* DstOf[c]: the destination the worker of c probes
    Router,      \* a router on the way
    Raw,         \* are the sockets raw?
    SeqMod,      \* sequence numbers are taken modulo this, 65536 in the code
    MaxProbes,   \* bound: probes of each socket
    MaxInbox,    \* receive buffer of a socket
    MaxAnswers,  \* bound: answers of the network to one echo
    ErrorKind    \* bound: the errors routers answer with

ASSUME IcmpAssumption ==
    /\ DstOf \in [Conn -> Dst] /\ Router \notin Dst /\ Raw \in BOOLEAN
    /\ SeqMod \in Nat \ {0, 1}
    /\ MaxProbes \in Nat /\ MaxInbox \in Nat \ {0} /\ MaxAnswers \in Nat
    /\ ErrorKind \subseteq {"time-exceeded", "dest-unreachable"}

Answers == {"echo-reply"} \cup ErrorKind
Kind    == {"timeout", "error"} \cup Answers

VARIABLES
    sent,      \* sent[c]: number of probes, the n of the probe under way
    seq,       \* c.seq
    waiting,   \* waiting[c]: Probe is between WriteTo and its return
    inbox,     \* inbox[c]: what the kernel has queued for ReadFrom
    echoes,    \* echoes on their way, with the number of answers so far
    result     \* result[c]: the last ProbeResult; of = the echo that was answered

vars == <<sent, seq, waiting, inbox, echoes, result>>

Echo    == [conn : Conn, n : 1 .. MaxProbes, dst : Dst, seq : 0 .. SeqMod - 1]
Message == [kind : Answers, from : Dst \cup {Router}, echo : Echo, quoted : BOOLEAN]
Flying  == [conn : Conn, n : 1 .. MaxProbes, dst : Dst, seq : 0 .. SeqMod - 1,
            answers : 0 .. MaxAnswers]
NoEcho  == [conn |-> "none", n |-> 0]
Of      == [conn : Conn, n : 1 .. MaxProbes] \cup {NoEcho}

----------------------------------------------------------------------------
(* Probe.                                                                  *)

NextSeq(s) == (s + 1) % SeqMod

\* A result without an answer; its sender is not looked at.
NoAnswer(kind) == [kind |-> kind, from |-> Router, of |-> NoEcho]

\* A probe takes its number under the lock and writes its echo; what is still
\* in the receive buffer from earlier probes stays there.
Send(c) ==
    /\ ~waiting[c] /\ sent[c] < MaxProbes
    /\ sent' = [sent EXCEPT ![c] = @ + 1]
    /\ seq' = [seq EXCEPT ![c] = NextSeq(@)]
    /\ waiting' = [waiting EXCEPT ![c] = TRUE]
    /\ echoes' = echoes \cup
         {[conn |-> c, n |-> sent'[c], dst |-> DstOf[c], seq |-> seq'[c], answers |-> 0]}
    /\ UNCHANGED <<inbox, result>>

\* The option or the write fails: the number is spent.
SendFails(c) ==
    /\ ~waiting[c] /\ sent[c] < MaxProbes
    /\ sent' = [sent EXCEPT ![c] = @ + 1]
    /\ seq' = [seq EXCEPT ![c] = NextSeq(@)]
    /\ result' = [result EXCEPT ![c] = NoAnswer("error")]
    /\ UNCHANGED <<waiting, inbox, echoes>>

\* Mutant of EchoMatches: any reply will do.
EchoMatchesAny(c, m) == TRUE

\* The echo reply is matched by its sequence number, not by its id or its sender.
EchoMatches(c, m) == m.echo.seq = seq[c]

\* quotedSeqMatches: an error that does not quote enough of the echo matches.
QuotedSeqMatches(c, m) == m.quoted => m.echo.seq = seq[c]

Matches(c, m) ==
    IF m.kind = "echo-reply" THEN EchoMatches(c, m) ELSE QuotedSeqMatches(c, m)

\* ReadFrom returns a message: it ends the probe, or it is not ours.
Read(c) ==
    /\ waiting[c] /\ inbox[c] # <<>>
    /\ inbox' = [inbox EXCEPT ![c] = Tail(@)]
    /\ LET m == Head(inbox[c]) IN
         IF Matches(c, m)
         THEN /\ waiting' = [waiting EXCEPT ![c] = FALSE]
              /\ result' = [result EXCEPT ![c] =
                   [kind |-> m.kind, from |-> m.from, of |-> [conn |-> m.echo.conn, n |-> m.echo.n]]]
         ELSE UNCHANGED <<waiting, result>>
    /\ UNCHANGED <<sent, seq, echoes>>

\* ReadFrom fails: the deadline, the same one for every read of the probe, has
\* passed, whatever is in the buffer.
Expire(c) ==
    /\ waiting[c]
    /\ waiting' = [waiting EXCEPT ![c] = FALSE]
    /\ result' = [result EXCEPT ![c] = NoAnswer("timeout")]
    /\ UNCHANGED <<sent, seq, inbox, echoes>>

----------------------------------------------------------------------------
(* The network and the kernel.                                             *)

\* Mutant of Receivers: a datagram socket gets everything as well.
ReceiversAll(e) == Conn

\* The sockets that are given an answer to an echo.
Receivers(e) == IF Raw THEN Conn ELSE {e.conn}

\* An answer reaches the host: the destination's reply, or an error of a router.
\* A full receive buffer drops it.
Answer(e) ==
    /\ e.answers < MaxAnswers
    /\ echoes' = (echoes \ {e}) \cup {[e EXCEPT !.answers = @ + 1]}
    /\ \E kind \in Answers, quoted \in BOOLEAN :
         LET from == IF kind = "echo-reply" THEN e.dst ELSE Router
             echo == [conn |-> e.conn, n |-> e.n, dst |-> e.dst, seq |-> e.seq]
             m    == [kind |-> kind, from |-> from, echo |-> echo, quoted |-> quoted]
         IN  /\ kind = "echo-reply" => quoted
             /\ inbox' = [c \in Conn |->
                   IF c \in Receivers(e) /\ Len(inbox[c]) < MaxInbox
                   THEN Append(inbox[c], m) ELSE inbox[c]]
    /\ UNCHANGED <<sent, seq, waiting, result>>

Init ==
    /\ sent = [c \in Conn |-> 0] /\ seq = [c \in Conn |-> 0]
    /\ waiting = [c \in Conn |-> FALSE]
    /\ inbox = [c \in Conn |-> <<>>] /\ echoes = {}
    /\ result = [c \in Conn |-> NoAnswer("timeout")]

Next ==
    \/ \E c \in Conn : Send(c) \/ SendFails(c) \/ Read(c) \/ Expire(c)
    \/ \E e \in echoes : Answer(e)

Spec == Init /\ [][Next]_vars

----------------------------------------------------------------------------
(* Properties.                                                             *)

TypeOK ==
    /\ sent \in [Conn -> 0 .. MaxProbes]
    /\ seq \in [Conn -> 0 .. SeqMod - 1]
    /\ waiting \in [Conn -> BOOLEAN]
    /\ inbox \in [Conn -> Seq(Message)] /\ \A c \in Conn : Len(inbox[c]) <= MaxInbox
    /\ echoes \subseteq Flying
    /\ result \in [Conn -> [kind : Kind, from : Dst \cup {Router}, of : Of]]

\* A probe that reports an echo reply was answered by the destination it probed,
\* and the answer is to this probe: not to the probe of another worker, nor to an
\* earlier one of its own that timed out, but where the numbers have gone round, so
\* that the reply came SeqMod probes late or more (socket_posix.go:71-74, 118-124,
\* PLAN.md:159-160).
ReplyIsOwn ==
    \A c \in Conn :
        result[c].kind = "echo-reply" =>
            /\ result[c].from = DstOf[c]
            /\ result[c].of.conn = c
            /\ ~waiting[c] => result[c].of.n = sent[c] \/ result[c].of.n <= sent[c] - SeqMod
=============================================================================
