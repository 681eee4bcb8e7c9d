----------------------------- MODULE StreamHub -----------------------------
(***************************************************************************)
(* The live feed of internal/web/ws.go: a broadcaster that takes a         *)
(* snapshot of the store every second and puts it on the channel of every  *)
(* connected client, and a handler for each connection, which joins the    *)
(* hub, sends a snapshot of its own at once and then forwards what is on   *)
(* its channel until the client leaves.                                    *)
(*                                                                         *)
(* A snapshot is the version of the store it was taken from.  A Client is  *)
(* one connection: it connects once.                                       *)
(***************************************************************************)
EXTENDS Integers, Sequences

CONSTANTS
    Client,
    ChanCap,      \* capacity of wsClient.ch, 8 in the code
    MaxVersion    \* bound: changes of the store

ASSUME HubAssumption == ChanCap \in Nat \ {0} /\ MaxVersion \in Nat

None == -1

VARIABLES
    store,      \* the version of the store
    serving,    \* the root context of the server is not cancelled
    taken,      \* the snapshot the broadcaster has marshalled, None between ticks
    latest,     \* the snapshot it last broadcast
    clients,    \* h.clients
    closed,     \* clients whose channel is closed
    ch,         \* ch[c]: c.ch
    pc,         \* pc[c]: where handleStream is
    ctxDone,    \* ctxDone[c]: the context of the connection is done
    stalled,    \* stalled[c]: the client reads no more, and what lies between is full
    held,       \* held[c]: the snapshot the handler is about to write
    seen,       \* seen[c]: the last snapshot the client was sent
    dropped     \* dropped[c]: the last broadcast found the channel of c full

store_   == <<store, serving>>
hub      == <<taken, latest, clients, closed, ch, dropped>>
handlers == <<pc, ctxDone, stalled, held, seen>>
vars     == <<store, serving, taken, latest, clients, closed, ch, dropped, pc, ctxDone, stalled,
              held, seen>>

Version   == 0 .. MaxVersion
Connected == {"accepted", "added", "snapped", "loop", "writing"}

----------------------------------------------------------------------------
(* The store and the broadcaster.                                          *)

\* A worker changes the store.
Change ==
    /\ store < MaxVersion
    /\ store' = store + 1
    /\ UNCHANGED <<serving, hub, handlers>>

\* The root context is cancelled; connections of clients are left to themselves.
Cancel ==
    /\ serving
    /\ serving' = FALSE
    /\ UNCHANGED <<store, hub, handlers>>

\* Mutant of Snapshot: the snapshot of the first tick is sent again and again.
SnapshotCached == IF latest = None THEN store ELSE latest

Snapshot == store

\* A tick: the store is read and marshalled without the lock of the hub.
Tick ==
    /\ serving /\ taken = None
    /\ taken' = Snapshot
    /\ UNCHANGED <<store_, latest, clients, closed, ch, dropped, handlers>>

HasRoom(c) == Len(ch[c]) < ChanCap

\* Mutant of Queued: the update overtakes those that wait.
QueuedFirst(c) == <<taken>> \o ch[c]

Queued(c) == Append(ch[c], taken)

\* broadcast: under the lock, a client whose channel is full misses the update.
Broadcast ==
    /\ taken # None
    /\ ch' = [c \in Client |->
                 IF c \in clients /\ HasRoom(c) THEN Queued(c) ELSE ch[c]]
    /\ dropped' = [c \in Client |-> c \in clients /\ ~HasRoom(c)]
    /\ latest' = taken
    /\ taken' = None
    /\ UNCHANGED <<store_, clients, closed, handlers>>

----------------------------------------------------------------------------
(* handleStream.                                                           *)

Goto(c, from, to) == pc[c] = from /\ pc' = [pc EXCEPT ![c] = to]

\* websocket.Accept.
Accept(c) ==
    /\ Goto(c, "away", "accepted")
    /\ UNCHANGED <<store_, hub, ctxDone, stalled, held, seen>>

\* Mutant of Joined: the client is not entered in the map.
JoinedNot(c) == clients

Joined(c) == clients \cup {c}

\* hub.add.
Add(c) ==
    /\ Goto(c, "accepted", "added")
    /\ clients' = Joined(c)
    /\ UNCHANGED <<store_, taken, latest, closed, ch, dropped, ctxDone, stalled, held, seen>>

\* The immediate snapshot is taken.
TakeFirst(c) ==
    /\ Goto(c, "added", "snapped")
    /\ held' = [held EXCEPT ![c] = store]
    /\ UNCHANGED <<store_, hub, ctxDone, stalled, seen>>

\* It is written, and an error is ignored.  The write has no deadline: with a client
\* that does not read it lasts until the connection breaks.
WriteFirst(c) ==
    /\ Goto(c, "snapped", "loop")
    /\ \/ ~ctxDone[c] /\ ~stalled[c] /\ seen' = [seen EXCEPT ![c] = held[c]]
       \/ ctxDone[c] /\ UNCHANGED seen
    /\ UNCHANGED <<store_, hub, ctxDone, stalled, held>>

\* select takes an update from the channel.  (The channel of a client is closed
\* by its own handler only, on its way out: the case of a closed one never comes.)
Receive(c) ==
    /\ Goto(c, "loop", "writing")
    /\ ch[c] # <<>>
    /\ held' = [held EXCEPT ![c] = Head(ch[c])]
    /\ ch' = [ch EXCEPT ![c] = Tail(@)]
    /\ UNCHANGED <<store_, taken, latest, clients, closed, dropped, ctxDone, stalled, seen>>

\* select finds the context done.
Done(c) ==
    /\ Goto(c, "loop", "leaving")
    /\ ctxDone[c]
    /\ UNCHANGED <<store_, hub, ctxDone, stalled, held, seen>>

Write(c) ==
    /\ Goto(c, "writing", "loop")
    /\ ~ctxDone[c] /\ ~stalled[c]
    /\ seen' = [seen EXCEPT ![c] = held[c]]
    /\ UNCHANGED <<store_, hub, ctxDone, stalled, held>>

\* The client does not take the update within five seconds, or has left.
WriteFails(c) ==
    /\ Goto(c, "writing", "leaving")
    /\ UNCHANGED <<store_, hub, ctxDone, stalled, held, seen>>

\* Mutant of Left: the client stays in the map.
LeftNot(c) == clients

Left(c) == clients \ {c}

\* hub.remove, deferred.
Remove(c) ==
    /\ Goto(c, "leaving", "gone")
    /\ clients' = Left(c)
    /\ closed' = closed \cup {c}
    /\ UNCHANGED <<store_, taken, latest, ch, dropped, ctxDone, stalled, held, seen>>

\* CloseRead sees the client close the connection, or the connection break.
HangUp(c) ==
    /\ pc[c] \in Connected /\ ~ctxDone[c]
    /\ ctxDone' = [ctxDone EXCEPT ![c] = TRUE]
    /\ UNCHANGED <<store_, hub, pc, stalled, held, seen>>

\* The client stops reading, the connection stays.
Stall(c) ==
    /\ pc[c] \in Connected /\ ~ctxDone[c] /\ ~stalled[c]
    /\ stalled' = [stalled EXCEPT ![c] = TRUE]
    /\ UNCHANGED <<store_, hub, pc, ctxDone, held, seen>>

----------------------------------------------------------------------------

Init ==
    /\ store = 0 /\ serving = TRUE
    /\ taken = None /\ latest = None
    /\ clients = {} /\ closed = {}
    /\ ch = [c \in Client |-> <<>>] /\ dropped = [c \in Client |-> FALSE]
    /\ pc = [c \in Client |-> "away"] /\ ctxDone = [c \in Client |-> FALSE]
    /\ stalled = [c \in Client |-> FALSE]
    /\ held = [c \in Client |-> None] /\ seen = [c \in Client |-> None]

Handle(c) ==
    Add(c) \/ TakeFirst(c) \/ WriteFirst(c) \/ Receive(c) \/ Done(c) \/ Write(c) \/ Remove(c)

Next ==
    \/ Change \/ Cancel \/ Tick \/ Broadcast
    \/ \E c \in Client : Accept(c) \/ Handle(c) \/ WriteFails(c) \/ HangUp(c) \/ Stall(c)

\* The ticker keeps firing and the goroutines run; a select of which both cases
\* are ready time and again takes each of them.  A write to a client that reads comes
\* to its end, and one of the loop to a client that does not, within five seconds.
\* Nothing ends the immediate write to a client that stays without reading.
Fairness ==
    /\ WF_vars(Tick) /\ WF_vars(Broadcast)
    /\ \A c \in Client :
         /\ WF_vars(Handle(c)) /\ SF_vars(Receive(c)) /\ SF_vars(Done(c))
         /\ WF_vars(WriteFails(c) /\ (ctxDone[c] \/ stalled[c]))

Spec     == Init /\ [][Next]_vars
FairSpec == Spec /\ Fairness

----------------------------------------------------------------------------
(* Properties.                                                             *)

TypeOK ==
    /\ store \in Version /\ serving \in BOOLEAN
    /\ taken \in Version \cup {None} /\ latest \in Version \cup {None}
    /\ clients \subseteq Client /\ closed \subseteq Client
    /\ ch \in [Client -> Seq(Version)] /\ \A c \in Client : Len(ch[c]) <= ChanCap
    /\ dropped \in [Client -> BOOLEAN]
    /\ pc \in [Client -> Connected \cup {"away", "leaving", "gone"}]
    /\ ctxDone \in [Client -> BOOLEAN] /\ stalled \in [Client -> BOOLEAN]
    /\ held \in [Client -> Version \cup {None}]
    /\ seen \in [Client -> Version \cup {None}]

\* broadcast never sends on a closed channel, which would bring the process
\* down: whoever is in the map has an open channel, at every moment at which
\* broadcast may take the lock (ws.go:33-51).
NeverSendsOnClosed == clients \cap closed = {}

\* A client that has nothing left to read has been sent the newest broadcast or
\* something newer, unless that broadcast found its channel full: nothing falls
\* between the immediate snapshot and the first update, because the handler
\* joins the hub before it takes the snapshot (ws.go:82-88).
IdleIsCurrent ==
    \A c \in Client :
        pc[c] = "loop" /\ ch[c] = <<>> /\ ~ctxDone[c] /\ ~dropped[c] => seen[c] >= latest

\* Updates go to a client in the order in which they were taken from the store:
\* the one being written, those on its channel, the one that is about to be
\* broadcast and the next one never go back in time.  Only the immediate
\* snapshot may be ahead of what follows it (ws.go:42-71, 90-104).
QueueRunsForward ==
    \A c \in Client :
        LET q == (IF pc[c] = "writing" THEN <<held[c]>> ELSE <<>>) \o ch[c]
                    \o (IF taken # None THEN <<taken>> ELSE <<>>) \o <<store>>
        IN  \A i, j \in DOMAIN q : i <= j => q[i] <= q[j]

\* A client that stays is brought up to date with every change, however slow it
\* is and whatever was dropped for it: full snapshots make up for lost ones
\* (ws.go:42-71).
CatchesUp ==
    \A c \in Client : \A v \in Version :
        (pc[c] = "loop" /\ store = v)
            ~> (seen[c] >= v \/ pc[c] \in {"leaving", "gone"} \/ ctxDone[c] \/ ~serving)

\* A client that has left is taken out of the hub, in whatever state its handler
\* was; and so is one that only stops reading, once it has its first snapshot, for
\* the broadcasts go on until a write of five seconds fails (ws.go:81-104).
LeaverIsRemoved ==
    \A c \in Client :
        /\ ctxDone[c] ~> (pc[c] = "gone" /\ c \notin clients)
        /\ (stalled[c] /\ pc[c] \in {"loop", "writing"})
               ~> ((pc[c] = "gone" /\ c \notin clients) \/ ~serving)
=============================================================================
