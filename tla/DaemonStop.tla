---------------------------- MODULE DaemonStop ----------------------------
(***************************************************************************)
(* How the daemon stops: signals and the quit endpoint cancel the root     *)
(* context (internal/app/daemon.go, internal/web/quit.go); the push loop   *)
(* then makes a last push (internal/metrics/push.go), while main makes one *)
(* of its own, closes the history and returns (internal/app/commands.go).  *)
(*                                                                         *)
(* The metrics are a value that grows; a push gathers the value and sends  *)
(* it to the gateway, which keeps what arrives last.  History is seen as   *)
(* in HistoryRing: Run ends by itself after the cancellation, and Close    *)
(* waits for it, but not for ever.                                         *)
(***************************************************************************)
EXTENDS Integers, FiniteSets

CONSTANTS
    MaxValue,     \* bound: changes of the metrics
    MaxQuits,     \* bound: requests to the quit endpoint
    MaxSignals    \* bound: signals

ASSUME StopAssumption == {MaxValue, MaxQuits, MaxSignals} \subseteq Nat

Pusher == {"loop", "main"}      \* RunPush, and PushNow in Shutdown
None   == -1

VARIABLES
    value,      \* the metrics
    ctx,        \* the root context is not cancelled
    atStop,     \* the metrics at its cancellation
    signals,    \* signals sent
    sigch,      \* a signal waits in the channel of rootContext
    catcher,    \* its goroutine still waits for one
    quits,      \* quit requests made
    timers,     \* goroutines of handleQuit that sleep
    loop,       \* where RunPush is
    main,       \* where runDaemon is
    sent,       \* sent[p]: the value p is pushing, None if it does not push
    acked,      \* acked[p]: the gateway has answered
    wire,       \* pushes that may still arrive, [by, v]
    gateway,    \* what the gateway holds
    spoilt,     \* main's push met an older one on the wire, or one was lost since the stop
    run,        \* history: Run goes on, or has flushed and ended
    hangs       \* do the gateway and the disk hang?

stoppers == <<signals, sigch, catcher, quits, timers>>
pushes   == <<sent, acked, wire, gateway, spoilt>>
vars     == <<value, ctx, atStop, signals, sigch, catcher, quits, timers, loop, main,
              sent, acked, wire, gateway, spoilt, run, hangs>>

Alive == main # "exited"

----------------------------------------------------------------------------
(* The causes of a stop.                                                   *)

Cancel ==
    /\ ctx' = FALSE
    /\ atStop' = IF ctx THEN value ELSE atStop

\* SIGINT or SIGTERM: signal.Notify drops it if one is waiting already.
Signal ==
    /\ Alive /\ signals < MaxSignals
    /\ signals' = signals + 1
    /\ sigch' = TRUE
    /\ UNCHANGED <<value, ctx, atStop, catcher, quits, timers, loop, main, pushes, run, hangs>>

\* The goroutine of rootContext takes one signal, and is gone.
Catch ==
    /\ Alive /\ catcher /\ sigch
    /\ sigch' = FALSE /\ catcher' = FALSE
    /\ Cancel
    /\ UNCHANGED <<value, signals, quits, timers, loop, main, pushes, run, hangs>>

\* handleQuit answers, and leaves a goroutine behind.
Quit ==
    /\ Alive /\ quits < MaxQuits
    /\ quits' = quits + 1 /\ timers' = timers + 1
    /\ UNCHANGED <<value, ctx, atStop, signals, sigch, catcher, loop, main, pushes, run, hangs>>

\* Mutant of QuitCancels: the quit function is not wired.
QuitCancelsNot == UNCHANGED <<ctx, atStop>>

QuitCancels == Cancel

\* It has slept, and calls cancel; a second time that changes nothing.
QuitFires ==
    /\ Alive /\ timers > 0
    /\ timers' = timers - 1
    /\ QuitCancels
    /\ UNCHANGED <<value, signals, sigch, catcher, quits, loop, main, pushes, run, hangs>>

\* The workers go on while the process lives.
Measure ==
    /\ Alive /\ value < MaxValue
    /\ value' = value + 1
    /\ UNCHANGED <<ctx, atStop, stoppers, loop, main, pushes, run, hangs>>

----------------------------------------------------------------------------
(* Pushes.                                                                 *)

\* The pusher's gatherer reads the metrics anew for every push.
Gathered == value

\* pushOnce: the metrics are gathered and sent.
Push(p) ==
    /\ sent' = [sent EXCEPT ![p] = Gathered]
    /\ acked' = [acked EXCEPT ![p] = FALSE]
    /\ wire' = wire \cup {[by |-> p, v |-> Gathered]}
    /\ spoilt' = (spoilt \/ (p = "main" /\ \E r \in wire : r.v < atStop))
    /\ UNCHANGED gateway

\* A push arrives, while the process waits for it or after.
Arrive(r) ==
    /\ wire' = wire \ {r}
    /\ gateway' = r.v
    /\ acked' = [acked EXCEPT ![r.by] = @ \/ sent[r.by] = r.v]
    /\ UNCHANGED <<value, ctx, atStop, stoppers, loop, main, sent, spoilt, run, hangs>>

\* It is lost, and the connection with it.
Lose(r) ==
    /\ wire' = wire \ {r}
    /\ acked' = [acked EXCEPT ![r.by] = @ \/ sent[r.by] = r.v]
    /\ spoilt' = (spoilt \/ ~ctx)
    /\ UNCHANGED <<value, ctx, atStop, stoppers, loop, main, sent, gateway, run, hangs>>

\* Mutants of Returns: the client has no timeout; the push is left to a goroutine.
ReturnsAcked(p)  == acked[p]
ReturnsAtOnce(p) == TRUE

\* pusher.Push returns, with an answer or an error, or by the client's timeout.
Returns(p) == acked[p] \/ hangs

Pushed(p) ==
    /\ sent[p] # None /\ Returns(p)
    /\ sent' = [sent EXCEPT ![p] = None]
    /\ UNCHANGED <<acked, wire, gateway, spoilt>>

\* RunPush: a tick, which select may prefer to a context that is done.
LoopTick ==
    /\ Alive /\ loop = "select"
    /\ loop' = "push"
    /\ Push("loop")
    /\ UNCHANGED <<value, ctx, atStop, stoppers, main, run, hangs>>

\* The context is done: the last push.
LoopLast ==
    /\ Alive /\ loop = "select" /\ ~ctx
    /\ loop' = "last"
    /\ Push("loop")
    /\ UNCHANGED <<value, ctx, atStop, stoppers, main, run, hangs>>

LoopPushed ==
    /\ Alive /\ loop \in {"push", "last"}
    /\ Pushed("loop")
    /\ loop' = IF loop = "push" THEN "select" ELSE "done"
    /\ UNCHANGED <<value, ctx, atStop, stoppers, main, run, hangs>>

----------------------------------------------------------------------------
(* main, and the history.                                                  *)

\* runDaemon sees the context done; Shutdown begins with PushNow.
MainStops ==
    /\ main = "serving" /\ ~ctx
    /\ main' = "pushing"
    /\ Push("main")
    /\ UNCHANGED <<value, ctx, atStop, stoppers, loop, run, hangs>>

MainPushed ==
    /\ main = "pushing"
    /\ Pushed("main")
    /\ main' = "closing"
    /\ UNCHANGED <<value, ctx, atStop, stoppers, loop, run, hangs>>

\* history.Run sees the context done, drains, flushes and ends.
RunEnds ==
    /\ Alive /\ run = "running" /\ ~ctx
    /\ run' = "ended"
    /\ UNCHANGED <<value, ctx, atStop, stoppers, loop, main, pushes, hangs>>

\* Close waits for Run, or for two seconds.
MayClose == run = "ended" \/ hangs

\* The file is closed and the process returns.
MainCloses ==
    /\ main = "closing" /\ MayClose
    /\ main' = "exited"
    /\ UNCHANGED <<value, ctx, atStop, stoppers, loop, pushes, run, hangs>>

----------------------------------------------------------------------------

Init ==
    /\ value = 0 /\ ctx = TRUE /\ atStop = None
    /\ signals = 0 /\ sigch = FALSE /\ catcher = TRUE
    /\ quits = 0 /\ timers = 0
    /\ loop = "select" /\ main = "serving"
    /\ sent = [p \in Pusher |-> None] /\ acked = [p \in Pusher |-> FALSE]
    /\ wire = {} /\ gateway = None /\ spoilt = FALSE
    /\ run = "running" /\ hangs \in BOOLEAN

Next ==
    \/ Signal \/ Catch \/ Quit \/ QuitFires \/ Measure
    \/ LoopTick \/ LoopLast \/ LoopPushed
    \/ MainStops \/ MainPushed \/ RunEnds \/ MainCloses
    \/ \E r \in wire : Arrive(r) \/ Lose(r)

\* Goroutines run, sleeps and timeouts end.  A gateway or a disk that hangs owes
\* nothing; if they do not, a push is answered or its connection breaks, and Run
\* flushes and ends.
Fairness ==
    /\ WF_vars(Catch) /\ WF_vars(QuitFires)
    /\ WF_vars(MainStops) /\ WF_vars(MainPushed) /\ WF_vars(MainCloses)
    /\ WF_vars(~hangs /\ RunEnds)
    /\ \A p \in Pusher :
         WF_vars(~hangs /\ \E r \in wire : r.by = p /\ (Arrive(r) \/ Lose(r)))

Spec     == Init /\ [][Next]_vars
FairSpec == Spec /\ Fairness

----------------------------------------------------------------------------
(* Properties.                                                             *)

TypeOK ==
    /\ value \in 0 .. MaxValue /\ ctx \in BOOLEAN /\ atStop \in -1 .. MaxValue
    /\ signals \in 0 .. MaxSignals /\ sigch \in BOOLEAN /\ catcher \in BOOLEAN
    /\ quits \in 0 .. MaxQuits /\ timers \in 0 .. quits
    /\ loop \in {"select", "push", "last", "done"}
    /\ main \in {"serving", "pushing", "closing", "exited"}
    /\ sent \in [Pusher -> -1 .. MaxValue] /\ acked \in [Pusher -> BOOLEAN]
    /\ wire \subseteq [by : Pusher, v : 0 .. MaxValue] /\ gateway \in -1 .. MaxValue
    /\ spoilt \in BOOLEAN
    /\ run \in {"running", "ended"} /\ hangs \in BOOLEAN

\* Whatever asks for the stop, and however often, the process comes to its end,
\* even if the gateway and the disk hang (daemon.go:171-180, 204-214; quit.go:44-50;
\* push.go:60-71; history.go:268-286).
StopEnds == (sigch \/ timers > 0) ~> ~Alive

\* A process that returns has flushed the samples taken before the stop and left
\* the gateway with metrics as new as the stop, whichever of the two last pushes
\* comes first.  A disk or a gateway that hangs excuses it; a push that was lost, or
\* one of before the stop that was still on the wire, may leave older metrics
\* (daemon.go:171-180; push.go:50-56, 92-99).
ExitsComplete ==
    ~Alive /\ ~hangs => run = "ended" /\ (~spoilt => gateway >= atStop)

\* Once the gateway holds metrics as new as the stop it keeps such: no earlier push
\* takes their place (push.go:92-93).
FinalPushStays == [][~ctx /\ gateway >= atStop => gateway' >= atStop]_gateway
=============================================================================
