------------------------- MODULE DaemonStop_proofs -------------------------
(***************************************************************************)
(* Proofs about DaemonStop, for any number of signals, quit requests and   *)
(* changes of the metrics: a process that returns has flushed its samples  *)
(* and has left the gateway with metrics as new as the stop, but for the   *)
(* faults the property names.                                              *)
(***************************************************************************)
EXTENDS DaemonStop, TLAPS

(***************************************************************************)
(* The inductive invariant.                                                *)
(***************************************************************************)

\* The stop has a moment, and main comes after it.
Stopping ==
    /\ ctx <=> atStop = None
    /\ atStop <= value
    /\ main # "serving" => ~ctx

\* main pushes once, after the stop; if nothing spoils it the push is on the wire
\* until it is answered, and no older one is with it.
Reporting ==
    /\ main = "serving" =>
         sent["main"] = None /\ ~acked["main"] /\ \A r \in wire : r.by # "main"
    /\ main = "pushing" => sent["main"] # None
    /\ ~spoilt /\ main # "serving" => \A r \in wire : r.v >= atStop
    /\ ~spoilt /\ main = "pushing" /\ ~acked["main"] =>
         [by |-> "main", v |-> sent["main"]] \in wire
    /\ ~spoilt /\ acked["main"] => gateway >= atStop
    /\ ~hangs /\ main \in {"closing", "exited"} => acked["main"]

\* main returns after Run has ended, unless the disk hangs.
Flushed == ~Alive /\ ~hangs => run = "ended"

IInv == TypeOK /\ Stopping /\ Reporting /\ Flushed

(***************************************************************************)
(* Lemmas.                                                                 *)
(***************************************************************************)

LEMMA InitReported == Init => IInv
  <1> SUFFICES ASSUME Init PROVE IInv
    OBVIOUS
  <1> USE StopAssumption DEF Init, None, Pusher
  <1>1. TypeOK
    <2>1. sent \in [Pusher -> -1 .. MaxValue] /\ acked \in [Pusher -> BOOLEAN]
      OBVIOUS
    <2>2. value \in 0 .. MaxValue /\ atStop \in -1 .. MaxValue /\ gateway \in -1 .. MaxValue
      OBVIOUS
    <2>3. signals \in 0 .. MaxSignals /\ quits \in 0 .. MaxQuits /\ timers \in 0 .. quits
      OBVIOUS
    <2>4. wire \subseteq [by : Pusher, v : 0 .. MaxValue]
      OBVIOUS
    <2> QED BY <2>1, <2>2, <2>3, <2>4 DEF TypeOK
  <1>2. Stopping /\ Flushed
    BY DEF Stopping, Flushed, Alive
  <1>3. Reporting
    BY DEF Reporting
  <1> QED BY <1>1, <1>2, <1>3 DEF IInv

\* The context is cancelled, for the first time or again.
LEMMA CancelReported ==
  ASSUME IInv, Cancel,
         signals' \in 0 .. MaxSignals, sigch' \in BOOLEAN, catcher' \in BOOLEAN,
         quits' \in 0 .. MaxQuits, timers' \in 0 .. quits',
         UNCHANGED <<value, loop, main, pushes, run, hangs>>
  PROVE  IInv'
  <1>1. /\ ~ctx' /\ ctx' \in BOOLEAN /\ atStop' \in {value, atStop} /\ (ctx => atStop' = value)
        /\ (~ctx => atStop' = atStop)
    BY DEF Cancel
  <1>2. /\ UNCHANGED <<value, loop, main, run, hangs>>
        /\ UNCHANGED <<sent, acked, wire, gateway, spoilt>>
    BY DEF pushes
  <1>3. TypeOK'
    <2>1. value \in -1 .. MaxValue /\ atStop \in -1 .. MaxValue
      BY StopAssumption DEF IInv, TypeOK
    <2>2. atStop' \in -1 .. MaxValue
      BY <2>1, <1>1
    <2> QED BY <2>2, <1>1, <1>2 DEF IInv, TypeOK
  <1>4. Stopping'
    <2>1. value \in Nat /\ (ctx <=> atStop = -1) /\ atStop <= value
      BY StopAssumption DEF IInv, TypeOK, Stopping, None
    <2>2. atStop' # -1 /\ atStop' <= value
      BY <2>1, <1>1
    <2> QED BY <2>2, <1>1, <1>2 DEF Stopping, None
  <1>5. Reporting'
    <2>1. CASE main = "serving"
      BY <2>1, <1>2 DEF IInv, Reporting
    <2>2. CASE main # "serving"
      <3>1. atStop' = atStop
        BY <2>2, <1>1 DEF IInv, Stopping
      <3> QED BY <3>1, <1>2 DEF IInv, Reporting
    <2> QED BY <2>1, <2>2
  <1>6. Flushed'
    BY <1>2 DEF IInv, Flushed, Alive
  <1> QED BY <1>3, <1>4, <1>5, <1>6 DEF IInv

\* Signals, requests and measurements come at any time.
LEMMA EventReported ==
  ASSUME IInv, Signal \/ Catch \/ Quit \/ QuitFires \/ Measure
  PROVE  IInv'
  <1> USE StopAssumption
  <1>1. CASE Signal
    BY <1>1 DEF Signal, pushes, IInv, TypeOK, Stopping, Reporting, Flushed, Alive, None
  <1>2. CASE Catch
    BY <1>2, CancelReported DEF Catch, pushes, IInv, TypeOK
  <1>3. CASE Quit
    BY <1>3 DEF Quit, pushes, IInv, TypeOK, Stopping, Reporting, Flushed, Alive, None
  <1>4. CASE QuitFires
    <2>1. timers' \in 0 .. quits'
      BY <1>4 DEF QuitFires, IInv, TypeOK
    <2> QED BY <1>4, <2>1, CancelReported DEF QuitFires, QuitCancels, pushes, IInv, TypeOK
  <1>5. CASE Measure
    <2>1. TypeOK' /\ Flushed'
      BY <1>5 DEF Measure, stoppers, pushes, IInv, TypeOK, Flushed, Alive
    <2>2. Stopping'
      BY <1>5 DEF Measure, stoppers, pushes, IInv, TypeOK, Stopping
    <2>3. Reporting'
      BY <1>5 DEF Measure, stoppers, pushes, IInv, Reporting
    <2> QED BY <2>1, <2>2, <2>3 DEF IInv
  <1> QED BY <1>1, <1>2, <1>3, <1>4, <1>5

\* What a push changes keeps its type.
LEMMA PushType ==
  ASSUME TypeOK, NEW p \in Pusher, Push(p)
  PROVE  /\ sent' \in [Pusher -> -1 .. MaxValue] /\ acked' \in [Pusher -> BOOLEAN]
         /\ wire' \subseteq [by : Pusher, v : 0 .. MaxValue] /\ gateway' \in -1 .. MaxValue
         /\ spoilt' \in BOOLEAN
         /\ sent'[p] = value /\ ~acked'[p] /\ wire' = wire \cup {[by |-> p, v |-> value]}
         /\ \A q \in Pusher \ {p} : sent'[q] = sent[q] /\ acked'[q] = acked[q]
  BY StopAssumption DEF TypeOK, Push, Gathered

\* The loop pushes.
LEMMA LoopPushes ==
  ASSUME IInv, LoopTick \/ LoopLast
  PROVE  IInv'
  <1> USE StopAssumption DEF IInv
  <1>1. /\ Push("loop") /\ loop' \in {"push", "last"} /\ Alive
        /\ UNCHANGED <<value, ctx, atStop, stoppers, main, run, hangs>>
    BY DEF LoopTick, LoopLast
  <1>2. "loop" \in Pusher /\ "main" \in Pusher \ {"loop"}
    BY DEF Pusher
  <1>3. TypeOK'
    BY <1>1, <1>2, PushType DEF TypeOK, stoppers
  <1>4. Stopping' /\ Flushed'
    BY <1>1 DEF Stopping, Flushed, Alive
  <1>5. Reporting'
    <2>1. /\ sent'["main"] = sent["main"] /\ acked'["main"] = acked["main"]
          /\ wire' = wire \cup {[by |-> "loop", v |-> value]}
          /\ gateway' = gateway /\ spoilt' = spoilt
      <3>1. sent' = [sent EXCEPT !["loop"] = value] /\ acked' = [acked EXCEPT !["loop"] = FALSE]
        BY <1>1 DEF Push, Gathered
      <3>2. wire' = wire \cup {[by |-> "loop", v |-> value]} /\ gateway' = gateway
        BY <1>1 DEF Push, Gathered
      <3>3. spoilt' = spoilt
        BY <1>1 DEF Push, TypeOK
      <3> QED BY <1>2, <3>1, <3>2, <3>3 DEF TypeOK
    <2>2. atStop <= value
      BY DEF Stopping
    <2> QED BY <1>1, <2>1, <2>2 DEF Reporting
  <1> QED BY <1>3, <1>4, <1>5

\* main pushes: what it gathers is as new as the stop.
LEMMA MainPushes == ASSUME IInv, MainStops PROVE IInv'
  <1> USE StopAssumption DEF IInv, MainStops
  <1>1. "main" \in Pusher
    BY DEF Pusher
  <1>2. TypeOK'
    BY <1>1, PushType DEF TypeOK, stoppers
  <1>3. Stopping' /\ Flushed'
    BY DEF Stopping, Flushed, Alive
  <1>4. Reporting'
    <2>1. /\ sent'["main"] = value /\ ~acked'["main"] /\ gateway' = gateway
          /\ wire' = wire \cup {[by |-> "main", v |-> value]}
          /\ spoilt' <=> spoilt \/ \E r \in wire : r.v < atStop
      BY <1>1, PushType DEF Push, TypeOK
    <2>2. atStop <= value /\ value # None
      BY DEF Stopping, TypeOK, None
    <2>3. \A r \in wire : r.v \in Int /\ atStop \in Int
      BY DEF TypeOK
    <2>4. ~spoilt' => \A r \in wire' : r.v >= atStop
      BY <2>1, <2>2, <2>3
    <2> QED BY <2>1, <2>2, <2>4 DEF Reporting
  <1> QED BY <1>2, <1>3, <1>4

\* A push arrives: after the stop, and with nothing spoilt, it is as new as the stop.
LEMMA ArriveReported == ASSUME IInv, NEW r \in wire, Arrive(r) PROVE IInv'
  <1>1. /\ r.by \in Pusher /\ r.v \in 0 .. MaxValue /\ r \in wire /\ "main" \in Pusher
        /\ wire' = wire \ {r} /\ gateway' = r.v /\ sent' = sent /\ spoilt' = spoilt
        /\ UNCHANGED <<value, ctx, atStop, loop, main, run, hangs>>
        /\ UNCHANGED <<signals, sigch, catcher, quits, timers>>
    BY DEF IInv, TypeOK, Arrive, stoppers, Pusher
  <1>2. /\ acked' \in [Pusher -> BOOLEAN]
        /\ \A p \in Pusher : acked[p] => acked'[p]
        /\ \A p \in Pusher : acked'[p] => acked[p] \/ p = r.by
        /\ acked'[r.by] <=> acked[r.by] \/ sent[r.by] = r.v
    BY <1>1 DEF IInv, TypeOK, Arrive
  <1>3. TypeOK'
    <2>1. gateway' \in -1 .. MaxValue
      BY <1>1, StopAssumption
    <2> QED BY <1>1, <1>2, <2>1 DEF IInv, TypeOK
  <1>4. Stopping' /\ Flushed'
    BY <1>1 DEF IInv, Stopping, Flushed, Alive
  <1>5. Reporting'
    <2>1. CASE main = "serving"
      <3>1. r.by # "main" /\ ~acked["main"] /\ sent["main"] = None
        BY <2>1, <1>1 DEF IInv, Reporting
      <3>2. ~acked'["main"]
        BY <3>1, <1>1, <1>2
      <3> QED BY <2>1, <3>1, <3>2, <1>1 DEF IInv, Reporting
    <2>2. CASE main # "serving"
      <3>1. ~spoilt => r.v >= atStop
        BY <2>2, <1>1 DEF IInv, Reporting
      <3>2. ~acked'["main"] => ~acked["main"] /\ (r.by = "main" => sent["main"] # r.v)
        BY <1>1, <1>2
      <3>3. ~spoilt /\ main = "pushing" /\ ~acked'["main"] =>
              [by |-> "main", v |-> sent["main"]] \in wire'
        <4> SUFFICES ASSUME ~spoilt, main = "pushing", ~acked'["main"]
                     PROVE  [by |-> "main", v |-> sent["main"]] \in wire'
          OBVIOUS
        <4>1. [by |-> "main", v |-> sent["main"]] \in wire
          BY <3>2 DEF IInv, Reporting
        <4>2. [by |-> "main", v |-> sent["main"]] # r
          BY <3>2
        <4> QED BY <4>1, <4>2, <1>1
      <3>4. ~hangs /\ main \in {"closing", "exited"} => acked'["main"]
        BY <1>1, <1>2 DEF IInv, Reporting
      <3>5. main = "pushing" => sent["main"] # None
        BY DEF IInv, Reporting
      <3>6. ~spoilt => \A q \in wire' : q.v >= atStop
        BY <2>2, <1>1 DEF IInv, Reporting
      <3> QED BY <2>2, <1>1, <3>1, <3>3, <3>4, <3>5, <3>6 DEF Reporting
    <2> QED BY <2>1, <2>2
  <1> QED BY <1>3, <1>4, <1>5 DEF IInv

\* A push is lost: once main has pushed, that spoils it.
LEMMA LoseReported == ASSUME IInv, NEW r \in wire, Lose(r) PROVE IInv'
  <1>1. /\ r.by \in Pusher /\ r \in wire /\ "main" \in Pusher
        /\ wire' = wire \ {r} /\ gateway' = gateway /\ sent' = sent
        /\ spoilt' \in BOOLEAN /\ (spoilt' <=> spoilt \/ ~ctx)
        /\ UNCHANGED <<value, ctx, atStop, loop, main, run, hangs>>
        /\ UNCHANGED <<signals, sigch, catcher, quits, timers>>
    BY DEF IInv, TypeOK, Lose, stoppers, Pusher
  <1>2. /\ acked' \in [Pusher -> BOOLEAN]
        /\ \A p \in Pusher : acked[p] => acked'[p]
        /\ \A p \in Pusher : acked'[p] => acked[p] \/ p = r.by
    BY <1>1 DEF IInv, TypeOK, Lose
  <1>3. TypeOK'
    BY <1>1, <1>2 DEF IInv, TypeOK
  <1>4. Stopping' /\ Flushed'
    BY <1>1 DEF IInv, Stopping, Flushed, Alive
  <1>5. Reporting'
    <2>1. CASE main = "serving"
      <3>1. r.by # "main" /\ ~acked["main"] /\ sent["main"] = None
        BY <2>1, <1>1 DEF IInv, Reporting
      <3>2. ~acked'["main"]
        BY <3>1, <1>1, <1>2
      <3> QED BY <2>1, <3>1, <3>2, <1>1 DEF IInv, Reporting
    <2>2. CASE main # "serving"
      <3>1. spoilt'
        BY <2>2, <1>1 DEF IInv, Stopping
      <3>2. ~hangs /\ main \in {"closing", "exited"} => acked'["main"]
        BY <1>1, <1>2 DEF IInv, Reporting
      <3> QED BY <2>2, <3>1, <3>2, <1>1 DEF IInv, Reporting
    <2> QED BY <2>1, <2>2
  <1> QED BY <1>3, <1>4, <1>5 DEF IInv

LEMMA LoopPushedReported == ASSUME IInv, LoopPushed PROVE IInv'
  <1>1. /\ "loop" \in Pusher /\ "main" \in Pusher /\ None \in -1 .. MaxValue
        /\ sent' = [sent EXCEPT !["loop"] = None]
        /\ UNCHANGED <<acked, wire, gateway, spoilt>>
        /\ UNCHANGED <<value, ctx, atStop, main, run, hangs>>
        /\ UNCHANGED <<signals, sigch, catcher, quits, timers>>
        /\ loop' \in {"select", "done"}
    BY StopAssumption DEF LoopPushed, Pushed, stoppers, Pusher, None
  <1>2. sent'["main"] = sent["main"] /\ sent' \in [Pusher -> -1 .. MaxValue]
    BY <1>1 DEF IInv, TypeOK
  <1>3. TypeOK'
    BY <1>1, <1>2 DEF IInv, TypeOK
  <1>4. Stopping' /\ Flushed'
    BY <1>1 DEF IInv, Stopping, Flushed, Alive
  <1>5. Reporting'
    BY <1>1, <1>2 DEF IInv, Reporting
  <1> QED BY <1>3, <1>4, <1>5 DEF IInv

\* main's push has been answered, unless the gateway hangs.
LEMMA MainPushedReported == ASSUME IInv, MainPushed PROVE IInv'
  <1>1. /\ "main" \in Pusher /\ None \in -1 .. MaxValue
        /\ sent' = [sent EXCEPT !["main"] = None] /\ (acked["main"] \/ hangs)
        /\ UNCHANGED <<acked, wire, gateway, spoilt>>
        /\ UNCHANGED <<value, ctx, atStop, loop, run, hangs>>
        /\ UNCHANGED <<signals, sigch, catcher, quits, timers>>
        /\ main = "pushing" /\ main' = "closing"
    BY StopAssumption DEF MainPushed, Pushed, Returns, stoppers, Pusher, None
  <1>2. sent' \in [Pusher -> -1 .. MaxValue]
    BY <1>1 DEF IInv, TypeOK
  <1>3. TypeOK'
    BY <1>1, <1>2 DEF IInv, TypeOK
  <1>4. Stopping' /\ Flushed'
    BY <1>1 DEF IInv, Stopping, Flushed, Alive
  <1>5. Reporting'
    BY <1>1 DEF IInv, Reporting
  <1> QED BY <1>3, <1>4, <1>5 DEF IInv

LEMMA RunEndsReported == ASSUME IInv, RunEnds PROVE IInv'
  BY DEF IInv, RunEnds, TypeOK, Stopping, Reporting, Flushed, Alive, stoppers, pushes

\* main returns after Run has ended, unless the disk hangs.
LEMMA MainClosesReported == ASSUME IInv, MainCloses PROVE IInv'
  <1>1. /\ main = "closing" /\ main' = "exited" /\ (run = "ended" \/ hangs)
        /\ UNCHANGED <<value, ctx, atStop, loop, run, hangs>>
        /\ UNCHANGED <<sent, acked, wire, gateway, spoilt>>
        /\ UNCHANGED <<signals, sigch, catcher, quits, timers>>
    BY DEF MainCloses, MayClose, stoppers, pushes
  <1> QED BY <1>1 DEF IInv, TypeOK, Stopping, Reporting, Flushed, Alive

LEMMA StepReported == IInv /\ [Next]_vars => IInv'
  <1> SUFFICES ASSUME IInv, [Next]_vars PROVE IInv'
    OBVIOUS
  <1>1. CASE \E r \in wire : Arrive(r) \/ Lose(r)
    BY <1>1, ArriveReported, LoseReported
  <1>2. CASE UNCHANGED vars
    BY <1>2 DEF vars, IInv, TypeOK, Stopping, Reporting, Flushed, Alive
  <1> QED BY <1>1, <1>2, EventReported, LoopPushes, LoopPushedReported, MainPushes,
             MainPushedReported, RunEndsReported, MainClosesReported DEF Next

(***************************************************************************)
(* Theorems.                                                               *)
(***************************************************************************)

\* The invariant holds of every state, whatever hangs and however often the stop
\* is asked for.
THEOREM ReportedAlways == Spec => []IInv
  <1> QED BY InitReported, StepReported, PTL DEF Spec

\* Every variable keeps its type.
THEOREM TypeCorrect == Spec => []TypeOK
  <1>1. IInv => TypeOK
    BY DEF IInv
  <1> QED BY <1>1, ReportedAlways, PTL

\* A process that returns has flushed its samples and left the gateway with metrics
\* as new as the stop, whichever of the two last pushes comes first, but for a disk
\* or a gateway that hangs, a lost push, or an older one that was on the wire
\* (daemon.go:171-180; push.go:50-56, 92-99).
THEOREM StopIsComplete == Spec => []ExitsComplete
  <1>1. IInv => ExitsComplete
    BY DEF IInv, Flushed, Reporting, ExitsComplete, Alive
  <1> QED BY <1>1, ReportedAlways, PTL
=============================================================================
