----------------------------- MODULE HistoryLog -----------------------------
(***************************************************************************)
(* What the history promises, as PLAN.md 8.4 and the comments of           *)
(* internal/history/history.go put it: a log of the last Capacity samples, *)
(* oldest first, that survives restarts; only a start with a different     *)
(* name table begins an empty one.  A fault may lose samples and leave the *)
(* rest in another order, but it adds none and repeats none.               *)
(***************************************************************************)
EXTENDS Integers, Sequences, SequencesExt

CONSTANTS
    Entry,     \* samples
    Capacity,
    Lossy      \* may faults happen?

VARIABLES log, table

LogInit == log = <<>> /\ table = <<>>

Write ==
    /\ \E e \in Entry :
          log' = Append(IF Len(log) = Capacity THEN Tail(log) ELSE log, e)
    /\ UNCHANGED table

Reconfigure == table' # table /\ log' = <<>>

LogFault ==
    /\ Lossy
    /\ log' \in SetToAllKPermutations(ToSet(log))
    /\ UNCHANGED table

LogNext == Write \/ Reconfigure \/ LogFault

LogSpec == LogInit /\ [][LogNext]_<<log, table>>
=============================================================================
