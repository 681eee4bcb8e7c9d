--------------------------- MODULE MCHistoryRing ---------------------------
(* Instances of HistoryRing for TLC. *)
EXTENDS HistoryRing, TLC
CONSTANTS a, b, long

AllTables  == {<<a, b>>, <<b, a>>}
Singles    == {<<a>>, <<b>>}
OneTable   == {<<a, b>>}
CutTables  == {<<a, b, long>>, <<a>>}     \* longer than MaxNames = 2
LongTables == {<<long>>}
Targets    == {a, b}
Three      == {a, b, long}
JustLong   == {long, a}
\* A name of more than 64 bytes comes back as another name.
StoredMap  == [n \in Target |-> IF n = long THEN a ELSE n]
=============================================================================
