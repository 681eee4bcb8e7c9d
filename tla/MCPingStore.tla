---------------------------- MODULE MCPingStore ----------------------------
(* Instances of PingStore for TLC. *)
EXTENDS PingStore
CONSTANTS w1, w2, a, b, ip1, ip2

One   == {w1}
Two   == {w1, w2}
A     == {a}
AB    == {a, b}
OneA  == [w \in One |-> a]
TwoA  == [w \in Two |-> a]
TwoAB == [w \in Two |-> IF w = w1 THEN a ELSE b]
FirstA  == [n \in A |-> w1]
FirstAB == [n \in AB |-> IF n = a THEN w1 ELSE w2]
Ip1   == {ip1}
Ip12  == {ip1, ip2}
=============================================================================
