----------------------------- MODULE MCScrape -----------------------------
(* Instances of Scrape for TLC. *)
EXTENDS Scrape
CONSTANTS w1, a, ip1

One    == {w1}
A      == {a}
OneA   == [w \in One |-> a]
FirstA == [n \in A |-> w1]
Ip1    == {ip1}
=============================================================================
