---------------------------- MODULE MCIcmpProbe ----------------------------
(* Instances of IcmpProbe for TLC: two workers and two destinations. *)
EXTENDS IcmpProbe, TLC
CONSTANTS ping, trace, d1, d2, r

Conns == {ping, trace}
Dsts  == {d1, d2}
Dests == (ping :> d1) @@ (trace :> d2)
=============================================================================
