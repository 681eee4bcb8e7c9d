---------------------------- MODULE MCDnsCache ----------------------------
(* Instances of DnsCache for TLC: four hops, two of them without a name. *)
EXTENDS DnsCache, TLC
CONSTANTS h1, h2, h3, h4, n1, n2

Hops  == {h1, h2, h3, h4}
Names == {n1, n2}
Ptrs  == (h1 :> n1) @@ (h2 :> n2) @@ (h3 :> NoName) @@ (h4 :> NoName)
=============================================================================
