--------------------------- MODULE MCTraceTable ---------------------------
(***************************************************************************)
(* Instances of TraceTable for TLC: a target d1 behind routers, or two     *)
(* that are shown under one name, the router r1 and d2 behind r1 and r2.   *)
(***************************************************************************)
EXTENDS TraceTable, TLC
CONSTANTS w1, w2, d1, d2, r1, r2, n1, n2, t1

One   == {w1}
Two   == {w1, w2}
Hops  == {d1, d2, r1, r2}
Names == {n1, n2}
Ptrs  == (d1 :> NoName) @@ (d2 :> NoName) @@ (r1 :> n1) @@ (r2 :> n2)
Dst   == (w1 :> r1) @@ (w2 :> d2)
Dst1  == w1 :> d1
Shown == {t1}
OneName  == (w1 :> t1) @@ (w2 :> t1)
OneName1 == w1 :> t1

\* Every probe takes the same path.
Stable == w1 :> <<{r1}, {d1}, {d1}>>
\* The one target is the router r1 itself; the way to the other leads through it or
\* through r2, and the other never answers.
Gateway == (w1 :> <<{r1}, {r1}>>) @@ (w2 :> <<{r1, r2}, {}>>)
\* The first hop changes between two routers.
Moving  == (w1 :> <<{r1, r2}, {d1}>>)
=============================================================================
