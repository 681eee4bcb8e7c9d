----------------------------- MODULE MCStartup -----------------------------
(* Instances of Startup for TLC: configurations the user may write, and     *)
(* networks the host may be in.                                             *)
EXTENDS Startup
CONSTANTS a, b, gw, h1, h2, r1, r2, home, cafe, modem

Hosts == {h1, h2, r1, r2}
Names == {a, b, gw}

T(n, h) == [name |-> n, host |-> h]
Conf(ts, cs, g) == [targets |-> ts, checks |-> cs, gateway |-> g, history |-> TRUE]

\* One target; two, the other first; the router by name; without the gateway;
\* nothing at all.
One   == Conf(<<T(a, h1)>>, <<h1, h2>>, TRUE)
Two   == Conf(<<T(b, h2), T(a, h1)>>, <<h1>>, TRUE)
Named == Conf(<<T(b, r1)>>, <<h1>>, TRUE)
Plain == Conf(<<T(a, h1)>>, <<>>, FALSE)
Empty == Conf(<<>>, <<>>, TRUE)

\* The host of a changes, and nothing else.
Rehosted == {One, [One EXCEPT !.targets = <<T(a, h2)>>]}

Edited   == {One, Two, Named, Plain, Empty}
Same     == {One}

\* A router on a cable, another on wireless, and a modem, whose default route has
\* no gateway.
GatewayOf == [n \in {home, cafe, modem} |->
                IF n = home THEN r1 ELSE IF n = cafe THEN r2 ELSE NoHost]
LinkOf    == [n \in {home, cafe, modem} |->
                IF n = home THEN "eth" ELSE IF n = modem THEN "ppp" ELSE "wlan"]
Home   == {home}
Dialup == {home, modem}
Away   == {home, cafe, modem}
=============================================================================
