----------------------------- MODULE DnsCache -----------------------------
(***************************************************************************)
(* The cache of reverse DNS names of internal/prober/dns.go, shared by all *)
(* trace workers: lookup answers from the cache and starts a goroutine for *)
(* an address it has not seen.                                             *)
(***************************************************************************)
EXTENDS Integers

CONSTANTS
    HopAddr,    \* addresses of hops
    HostName,
    Ptr         \* Ptr[a]: the name the DNS holds for a, NoName for none

NoName  == "no name"      \* the empty string of the code
Unknown == "unknown"      \* not in the map

ASSUME DnsAssumption ==
    /\ {NoName, Unknown} \cap HostName = {}
    /\ Ptr \in [HopAddr -> HostName \cup {NoName}]

VARIABLES
    names,      \* c.names
    pending,    \* c.pending
    flying,     \* flying[a]: goroutines that look a up
    works       \* does the DNS answer?

dns == <<names, pending, flying, works>>

----------------------------------------------------------------------------

\* Mutant of Fresh: pending lookups are forgotten.
FreshUnknown(a) == names[a] = Unknown

\* An address nobody has asked for yet.
Fresh(a) == names[a] = Unknown /\ a \notin pending

\* What lookup returns.
NameOf(a) == IF names[a] = Unknown THEN NoName ELSE names[a]

\* What lookup does under the lock, and the goroutine it starts.
Lookup(a) ==
    /\ IF Fresh(a)
       THEN /\ pending' = pending \cup {a}
            /\ flying' = [flying EXCEPT ![a] = @ + 1]
       ELSE UNCHANGED <<pending, flying>>
    /\ UNCHANGED <<names, works>>

\* Mutant of Found: the text of the error is entered.
FoundError(a) == IF works THEN Ptr[a] ELSE "error"

\* The first name without its dot; none, and an error, give the empty string.
Found(a) == IF works THEN Ptr[a] ELSE NoName

\* net.LookupAddr returns in the goroutine, with a name, without one or with an
\* error, and the result is entered.
Resolve(a) ==
    /\ flying[a] > 0
    /\ flying' = [flying EXCEPT ![a] = @ - 1]
    /\ names' = [names EXCEPT ![a] = Found(a)]
    /\ pending' = pending \ {a}
    /\ UNCHANGED works

\* The DNS fails, or comes back.
Toggle ==
    /\ works' = ~works
    /\ UNCHANGED <<names, pending, flying>>

DnsInit ==
    /\ names = [a \in HopAddr |-> Unknown]
    /\ pending = {}
    /\ flying = [a \in HopAddr |-> 0]
    /\ works \in BOOLEAN

DnsNext == Toggle \/ \E a \in HopAddr : Lookup(a) \/ Resolve(a)

\* A lookup comes to its end, and every address is asked for time and again, by
\* the trace workers whose path it is on.
DnsFairness == \A a \in HopAddr : WF_dns(Resolve(a)) /\ WF_dns(Lookup(a))

DnsSpec     == DnsInit /\ [][DnsNext]_dns
FairDnsSpec == DnsSpec /\ DnsFairness

----------------------------------------------------------------------------
(* Properties.                                                             *)

DnsTypeOK ==
    /\ names \in [HopAddr -> HostName \cup {NoName, Unknown}]
    /\ pending \subseteq HopAddr /\ flying \in [HopAddr -> Nat] /\ works \in BOOLEAN

\* An address is never looked up twice, neither at the same time by several
\* workers nor again once there is a result: the goroutines that run are those
\* of the pending addresses, one for each (dns.go:24-45).
LookedUpOnce ==
    \A a \in HopAddr :
        /\ flying[a] = IF a \in pending THEN 1 ELSE 0
        /\ a \in pending => names[a] = Unknown

\* A name once shown for an address is not taken back (dns.go:24-27, 40-43).
NameStays ==
    [][\A a \in HopAddr : names[a] \in HostName => names'[a] = names[a]]_dns

\* The name of an address is learned, if the DNS holds one and answers from some
\* time on: lookup returns "" until the name is known, and no longer
\* (dns.go:20-21).
NameIsLearned ==
    <>[]works => \A a \in HopAddr : Ptr[a] # NoName => <>(names[a] = Ptr[a])
=============================================================================
