--------------------------- MODULE Startup_proofs ---------------------------
(***************************************************************************)
(* Proofs about Startup: the gate, the snapshot of the network, and what   *)
(* is shown and recorded of the targets across starts.                     *)
(***************************************************************************)
EXTENDS Startup, SequenceTheorems, FiniteSetTheorems, WellFoundedInduction, TLAPS

(***************************************************************************)
(* The snapshot of the network.                                            *)
(***************************************************************************)

\* What the snapshot being made holds: the fields whose readings are over are right, and
\* there is nothing yet in the others.
PartOK ==
    /\ net \in part.seen /\ part.mac = NoNet
    /\ IF step = "route" THEN part.gw = NoHost /\ part.iface = NoLink ELSE RouteIsRight(part)
    /\ IF step \in {"route", "egress"} THEN part.ip = NoNet ELSE AddressIsRight(part)
    /\ IF step \in {"route", "egress", "link"} THEN ~part.link
       ELSE IfaceIsRight(part, part.link, "link")
    /\ IF step \in {"route", "egress", "link", "hw"} THEN ~part.hw
       ELSE IfaceIsRight(part, part.hw, "hw")
    /\ IF step = "arp" THEN TableIsRight(part) ELSE ~part.table

NetInv ==
    /\ NetTypeOK /\ SnapshotIsRight
    /\ step # "idle" => PartOK

(***************************************************************************)
(* The gate.                                                               *)
(***************************************************************************)

\* What is known of the check hosts is in the results: heard says the same.
GateInv ==
    /\ \A i \in DOMAIN results : results[i].recv > 0 => heard
    /\ probing.recv > 0 => heard
    /\ probing.recv <= probing.sent
    /\ pc \in {"icmp", "detect"} => ~heard /\ results = <<>> /\ probing = Fresh
    /\ pc = "check" /\ heard => probing.recv > 0 \/ Passed
    /\ pc = "check" /\ Len(results) = Len(cfg.checks) => probing = Fresh
    /\ pc \in Started /\ icmp => heard
    /\ exit = "gate" => ~heard /\ pc = "off"

(***************************************************************************)
(* The targets and the file.                                               *)
(***************************************************************************)

\* What may follow the configured targets.
Gateways == {<<>>} \cup {<<[name |-> GatewayName, host |-> h]>> : h \in Host}

TableInv ==
    /\ pc \in {"open", "register", "run"} => \E g \in Gateways : targets = cfg.targets \o g
    /\ pc \in {"register", "run"} /\ hist => file # NoFile /\ file.names = Table
    /\ file # NoFile => \A k \in DOMAIN file.recs : file.recs[k].id \in DOMAIN file.names

IInv == TypeOK /\ NetInv /\ GateInv /\ TableInv

ShownInv == IInv /\ ShownIsRecorded

\* No configured target is named as the gateway is, and no two of the configurations
\* give other hosts to the same names.
NamesTell ==
    /\ \A c \in Configs : \A i \in DOMAIN c.targets : c.targets[i].name # GatewayName
    /\ \A c, d \in Configs : NamesOf(c.targets) = NamesOf(d.targets) =>
         \A i \in DOMAIN c.targets : \A j \in DOMAIN d.targets :
            c.targets[i].name = d.targets[j].name => c.targets[i].host = d.targets[j].host

\* The records of the file are of the hosts it was begun with.
FileTells ==
    file # NoFile =>
        /\ \E g \in Gateways : file.names = NamesOf(file.by.targets \o g)
        /\ \A k \in DOMAIN file.recs : \A i \in DOMAIN file.by.targets :
             file.by.targets[i].name = file.names[file.recs[k].id] =>
                 file.recs[k].host = file.by.targets[i].host

HostInv == IInv /\ FileTells /\ SeriesIsOfHost

LEMMA BlankType == Blank \in Snapshot
  BY DEF Blank, Snapshot

LEMMA NetInitInv == NetInit => NetInv
  <1> SUFFICES ASSUME NetInit PROVE NetInv
    OBVIOUS
  <1>1. NetTypeOK
    BY BlankType, NetAssumption DEF NetInit, NetTypeOK
  <1> QED BY <1>1 DEF NetInit, NetInv, SnapshotIsRight

\* A new process knows nothing of the network.
LEMMA NetReset ==
  ASSUME NetInv, net' = net, moves' = moves, step' = "idle", part' = Blank, ni' = Blank
  PROVE  NetInv'
  <1>1. NetTypeOK'
    BY BlankType DEF NetInv, NetTypeOK, Snapshot
  <1> QED BY <1>1 DEF NetInv, SnapshotIsRight

\* What is right of a snapshot stays right when the host has been in more networks.
LEMMA RouteGrows ==
  ASSUME NEW s, NEW t, t.gw = s.gw, t.iface = s.iface, s.seen \subseteq t.seen, RouteIsRight(s)
  PROVE  RouteIsRight(t)
  BY DEF RouteIsRight

LEMMA AddressGrows ==
  ASSUME NEW s, NEW t, t.gw = s.gw, t.ip = s.ip, s.seen \subseteq t.seen, AddressIsRight(s)
  PROVE  AddressIsRight(t)
  BY DEF AddressIsRight

LEMMA IfaceGrows ==
  ASSUME NEW s, NEW t, NEW found, NEW reading, t.iface = s.iface, s.seen \subseteq t.seen,
         IfaceIsRight(s, found, reading)
  PROVE  IfaceIsRight(t, found, reading)
  BY DEF IfaceIsRight

LEMMA TableGrows ==
  ASSUME NEW s, NEW t, t.table = s.table, s.seen \subseteq t.seen, TableIsRight(s)
  PROVE  TableIsRight(t)
  BY DEF TableIsRight

\* The last snapshot stays.
LEMMA SnapshotStays ==
  ASSUME SnapshotIsRight, ni' = ni
  PROVE  SnapshotIsRight'
  <1>1. Right(ni)' <=> Right(ni')
    BY DEF Right, RouteIsRight, AddressIsRight, IfaceIsRight, TableIsRight, Routers
  <1> QED BY <1>1 DEF SnapshotIsRight

LEMMA NetSame ==
  ASSUME NetInv, UNCHANGED environ
  PROVE  NetInv'
  <1>1. NetTypeOK' /\ SnapshotIsRight'
    BY SnapshotStays DEF NetInv, NetTypeOK, Snapshot, environ
  <1>2. step # "idle" => PartOK'
    BY DEF NetInv, PartOK, RouteIsRight, AddressIsRight, IfaceIsRight, TableIsRight, environ
  <1> QED BY <1>1, <1>2 DEF NetInv, environ

LEMMA NetBegin ==
  ASSUME NetInv, Begin
  PROVE  NetInv'
  <1>1. net \in Network
    BY DEF NetInv, NetTypeOK
  <1>2. /\ net' = net /\ moves' = moves /\ ni' = ni /\ step' = "route"
        /\ part' = [gw |-> NoHost, iface |-> NoLink, ip |-> NoNet, link |-> FALSE, hw |-> FALSE,
                    table |-> FALSE, mac |-> NoNet, seen |-> {net}]
    BY DEF Begin, Begun, Blank
  <1>3. part' \in Snapshot
    BY <1>1, <1>2 DEF Snapshot
  <1>4. NetTypeOK'
    BY <1>2, <1>3 DEF NetInv, NetTypeOK, Snapshot
  <1>5. SnapshotIsRight'
    BY <1>2, SnapshotStays DEF NetInv
  <1>6. PartOK'
    BY <1>2 DEF PartOK
  <1> QED BY <1>4, <1>5, <1>6 DEF NetInv

\* The network is left: what is being made is of it, or of the next.
LEMMA NetMove ==
  ASSUME NetInv, Move
  PROVE  NetInv'
  <1>1. NetTypeOK /\ SnapshotIsRight' /\ step' = step /\ ni' = ni
    BY SnapshotStays DEF NetInv, Move
  <1>2. net' \in Network /\ moves' \in 0 .. MaxMoves
    BY <1>1, NetAssumption DEF NetTypeOK, Move
  <1>3. CASE step = "idle"
    <2>1. part' = part
      BY <1>3 DEF Move
    <2>2. NetTypeOK'
      BY <1>1, <1>2, <2>1 DEF NetTypeOK, Snapshot
    <2> QED BY <1>1, <1>3, <2>2 DEF NetInv
  <1>4. CASE step # "idle"
    <2>1. part' = [part EXCEPT !.seen = @ \cup {net'}] /\ PartOK
      BY <1>4 DEF Move, NetInv
    <2>2. /\ part'.gw = part.gw /\ part'.iface = part.iface /\ part'.ip = part.ip
          /\ part'.link = part.link /\ part'.hw = part.hw /\ part'.table = part.table
          /\ part'.mac = part.mac /\ part'.seen = part.seen \cup {net'}
      BY <1>1, <2>1 DEF NetTypeOK, Snapshot
    <2>3. part' \in Snapshot
      BY <1>1, <1>2, <2>1 DEF NetTypeOK, Snapshot
    <2>4. NetTypeOK'
      BY <1>1, <1>2, <2>3 DEF NetTypeOK, Snapshot
    <2>5. /\ RouteIsRight(part) => RouteIsRight(part')
          /\ AddressIsRight(part) => AddressIsRight(part')
          /\ TableIsRight(part) => TableIsRight(part')
      BY <2>2, RouteGrows, AddressGrows, TableGrows
    <2>6. /\ IfaceIsRight(part, part.link, "link") => IfaceIsRight(part', part'.link, "link")
          /\ IfaceIsRight(part, part.hw, "hw") => IfaceIsRight(part', part'.hw, "hw")
      BY <2>2, IfaceGrows
    <2>7. PartOK'
      BY <1>1, <2>1, <2>2, <2>5, <2>6 DEF PartOK
    <2> QED BY <1>1, <2>4, <2>7 DEF NetInv
  <1> QED BY <1>3, <1>4

\* A reading that takes the collection from step s to step t, where the fields become
\* those of x if it succeeds.
LEMMA ReadsGives ==
  ASSUME NEW s, NEW t, NEW x, Reads(s, t, x)
  PROVE  /\ step = s /\ step' = t
         /\ \/ part' = x
            \/ s \in Blind /\ part' = part
  BY DEF Reads, Readable

\* The same, of the interface: it may be gone only if the network is another one.
LEMMA ReadsOfIfaceGives ==
  ASSUME NEW s, NEW t, NEW x, ReadsOfIface(s, t, x)
  PROVE  /\ step = s /\ step' = t
         /\ \/ part' = part /\ (part.iface = NoLink \/ part.iface # Link[net] \/ s \in Blind)
            \/ part.iface # NoLink /\ part' = x
  <1>1. PICK there \in {part.iface = Link[net], TRUE} :
          Reads(s, t, IF part.iface # NoLink /\ there THEN x ELSE part)
    BY DEF ReadsOfIface
  <1>2. CASE part.iface # NoLink /\ there
    <2>1. (IF part.iface # NoLink /\ there THEN x ELSE part) = x
      BY <1>2
    <2>2. Reads(s, t, x)
      BY <1>1, <2>1
    <2> QED BY <1>2, <2>2, ReadsGives
  <1>3. CASE ~(part.iface # NoLink /\ there)
    <2>1. (IF part.iface # NoLink /\ there THEN x ELSE part) = part
      BY <1>3
    <2>2. Reads(s, t, part)
      BY <1>1, <2>1
    <2>3. part.iface = NoLink \/ part.iface # Link[net]
      BY <1>3
    <2> QED BY <2>2, <2>3, ReadsGives
  <1> QED BY <1>2, <1>3

LEMMA NetReading ==
  ASSUME NetInv, Reading, UNCHANGED <<net, moves>>
  PROVE  NetInv'
  <1> DEFINE p == part
             q == part'
  <1>1. NetTypeOK /\ p \in Snapshot /\ net \in Network
    BY DEF NetInv, NetTypeOK
  <1>2. ni' = ni /\ net' = net /\ moves' = moves
    BY DEF Reading
  <1>3. Gateway[net] # NoHost => Link[net] # NoLink
    BY <1>1, NetAssumption
  <1>4. SnapshotIsRight'
    BY <1>2, SnapshotStays DEF NetInv
  <1>5. SUFFICES q \in Snapshot /\ step' \in {"egress", "link", "hw", "table", "arp"} /\ PartOK'
    BY <1>1, <1>2, <1>4 DEF NetInv, NetTypeOK, Snapshot
  <1>6. step # "idle" => PartOK
    BY DEF NetInv
  <1>7. CASE ReadRoute
    <2>1. /\ step = "route" /\ step' = "egress"
          /\ \/ q = p /\ (Gateway[net] = NoHost \/ "route" \in Blind)
             \/ /\ Gateway[net] # NoHost
                /\ q = [p EXCEPT !.gw = Gateway[net], !.iface = Link[net]]
      <3>1. Reads("route", "egress",
                  IF Gateway[net] = NoHost THEN p
                  ELSE [p EXCEPT !.gw = Gateway[net], !.iface = Link[net]])
        BY <1>7 DEF ReadRoute
      <3> QED BY <3>1, ReadsGives
    <2>2. q \in Snapshot
      BY <1>1, <2>1 DEF Snapshot
    <2>3. /\ q.ip = p.ip /\ q.link = p.link /\ q.hw = p.hw /\ q.table = p.table
          /\ q.mac = p.mac /\ q.seen = p.seen
          /\ \/ q.gw = p.gw /\ q.iface = p.iface /\ (Gateway[net] = NoHost \/ "route" \in Blind)
             \/ Gateway[net] # NoHost /\ q.gw = Gateway[net] /\ q.iface = Link[net]
      BY <1>1, <2>1 DEF Snapshot
    <2>4. p.gw = NoHost /\ p.iface = NoLink /\ net \in p.seen
      BY <1>6, <2>1 DEF PartOK
    <2> HIDE DEF q
    <2>5. RouteIsRight(q)
      BY <2>3, <2>4 DEF RouteIsRight
    <2> USE DEF q
    <2>6. PartOK'
      BY <1>2, <1>6, <2>1, <2>3, <2>4, <2>5 DEF PartOK
    <2> QED BY <2>1, <2>2, <2>6
  <1>8. CASE ReadEgress
    <2>1. /\ step = "egress" /\ step' = "link"
          /\ \/ q = p /\ (p.gw = NoHost \/ Link[net] = NoLink \/ "egress" \in Blind)
             \/ p.gw # NoHost /\ q = [p EXCEPT !.ip = net]
      <3>1. Reads("egress", "link",
                  IF p.gw = NoHost \/ Link[net] = NoLink THEN p ELSE [p EXCEPT !.ip = net])
        BY <1>8 DEF ReadEgress
      <3> QED BY <3>1, ReadsGives
    <2>2. q \in Snapshot
      BY <1>1, <2>1 DEF Snapshot
    <2>3. /\ q.gw = p.gw /\ q.iface = p.iface /\ q.link = p.link /\ q.hw = p.hw
          /\ q.table = p.table /\ q.mac = p.mac /\ q.seen = p.seen
          /\ \/ q.ip = p.ip /\ (p.gw = NoHost \/ Link[net] = NoLink \/ "egress" \in Blind)
             \/ p.gw # NoHost /\ q.ip = net
      BY <1>1, <2>1 DEF Snapshot
    <2>4. p.ip = NoNet /\ net \in p.seen /\ RouteIsRight(p)
      BY <1>6, <2>1 DEF PartOK
    <2> HIDE DEF q
    <2>5. AddressIsRight(q)
      BY <1>1, <2>3, <2>4, NetAssumption DEF AddressIsRight
    <2>6. RouteIsRight(q)
      BY <2>3, <2>4, RouteGrows
    <2> USE DEF q
    <2>7. PartOK'
      BY <1>2, <1>6, <2>1, <2>3, <2>4, <2>5, <2>6 DEF PartOK
    <2> QED BY <2>1, <2>2, <2>7
  <1>9. CASE ReadLink
    <2>1. /\ step = "link" /\ step' = "hw"
          /\ \/ q = p /\ (p.iface = NoLink \/ p.iface # Link[net] \/ "link" \in Blind)
             \/ p.iface # NoLink /\ q = [p EXCEPT !.link = TRUE]
      <3>1. ReadsOfIface("link", "hw", [p EXCEPT !.link = TRUE])
        BY <1>9 DEF ReadLink
      <3> QED BY <3>1, ReadsOfIfaceGives
    <2>2. q \in Snapshot
      BY <1>1, <2>1 DEF Snapshot
    <2>3. /\ q.gw = p.gw /\ q.iface = p.iface /\ q.ip = p.ip /\ q.hw = p.hw
          /\ q.table = p.table /\ q.mac = p.mac /\ q.seen = p.seen
          /\ \/ ~q.link /\ (p.iface = NoLink \/ p.iface # Link[net] \/ "link" \in Blind)
             \/ p.iface # NoLink /\ q.link
      BY <1>1, <1>6, <2>1 DEF Snapshot, PartOK
    <2>4. net \in p.seen /\ RouteIsRight(p) /\ AddressIsRight(p)
      BY <1>6, <2>1 DEF PartOK
    <2> HIDE DEF q
    <2>5. IfaceIsRight(q, q.link, "link")
      BY <2>3, <2>4 DEF IfaceIsRight
    <2>6. RouteIsRight(q) /\ AddressIsRight(q)
      BY <2>3, <2>4, RouteGrows, AddressGrows
    <2> USE DEF q
    <2>7. PartOK'
      BY <1>2, <1>6, <2>1, <2>3, <2>4, <2>5, <2>6 DEF PartOK
    <2> QED BY <2>1, <2>2, <2>7
  <1>10. CASE ReadHW
    <2>1. /\ step = "hw" /\ step' = "table"
          /\ \/ q = p /\ (p.iface = NoLink \/ p.iface # Link[net] \/ "hw" \in Blind)
             \/ p.iface # NoLink /\ q = [p EXCEPT !.hw = TRUE]
      <3>1. ReadsOfIface("hw", "table", [p EXCEPT !.hw = TRUE])
        BY <1>10 DEF ReadHW
      <3> QED BY <3>1, ReadsOfIfaceGives
    <2>2. q \in Snapshot
      BY <1>1, <2>1 DEF Snapshot
    <2>3. /\ q.gw = p.gw /\ q.iface = p.iface /\ q.ip = p.ip /\ q.link = p.link
          /\ q.table = p.table /\ q.mac = p.mac /\ q.seen = p.seen
          /\ \/ ~q.hw /\ (p.iface = NoLink \/ p.iface # Link[net] \/ "hw" \in Blind)
             \/ p.iface # NoLink /\ q.hw
      BY <1>1, <1>6, <2>1 DEF Snapshot, PartOK
    <2>4. /\ net \in p.seen /\ RouteIsRight(p) /\ AddressIsRight(p)
          /\ IfaceIsRight(p, p.link, "link")
      BY <1>6, <2>1 DEF PartOK
    <2> HIDE DEF q
    <2>5. IfaceIsRight(q, q.hw, "hw")
      BY <2>3, <2>4 DEF IfaceIsRight
    <2>6. RouteIsRight(q) /\ AddressIsRight(q)
      BY <2>3, <2>4, RouteGrows, AddressGrows
    <2>7. IfaceIsRight(q, q.link, "link")
      BY <2>3, <2>4, IfaceGrows
    <2> USE DEF q
    <2>8. PartOK'
      BY <1>2, <1>6, <2>1, <2>3, <2>4, <2>5, <2>6, <2>7 DEF PartOK
    <2> QED BY <2>1, <2>2, <2>8
  <1>11. CASE ReadTable
    <2>1. /\ step = "table" /\ step' = "arp"
          /\ \/ q = p /\ "table" \in Blind
             \/ q = [p EXCEPT !.table = (Link[net] # NoLink)]
      <3>1. Reads("table", "arp", [p EXCEPT !.table = (Link[net] # NoLink)])
        BY <1>11 DEF ReadTable
      <3> QED BY <3>1, ReadsGives
    <2>2. q \in Snapshot
      BY <1>1, <2>1 DEF Snapshot
    <2>3. /\ q.gw = p.gw /\ q.iface = p.iface /\ q.ip = p.ip /\ q.link = p.link
          /\ q.hw = p.hw /\ q.mac = p.mac /\ q.seen = p.seen
          /\ \/ ~q.table /\ "table" \in Blind
             \/ q.table = (Link[net] # NoLink)
      BY <1>1, <1>6, <2>1 DEF Snapshot, PartOK
    <2>4. /\ net \in p.seen /\ RouteIsRight(p) /\ AddressIsRight(p)
          /\ IfaceIsRight(p, p.link, "link") /\ IfaceIsRight(p, p.hw, "hw")
      BY <1>6, <2>1 DEF PartOK
    <2> HIDE DEF q
    <2>5. TableIsRight(q)
      BY <2>3, <2>4 DEF TableIsRight
    <2>6. RouteIsRight(q) /\ AddressIsRight(q)
      BY <2>3, <2>4, RouteGrows, AddressGrows
    <2>7. IfaceIsRight(q, q.link, "link") /\ IfaceIsRight(q, q.hw, "hw")
      BY <2>3, <2>4, IfaceGrows
    <2> USE DEF q
    <2>8. PartOK'
      BY <1>2, <1>6, <2>1, <2>3, <2>4, <2>5, <2>6, <2>7 DEF PartOK
    <2> QED BY <2>1, <2>2, <2>8
  <1> QED BY <1>7, <1>8, <1>9, <1>10, <1>11 DEF Reading

LEMMA NetARP ==
  ASSUME NetInv, ReadARP, UNCHANGED <<net, moves>>
  PROVE  NetInv'
  <1> DEFINE p == part
             x == ni'
  <1>1. NetTypeOK /\ p \in Snapshot /\ net \in Network
    BY DEF NetInv, NetTypeOK
  <1>2. PICK m \in Routers(p.gw) \cup {NoNet} : x = [p EXCEPT !.mac = m]
    BY DEF ReadARP
  <1>3. step = "arp" /\ step' = "idle" /\ part' = Blank /\ net' = net /\ moves' = moves
    BY DEF ReadARP
  <1>4. x \in Snapshot
    <2>1. m \in Network \cup {NoNet}
      BY DEF Routers
    <2> QED BY <1>1, <1>2, <2>1 DEF Snapshot
  <1>5. /\ x.gw = p.gw /\ x.iface = p.iface /\ x.ip = p.ip /\ x.mac = m
        /\ x.table = p.table /\ x.seen = p.seen /\ x.link = p.link /\ x.hw = p.hw
    BY <1>1, <1>2 DEF Snapshot
  <1>6. /\ RouteIsRight(p) /\ AddressIsRight(p) /\ TableIsRight(p)
        /\ IfaceIsRight(p, p.link, "link") /\ IfaceIsRight(p, p.hw, "hw")
    BY <1>3 DEF NetInv, PartOK
  <1>7. SnapshotIsRight'
    <2> HIDE DEF x
    <2>1. RouteIsRight(x) /\ AddressIsRight(x) /\ TableIsRight(x)
      BY <1>5, <1>6, RouteGrows, AddressGrows, TableGrows
    <2>2. IfaceIsRight(x, x.link, "link") /\ IfaceIsRight(x, x.hw, "hw")
      BY <1>5, <1>6, IfaceGrows
    <2>3. x.mac \in Routers(x.gw) \cup {NoNet}
      BY <1>2, <1>5
    <2>4. Right(x)
      BY <2>1, <2>2, <2>3 DEF Right
    <2> USE DEF x
    <2>5. Right(ni)' <=> Right(ni')
      BY DEF Right, RouteIsRight, AddressIsRight, IfaceIsRight, TableIsRight, Routers
    <2> QED BY <2>4, <2>5 DEF SnapshotIsRight
  <1>8. NetTypeOK'
    BY <1>1, <1>3, <1>4, BlankType DEF NetTypeOK, Snapshot
  <1> QED BY <1>3, <1>7, <1>8 DEF NetInv

LEMMA NetCollect ==
  ASSUME NetInv, Collect
  PROVE  NetInv'
  BY NetReading, NetARP DEF Collect

(***************************************************************************)
(* Sizes, and the greatest element of a set.                               *)
(***************************************************************************)

\* A set of naturals that is not empty has a least element.
LEMMA LeastOfNats ==
  ASSUME NEW T, T \subseteq Nat, T # {}
  PROVE  \E m \in T : \A k \in T : m <= k
  <1> DEFINE R == OpToRel(<, Nat)
  <1>1. IsWellFoundedOn(R, Nat)
    BY NatLessThanWellFounded
  <1>2. \E m \in T : \A k \in T : <<k, m>> \notin R
    <2> HIDE DEF R
    <2> QED BY <1>1, WFMin
  <1>3. PICK m \in T : \A k \in T : <<k, m>> \notin R
    BY <1>2
  <1>4. ASSUME NEW k \in T PROVE m <= k
    <2>1. m \in Nat /\ k \in Nat
      OBVIOUS
    <2>2. ~(k < m)
      BY <1>3, <2>1 DEF OpToRel
    <2> QED BY <2>1, <2>2
  <1> QED BY <1>4

\* A set of integers between bounds that is not empty has a greatest element.
LEMMA GreatestOfInterval ==
  ASSUME NEW n \in Nat, NEW T, T \subseteq 0 .. n, T # {}
  PROVE  \E m \in T : \A k \in T : k <= m
  <1> DEFINE FromEnd == {k \in Nat : n - k \in T}
  <1>1. FromEnd \subseteq Nat /\ FromEnd # {}
    <2>1. PICK x \in T : TRUE
      OBVIOUS
    <2>2. x \in 0 .. n /\ n - x \in Nat /\ n - (n - x) = x
      BY <2>1
    <2> QED BY <2>1, <2>2
  <1>2. PICK m \in FromEnd : \A k \in FromEnd : m <= k
    <2> HIDE DEF FromEnd
    <2> QED BY <1>1, LeastOfNats
  <1>3. ASSUME NEW k \in T PROVE k <= n - m
    <2>1. k \in 0 .. n /\ n - k \in Nat /\ n - (n - k) = k
      OBVIOUS
    <2>2. m <= n - k /\ m \in Nat
      BY <1>2, <2>1
    <2> QED BY <2>1, <2>2
  <1> QED BY <1>2, <1>3

LEMMA Sizes == Count \in Nat \ {0} /\ MaxNames \in Nat \ {0} /\ FileCap \in Nat \ {0}
               /\ MaxSamples \in Nat /\ MaxStarts \in Nat /\ GatewayName \in Name
  BY StartupAssumption

LEMMA ConfigType ==
  ASSUME NEW c \in Configs
  PROVE  /\ c.targets \in Seq(Target) /\ c.checks \in Seq(Host)
         /\ c.gateway \in BOOLEAN /\ c.history \in BOOLEAN
  BY StartupAssumption DEF Config

\* The names of a file are those of the targets, as many as it has places for.
LEMMA NamesType ==
  ASSUME NEW ts \in Seq(Target)
  PROVE  /\ NamesOf(ts) \in Seq(Name) /\ Len(NamesOf(ts)) <= MaxNames /\ Len(NamesOf(ts)) <= Len(ts)
         /\ DOMAIN NamesOf(ts) = 1 .. Len(NamesOf(ts))
         /\ Len(NamesOf(ts)) = (IF Len(ts) > MaxNames THEN MaxNames ELSE Len(ts))
         /\ \A i \in DOMAIN NamesOf(ts) : NamesOf(ts)[i] = ts[i].name
  <1> USE Sizes
  <1> DEFINE m == IF Len(ts) > MaxNames THEN MaxNames ELSE Len(ts)
  <1>1. m \in Nat /\ m <= MaxNames /\ m <= Len(ts)
    OBVIOUS
  <1>2. \A i \in 1 .. m : ts[i] \in Target
    <2>1. \A i \in 1 .. m : i \in 1 .. Len(ts)
      BY <1>1
    <2> QED BY <2>1
  <1>3. NamesOf(ts) = [i \in 1 .. m |-> ts[i].name]
    BY DEF NamesOf
  <1>4. \A i \in 1 .. m : ts[i].name \in Name
    BY <1>2 DEF Target
  <1> HIDE DEF m
  <1>5. NamesOf(ts) \in Seq(Name) /\ Len(NamesOf(ts)) = m /\ DOMAIN NamesOf(ts) = 1 .. m
    BY <1>1, <1>3, <1>4
  <1> QED BY <1>1, <1>3, <1>5 DEF m

(***************************************************************************)
(* Every state.                                                            *)
(***************************************************************************)

LEMMA InitInv == Init => IInv
  <1> SUFFICES ASSUME Init PROVE IInv
    OBVIOUS
  <1> USE Sizes
  <1>1. NetInv
    BY NetInitInv DEF Init
  <1>2. cfg.checks \in Seq(Host)
    BY ConfigType DEF Init
  <1>3. Fresh \in Result
    BY DEF Fresh, Result
  <1>4. TypeOK
    <2>1. <<>> \in Seq(Result) /\ <<>> \in Seq(Target) /\ <<>> \in Seq(Host) /\ Len(<<>>) = 0 /\ Len(cfg.checks) \in Nat
      BY <1>2
    <2>2. pc = "off" /\ exit = "none" /\ NetTypeOK
      BY <1>1 DEF Init, NetInv
    <2>3. series \in [Name -> Seq(Host)]
      BY <2>1 DEF Init
    <2>4. /\ cfg \in Configs /\ icmp = FALSE /\ results = <<>> /\ probing = Fresh /\ heard = FALSE
          /\ targets = <<>> /\ hist = FALSE /\ file = NoFile /\ taken = 0 /\ starts = 0
      BY DEF Init
    <2>5. 0 \in 0 .. MaxSamples /\ 0 \in 0 .. MaxStarts
      OBVIOUS
    <2>6. Len(results) <= Len(cfg.checks)
      BY <2>1, <2>4
    <2>7. icmp \in BOOLEAN /\ heard \in BOOLEAN /\ hist \in BOOLEAN
      BY <2>4
    <2> HIDE DEF Fresh
    <2> QED BY <1>3, <2>1, <2>2, <2>3, <2>4, <2>5, <2>6, <2>7 DEF TypeOK
  <1>5. GateInv /\ TableInv
    BY DEF Init, GateInv, TableInv, Fresh, Started
  <1> QED BY <1>1, <1>4, <1>5 DEF IInv

\* A step that leaves the gate alone, and what is in the results.
LEMMA GateSame ==
  ASSUME GateInv, UNCHANGED <<gate, cfg, icmp>>,
         pc' \in {"icmp", "detect"} => pc' = pc,
         pc' = "check" => pc = "check",
         pc' \in Started /\ icmp => pc \in Started,
         exit' = "gate" => exit' = exit /\ pc' = "off"
  PROVE  GateInv'
  BY DEF GateInv, gate, Passed, Started, Fresh

LEMMA LaunchInv ==
  ASSUME IInv, Launch
  PROVE  IInv'
  <1> USE Sizes
  <1>1. TypeOK /\ NetInv
    BY DEF IInv
  <1>2. NetInv'
    BY <1>1, NetReset DEF Launch
  <1>3. cfg' \in Configs /\ cfg'.checks \in Seq(Host)
    BY ConfigType DEF Launch
  <1>4. Fresh \in Result
    BY DEF Fresh, Result
  <1>5. TypeOK'
    <2>1. starts' \in 0 .. MaxStarts
      BY <1>1 DEF TypeOK, Launch
    <2>2. pc' \in {"off", "icmp"} /\ exit' \in {"none", "invalid"}
      BY DEF Launch
    <2>3. series' \in [Name -> Seq(Host)]
      BY DEF Launch
    <2>4. results' = <<>> /\ targets' = <<>> /\ probing' = Fresh /\ taken' = 0 /\ heard' = FALSE
          /\ hist' = FALSE /\ icmp' = icmp /\ file' = file
      BY DEF Launch
    <2>5. <<>> \in Seq(Result) /\ <<>> \in Seq(Target) /\ Len(<<>>) = 0 /\ Len(cfg'.checks) \in Nat
          /\ 0 \in 0 .. MaxSamples
      BY <1>3
    <2>6. NetTypeOK'
      BY <1>2 DEF NetInv
    <2>7. file' \in File \cup {NoFile} /\ (file' # NoFile => Len(file'.recs) <= FileCap /\ Len(file'.names) <= MaxNames)
      BY <1>1, <2>4 DEF TypeOK
    <2>8. icmp' \in BOOLEAN /\ heard' \in BOOLEAN /\ hist' \in BOOLEAN
      BY <1>1, <2>4 DEF TypeOK
    <2>9. Len(results') <= Len(cfg'.checks)
      BY <2>4, <2>5
    <2> QED BY <1>3, <1>4, <2>1, <2>2, <2>3, <2>4, <2>5, <2>6, <2>7, <2>8, <2>9 DEF TypeOK, Result, Target, File
  <1>6. GateInv'
    BY DEF Launch, GateInv, Fresh, Started
  <1>7. TableInv'
    BY DEF IInv, TableInv, Launch
  <1> QED BY <1>2, <1>5, <1>6, <1>7 DEF IInv

\* The steps that leave targets, file and series alone.
LEMMA DaemonSame ==
  ASSUME IInv, NetInv', GateInv', UNCHANGED <<cfg, daemon, starts>>,
         pc' \in {"icmp", "detect", "check", "gateway", "off"} \/ pc' = pc,
         exit' \in {"none", "invalid", "gate", "stopped", "killed"}, icmp' \in BOOLEAN,
         results' \in Seq(Result), Len(results') <= Len(cfg.checks), probing' \in Result, heard' \in BOOLEAN
  PROVE  IInv'
  <1>1. TypeOK'
    BY DEF IInv, TypeOK, NetInv, daemon, File, Result, Target
  <1>2. TableInv'
    BY DEF IInv, TableInv, daemon, Table, NamesOf
  <1> QED BY <1>1, <1>2 DEF IInv

LEMMA OpenICMPInv ==
  ASSUME IInv, OpenICMP
  PROVE  IInv'
  <1>1. NetInv'
    BY NetBegin DEF IInv, OpenICMP
  <1>2. GateInv'
    BY DEF IInv, GateInv, OpenICMP, gate, Started, Fresh
  <1>3. pc' = "detect" /\ UNCHANGED <<exit, cfg, gate, daemon, starts>> /\ icmp' \in BOOLEAN
    BY DEF OpenICMP
  <1> QED BY <1>1, <1>2, <1>3, DaemonSame DEF IInv, TypeOK, gate, Result

LEMMA DetectInv ==
  ASSUME IInv, Detect
  PROVE  IInv'
  <1>1. NetInv'
    BY NetCollect DEF IInv, Detect
  <1>2. UNCHANGED <<exit, cfg, icmp, gate, daemon, starts>> /\ pc = "detect"
        /\ pc' \in {"detect", "check", "gateway"} /\ (pc' = "gateway" => ~icmp)
    BY DEF Detect
  <1>3. GateInv'
    BY <1>2 DEF IInv, GateInv, gate, Started, Fresh, Passed
  <1> QED BY <1>1, <1>2, <1>3, DaemonSame DEF IInv, TypeOK, gate, Result

LEMMA UnresolvedInv ==
  ASSUME IInv, Unresolved
  PROVE  IInv'
  <1>1. NetInv'
    BY NetSame DEF IInv, Unresolved
  <1> DEFINE r == [Fresh EXCEPT !.err = TRUE]
  <1>2. TypeOK /\ results \in Seq(Result) /\ cfg.checks \in Seq(Host)
    BY ConfigType DEF IInv, TypeOK
  <1>3. results' = Append(results, r) /\ probing = Fresh /\ UNCHANGED <<pc, exit, cfg, icmp, probing, heard, daemon, starts>>
    BY DEF Unresolved
  <1>4. r \in Result /\ r.recv = 0
    <2>1. Fresh \in Result /\ Fresh.recv = 0
      BY Sizes DEF Result, Fresh
    <2> QED BY <2>1 DEF Result
  <1>5. results' \in Seq(Result) /\ Len(results') <= Len(cfg.checks) /\ DOMAIN results' = 1 .. Len(results) + 1
        /\ (\A i \in DOMAIN results : results'[i] = results[i] /\ i \in DOMAIN results')
        /\ results'[Len(results) + 1] = r
        /\ (\A i \in DOMAIN results' : i # Len(results) + 1 => i \in DOMAIN results)
    <2>1. Len(results) < Len(cfg.checks)
      BY DEF Unresolved, Checking
    <2> HIDE DEF r
    <2> QED BY <1>2, <1>3, <1>4, <2>1
  <1>6. GateInv'
    <2>1. \A i \in DOMAIN results' : results'[i].recv > 0 => heard
      <3> HIDE DEF r
      <3> QED BY <1>4, <1>5 DEF IInv, GateInv
    <2>2. Passed => Passed'
      BY <1>5 DEF Passed
    <2>3. pc = "check" /\ GateInv
      BY DEF IInv, Unresolved, Checking
    <2> QED BY <1>3, <2>1, <2>2, <2>3 DEF GateInv, Fresh, Started
  <1> QED BY <1>1, <1>2, <1>3, <1>5, <1>6, DaemonSame DEF TypeOK, Result

LEMMA ProbeHostInv ==
  ASSUME IInv, ProbeHost
  PROVE  IInv'
  <1> USE Sizes
  <1>1. NetInv'
    BY NetSame DEF IInv, ProbeHost
  <1>2. PICK o \in {"reply", "silent", "error"} :
         LET hr == [sent |-> probing.sent + 1,
                    recv |-> probing.recv + (IF o = "reply" THEN 1 ELSE 0),
                    err  |-> probing.err \/ o = "error"]
         IN  /\ heard' = (heard \/ o = "reply")
             /\ \/ hr.sent < Count /\ probing' = hr /\ UNCHANGED results
                \/ hr.sent = Count /\ probing' = Fresh /\ results' = Append(results, hr)
    BY DEF ProbeHost
  <1> DEFINE s == probing.sent + 1
             v == probing.recv + (IF o = "reply" THEN 1 ELSE 0)
             e == probing.err \/ o = "error"
             hr == [sent |-> s, recv |-> v, err  |-> e]
  <1>3. TypeOK /\ GateInv /\ results \in Seq(Result) /\ cfg.checks \in Seq(Host) /\ probing \in Result
        /\ heard \in BOOLEAN
    BY ConfigType DEF IInv, TypeOK
  <1>4. pc = "check" /\ Len(results) < Len(cfg.checks)
        /\ UNCHANGED <<pc, exit, cfg, icmp, daemon, starts>> /\ exit # "gate"
    BY <1>3 DEF ProbeHost, Checking, GateInv
  <1>5. /\ probing.sent \in 0 .. Count /\ probing.recv \in 0 .. Count /\ probing.err \in BOOLEAN
        /\ probing.recv <= probing.sent
    BY <1>3 DEF Result, GateInv
  <1>6. /\ s \in Nat /\ v \in Nat /\ v <= s /\ e \in BOOLEAN
        /\ v > 0 <=> (probing.recv > 0 \/ o = "reply")
    BY <1>5
  <1>7. hr.sent = s /\ hr.recv = v
    OBVIOUS
  <1>8. heard' = (heard \/ o = "reply") /\ (v > 0 => heard') /\ (heard' => v > 0 \/ Passed)
    BY <1>2, <1>3, <1>4, <1>6 DEF GateInv
  <1>9. CASE s < Count /\ probing' = hr /\ results' = results
    <2>1. hr \in Result
      <3> HIDE DEF s, v, e
      <3> QED BY <1>6, <1>9 DEF Result
    <2> HIDE DEF s, v, e
    <2>2. probing'.sent = s /\ probing'.recv = v
      BY <1>9
    <2>3. GateInv'
      <3>1. \A i \in DOMAIN results' : results'[i].recv > 0 => heard'
        BY <1>3, <1>8, <1>9 DEF GateInv
      <3>2. Passed' = Passed
        BY <1>9 DEF Passed
      <3>3. Len(results') # Len(cfg'.checks)
        BY <1>3, <1>4, <1>9
      <3>4. heard' => probing'.recv > 0 \/ Passed'
        BY <1>8, <2>2, <3>2
      <3> QED BY <1>4, <1>6, <1>8, <2>2, <3>1, <3>3, <3>4 DEF GateInv, Started
    <2> HIDE DEF hr
    <2> QED BY <1>1, <1>3, <1>4, <1>8, <1>9, <2>1, <2>3, DaemonSame DEF TypeOK
  <1>10. CASE s = Count /\ probing' = Fresh /\ results' = Append(results, hr)
    <2>1. hr \in Result
      <3> HIDE DEF s, v, e
      <3> QED BY <1>6, <1>10 DEF Result
    <2>2. Fresh \in Result
      BY DEF Fresh, Result
    <2> HIDE DEF s, v, e
    <2>3. hr.recv = v
      OBVIOUS
    <2> HIDE DEF hr
    <2> DEFINE n == Len(results) + 1
    <2>4. /\ results' \in Seq(Result) /\ Len(results') <= Len(cfg.checks) /\ DOMAIN results' = 1 .. n
          /\ n \in 1 .. n
          /\ \A i \in DOMAIN results : results'[i] = results[i] /\ i \in 1 .. n
          /\ results'[n] = hr
          /\ \A i \in 1 .. n : i # n => i \in DOMAIN results
      BY <1>3, <1>4, <1>10, <2>1
    <2>5. \A i \in DOMAIN results' : results'[i].recv > 0 => heard'
      <3> HIDE DEF n
      <3> SUFFICES ASSUME NEW i \in 1 .. n, results'[i].recv > 0 PROVE heard'
        BY <2>4
      <3>1. CASE i = n
        BY <1>8, <2>3, <2>4, <3>1
      <3>2. CASE i # n
        BY <1>3, <1>8, <2>4, <3>2 DEF GateInv
      <3> QED BY <3>1, <3>2
    <2>6. heard' => Passed'
      <3> HIDE DEF n
      <3>1. CASE v > 0
        BY <2>3, <2>4, <3>1 DEF Passed
      <3>2. CASE Passed
        BY <2>4, <3>2 DEF Passed
      <3> QED BY <1>8, <3>1, <3>2
    <2>7. GateInv'
      BY <1>3, <1>4, <1>10, <2>5, <2>6 DEF GateInv, Started, Fresh
    <2> QED BY <1>1, <1>3, <1>4, <1>8, <1>10, <2>2, <2>4, <2>7, DaemonSame DEF TypeOK
  <1> QED BY <1>2, <1>7, <1>9, <1>10

LEMMA GateStepInv ==
  ASSUME IInv, Gate
  PROVE  IInv'
  <1>1. NetInv'
    BY NetSame DEF IInv, Gate
  <1>2. TypeOK /\ GateInv /\ cfg.checks \in Seq(Host)
    BY ConfigType DEF IInv, TypeOK
  <1>3. /\ pc = "check" /\ Len(results) = Len(cfg.checks) /\ results' = <<>>
        /\ UNCHANGED <<cfg, icmp, probing, heard, daemon, starts>>
        /\ \/ Passed /\ pc' = "gateway" /\ exit' = exit
           \/ ~Passed /\ pc' = "off" /\ exit' = "gate"
    BY DEF Gate
  <1>4. probing.recv = 0 /\ exit # "gate" /\ (heard => Passed) /\ (Passed => heard)
    BY <1>2, <1>3 DEF GateInv, Fresh, Passed
  <1>5. GateInv'
    BY <1>2, <1>3, <1>4 DEF GateInv, Started
  <1> QED BY <1>1, <1>2, <1>3, <1>5, DaemonSame DEF TypeOK, Result

\* The detected gateway has an address.
LEMMA GatewayIs ==
  ASSUME IInv
  PROVE  GatewayTarget \in Gateways
  <1>1. ni \in Snapshot
    BY DEF IInv, NetInv, NetTypeOK
  <1>2. ni.gw # NoHost => ni.gw \in Host
    BY <1>1, StartupAssumption DEF Snapshot
  <1> QED BY <1>2 DEF GatewayTarget, Gateways

LEMMA GatewaysType ==
  ASSUME NEW g \in Gateways
  PROVE  g \in Seq(Target) /\ Len(g) \in {0, 1}
         /\ (\A i \in DOMAIN g : i = 1 /\ g[i].name = GatewayName /\ g[i].host \in Host)
  <1>1. CASE g = <<>>
    BY <1>1
  <1>2. CASE \E h \in Host : g = <<[name |-> GatewayName, host |-> h]>>
    <2>1. PICK h \in Host : g = <<[name |-> GatewayName, host |-> h]>>
      BY <1>2
    <2>2. [name |-> GatewayName, host |-> h] \in Target
      BY Sizes DEF Target
    <2> QED BY <2>1, <2>2
  <1> QED BY <1>1, <1>2 DEF Gateways

LEMMA AddGatewayInv ==
  ASSUME IInv, AddGateway
  PROVE  IInv'
  <1>1. NetInv'
    BY NetSame DEF IInv, AddGateway
  <1>2. TypeOK /\ GateInv /\ TableInv /\ cfg.targets \in Seq(Target)
    BY ConfigType DEF IInv, TypeOK
  <1>3. pc = "gateway" /\ pc' = "open" /\ UNCHANGED <<exit, cfg, icmp, gate, hist, file, series, taken, starts>>
    BY DEF AddGateway
  <1>4. \E g \in Gateways : targets' = cfg.targets \o g
    BY GatewayIs DEF AddGateway, Gateways
  <1>5. targets' \in Seq(Target)
    <2>1. PICK g \in Gateways : targets' = cfg.targets \o g
      BY <1>4
    <2> QED BY <1>2, <2>1, GatewaysType
  <1>6. GateInv'
    BY <1>2, <1>3, GateSame DEF GateInv, Started
  <1>7. TypeOK'
    BY <1>1, <1>2, <1>3, <1>5 DEF TypeOK, NetInv, gate, File, Result
  <1>8. TableInv'
    BY <1>2, <1>3, <1>4 DEF TableInv
  <1> QED BY <1>1, <1>6, <1>7, <1>8 DEF IInv

LEMMA OpenHistoryInv ==
  ASSUME IInv, OpenHistory
  PROVE  IInv'
  <1>1. NetInv'
    BY NetSame DEF IInv, OpenHistory
  <1>2. TypeOK /\ GateInv /\ TableInv
    BY DEF IInv
  <1>3. pc = "open" /\ pc' = "register" /\ UNCHANGED <<exit, cfg, icmp, gate, targets, series, taken, starts>>
    BY DEF OpenHistory
  <1>4. GateInv'
    BY <1>2, <1>3, GateSame DEF GateInv, Started
  <1>5. Table \in Seq(Name) /\ Len(Table) <= MaxNames
    BY <1>2, NamesType DEF TypeOK, Table
  <1> DEFINE f == [names |-> Table, recs |-> <<>>, by |-> cfg]
  <1>6. hist' \in BOOLEAN /\ (file' = file \/ (file' = f /\ hist'))
        /\ (hist' => file' # NoFile /\ file'.names = Table)
    <2>0. f \in File /\ f # NoFile /\ f.names = Table
      <3>1. f \in File
        BY <1>2, <1>5 DEF File, TypeOK
      <3> QED BY <3>1, NoFileAssumption
    <2> HIDE DEF f
    <2>1. CASE hist' = FALSE /\ UNCHANGED file
      BY <2>1
    <2>2. CASE hist' = TRUE /\ file' = IF Reusable THEN file ELSE f
      BY <2>0, <2>2 DEF Reusable
    <2> QED BY <2>1, <2>2 DEF OpenHistory, f
  <1>7. f \in File
    BY <1>2, <1>5 DEF File, TypeOK
  <1>8. TypeOK'
    <2>1. file' \in File \cup {NoFile} /\ (file' # NoFile => Len(file'.recs) <= FileCap /\ Len(file'.names) <= MaxNames)
      <3>1. CASE file' = file
        BY <1>2, <3>1 DEF TypeOK
      <3>2. CASE file' = f
        <4>1. f.recs = <<>> /\ f.names = Table /\ Len(<<>>) = 0
          OBVIOUS
        <4> HIDE DEF f
        <4> QED BY <1>5, <1>7, <3>2, <4>1, Sizes
      <3> QED BY <1>6, <3>1, <3>2
    <2> HIDE DEF f
    <2> QED BY <1>1, <1>2, <1>3, <1>6, <2>1 DEF TypeOK, NetInv, gate, Result, Target
  <1>9. TableInv'
    <2>1. hist' => file' # NoFile /\ file'.names = Table'
      <3>1. Table' = Table
        BY <1>3 DEF Table, NamesOf
      <3> QED BY <1>6, <3>1
    <2>2. file' # NoFile => \A k \in DOMAIN file'.recs : file'.recs[k].id \in DOMAIN file'.names
      <3>1. CASE file' = file
        BY <1>2, <3>1 DEF TableInv
      <3>2. CASE file' = f
        BY <3>2
      <3> QED BY <1>6, <3>1, <3>2
    <2> QED BY <1>2, <1>3, <2>1, <2>2 DEF TableInv
  <1> QED BY <1>1, <1>4, <1>8, <1>9 DEF IInv

(***************************************************************************)
(* The records of a name.                                                  *)
(***************************************************************************)

\* The values of v at the indices of P, up to each index.
IsKept(f, n, P, v) ==
    f = [i \in 0 .. n |-> IF i = 0 THEN <<>>
                          ELSE IF i \in P THEN Append(f[i - 1], v[i]) ELSE f[i - 1]]

Kept(n, P, v) == CHOOSE f : IsKept(f, n, P, v)

LEMMA KeptExists ==
  ASSUME NEW n \in Nat, NEW P, NEW v
  PROVE  \E f : IsKept(f, n, P, v)
  <1> DEFINE Step(f, i) == IF i = 0 THEN <<>>
                           ELSE IF i \in P THEN Append(f[i - 1], v[i]) ELSE f[i - 1]
             Keeps(f, k) == IsKept(f, k, P, v)
             None == {k \in 0 .. n : ~ \E f : Keeps(f, k)}
  <1> SUFFICES ASSUME None # {} PROVE FALSE
    <2>1. n \in 0 .. n
      OBVIOUS
    <2> QED BY <2>1
  <1>1. PICK m \in None : \A k \in None : m <= k
    <2>1. None \subseteq Nat
      OBVIOUS
    <2> HIDE DEF None
    <2> QED BY <2>1, LeastOfNats
  <1>2. m \in 0 .. n /\ ~ \E f : Keeps(f, m)
    BY <1>1
  <1>3. m # 0
    <2> DEFINE z == [i \in 0 .. 0 |-> <<>>]
    <2>1. Keeps(z, 0)
      BY DEF IsKept
    <2> HIDE DEF Keeps, z
    <2> QED BY <1>2, <2>1
  <1>4. m - 1 \in 0 .. n /\ m - 1 \notin None
    <2> HIDE DEF None
    <2>1. m - 1 \in 0 .. n /\ ~(m <= m - 1)
      BY <1>2, <1>3
    <2> QED BY <1>1, <2>1
  <1>5. PICK f : Keeps(f, m - 1)
    BY <1>4
  <1> DEFINE h == [i \in 0 .. m |-> IF i = m THEN (IF m \in P THEN Append(f[m - 1], v[m]) ELSE f[m - 1])
                                    ELSE f[i]]
  <1>6. \A i \in 0 .. m : h[i] = Step(h, i)
    <2> SUFFICES ASSUME NEW i \in 0 .. m PROVE h[i] = Step(h, i)
      OBVIOUS
    <2>1. CASE i = m
      <3>1. m - 1 \in 0 .. m /\ m - 1 # m /\ m \in 0 .. m
        BY <1>2, <1>3
      <3> QED BY <1>3, <2>1, <3>1
    <2>2. CASE i # m
      <3>1. i \in 0 .. m - 1
        BY <1>2, <1>3, <2>2
      <3>2. f[i] = Step(f, i)
        BY <1>5, <3>1 DEF IsKept
      <3>3. i # 0 => i - 1 \in 0 .. m /\ i - 1 # m
        BY <1>2, <3>1
      <3> QED BY <2>2, <3>2, <3>3
    <2> QED BY <2>1, <2>2
  <1>7. Keeps(h, m)
    <2>1. h = [i \in 0 .. m |-> h[i]]
      OBVIOUS
    <2>2. h = [i \in 0 .. m |-> Step(h, i)]
      <3> HIDE DEF h, Step
      <3> QED BY <1>6, <2>1
    <2> HIDE DEF h
    <2> QED BY <2>2 DEF IsKept
  <1> HIDE DEF Keeps, h
  <1> QED BY <1>2, <1>7

LEMMA KeptIs ==
  ASSUME NEW n \in Nat, NEW P, NEW v
  PROVE  /\ Kept(n, P, v)[0] = <<>>
         /\ \A i \in 1 .. n : Kept(n, P, v)[i] = (IF i \in P THEN Append(Kept(n, P, v)[i - 1], v[i])
                                                  ELSE Kept(n, P, v)[i - 1])
  <1> DEFINE Step(f, i) == IF i = 0 THEN <<>>
                           ELSE IF i \in P THEN Append(f[i - 1], v[i]) ELSE f[i - 1]
             k == Kept(n, P, v)
  <1>1. k = [i \in 0 .. n |-> Step(k, i)]
    <2>1. IsKept(k, n, P, v)
      BY KeptExists DEF Kept
    <2> HIDE DEF k
    <2> QED BY <2>1 DEF IsKept
  <1>2. \A i \in 0 .. n : k[i] = Step(k, i)
    <2> HIDE DEF k, Step
    <2> QED BY <1>1
  <1>3. k[0] = Step(k, 0)
    <2> HIDE DEF k, Step
    <2> QED BY <1>2
  <1>4. ASSUME NEW i \in 1 .. n PROVE k[i] = Step(k, i) /\ i # 0
    <2>1. i \in 0 .. n
      OBVIOUS
    <2> HIDE DEF k, Step
    <2> QED BY <1>2, <2>1
  <1> HIDE DEF k
  <1> QED BY <1>3, <1>4 DEF k

LEMMA KeptOf ==
  ASSUME NEW S, NEW n \in Nat, NEW P, NEW v, \A i \in 1 .. n : i \in P => v[i] \in S
  PROVE  \A i \in 0 .. n : Kept(n, P, v)[i] \in Seq(S)
  <1> DEFINE k == Kept(n, P, v)
             Wrong == {i \in 0 .. n : k[i] \notin Seq(S)}
  <1> SUFFICES ASSUME Wrong # {} PROVE FALSE
    OBVIOUS
  <1>1. k[0] = <<>> /\ \A i \in 1 .. n : k[i] = (IF i \in P THEN Append(k[i - 1], v[i]) ELSE k[i - 1])
    BY KeptIs
  <1> HIDE DEF k
  <1>2. PICK m \in Wrong : \A i \in Wrong : m <= i
    <2>1. Wrong \subseteq Nat
      OBVIOUS
    <2> HIDE DEF Wrong
    <2> QED BY <2>1, LeastOfNats
  <1>3. m \in 0 .. n /\ k[m] \notin Seq(S)
    BY <1>2
  <1>4. m # 0
    <2>1. <<>> \in Seq(S)
      OBVIOUS
    <2> QED BY <1>1, <1>3, <2>1
  <1>5. m - 1 \in 0 .. n /\ k[m - 1] \in Seq(S)
    <2>1. m - 1 \in 0 .. n /\ ~(m <= m - 1)
      BY <1>3, <1>4
    <2>2. m - 1 \notin Wrong
      <3> HIDE DEF Wrong
      <3> QED BY <1>2, <2>1
    <2> QED BY <2>1, <2>2
  <1>6. m \in 1 .. n
    BY <1>3, <1>4
  <1>7. ASSUME NEW s \in Seq(S), NEW x \in S PROVE Append(s, x) \in Seq(S)
    OBVIOUS
  <1>8. k[m] = (IF m \in P THEN Append(k[m - 1], v[m]) ELSE k[m - 1])
    BY <1>1, <1>6
  <1>9. CASE m \in P
    BY <1>3, <1>5, <1>6, <1>7, <1>8, <1>9
  <1> QED BY <1>3, <1>5, <1>8, <1>9

LEMMA KeptType ==
  ASSUME NEW n \in Nat, NEW P, NEW v, \A i \in 1 .. n : i \in P => v[i] \in Host
  PROVE  \A i \in 0 .. n : Kept(n, P, v)[i] \in Seq(Host)
  <1>1. \A S : (\A i \in 1 .. n : i \in P => v[i] \in S) => \A i \in 0 .. n : Kept(n, P, v)[i] \in Seq(S)
    BY KeptOf
  <1> QED BY <1>1

\* What is kept of values that are one value is that value.
LEMMA KeptOne ==
  ASSUME NEW n \in Nat, NEW P, NEW v, NEW h, \A i \in 1 .. n : i \in P => v[i] = h
  PROVE  \A k \in DOMAIN Kept(n, P, v)[n] : Kept(n, P, v)[n][k] = h
  <1>1. \A S : (\A i \in 1 .. n : i \in P => v[i] \in S) => \A i \in 0 .. n : Kept(n, P, v)[i] \in Seq(S)
    BY KeptOf
  <1> DEFINE s == Kept(n, P, v)[n]
  <1>2. s \in Seq({h})
    BY <1>1
  <1> HIDE DEF s
  <1>3. \A k \in DOMAIN s : s[k] \in {h}
    BY <1>2
  <1> QED BY <1>3 DEF s

\* What is kept of the first values does not depend on the later ones.
LEMMA KeptSame ==
  ASSUME NEW n \in Nat, NEW m \in Nat, m <= n, NEW P, NEW v, NEW Q, NEW w,
         \A i \in 1 .. m : (i \in P <=> i \in Q) /\ v[i] = w[i]
  PROVE  \A i \in 0 .. m : Kept(n, P, v)[i] = Kept(m, Q, w)[i]
  <1> DEFINE k == Kept(n, P, v)
             l == Kept(m, Q, w)
             Wrong == {i \in 0 .. m : k[i] # l[i]}
  <1> SUFFICES ASSUME Wrong # {} PROVE FALSE
    OBVIOUS
  <1>1. k[0] = <<>> /\ \A i \in 1 .. n : k[i] = (IF i \in P THEN Append(k[i - 1], v[i]) ELSE k[i - 1])
    BY KeptIs
  <1>2. l[0] = <<>> /\ \A i \in 1 .. m : l[i] = (IF i \in Q THEN Append(l[i - 1], w[i]) ELSE l[i - 1])
    BY KeptIs
  <1> HIDE DEF k, l
  <1>3. PICK j \in Wrong : \A i \in Wrong : j <= i
    <2>1. Wrong \subseteq Nat
      OBVIOUS
    <2> HIDE DEF Wrong
    <2> QED BY <2>1, LeastOfNats
  <1>4. j \in 0 .. m /\ k[j] # l[j]
    BY <1>3
  <1>5. j # 0
    BY <1>1, <1>2, <1>4
  <1>6. k[j - 1] = l[j - 1]
    <2>1. j - 1 \in 0 .. m /\ ~(j <= j - 1)
      BY <1>4, <1>5
    <2>2. j - 1 \notin Wrong
      <3> HIDE DEF Wrong
      <3> QED BY <1>3, <2>1
    <2> QED BY <2>1, <2>2
  <1>7. j \in 1 .. m /\ j \in 1 .. n
    BY <1>4, <1>5
  <1> QED BY <1>1, <1>2, <1>4, <1>6, <1>7

\* Without the first value, one is missing from the front, or none.
LEMMA KeptTail ==
  ASSUME NEW n \in Nat \ {0}, NEW P, NEW v, NEW Q, NEW w,
         \A i \in 1 .. n : i \in P => v[i] \in Host,
         \A i \in 1 .. n - 1 : (i + 1 \in P <=> i \in Q) /\ v[i + 1] = w[i]
  PROVE  \A i \in 0 .. n - 1 :
            Kept(n, P, v)[i + 1] = IF 1 \in P THEN <<v[1]>> \o Kept(n - 1, Q, w)[i] ELSE Kept(n - 1, Q, w)[i]
  <1> DEFINE k == Kept(n, P, v)
             l == Kept(n - 1, Q, w)
             OK(i) == k[i + 1] = IF 1 \in P THEN <<v[1]>> \o l[i] ELSE l[i]
             Wrong == {i \in 0 .. n - 1 : ~OK(i)}
  <1> SUFFICES ASSUME Wrong # {} PROVE FALSE
    OBVIOUS
  <1>0. n - 1 \in Nat
    OBVIOUS
  <1>1. k[0] = <<>> /\ \A i \in 1 .. n : k[i] = (IF i \in P THEN Append(k[i - 1], v[i]) ELSE k[i - 1])
    BY KeptIs
  <1>2. l[0] = <<>> /\ \A i \in 1 .. n - 1 : l[i] = (IF i \in Q THEN Append(l[i - 1], w[i]) ELSE l[i - 1])
    BY <1>0, KeptIs
  <1>3. \A i \in 0 .. n - 1 : l[i] \in Seq(Host)
    <2>1. \A i \in 1 .. n - 1 : i \in Q => w[i] \in Host
      <3> SUFFICES ASSUME NEW i \in 1 .. n - 1, i \in Q PROVE w[i] \in Host
        OBVIOUS
      <3>1. i + 1 \in 1 .. n /\ i + 1 \in P /\ v[i + 1] = w[i]
        OBVIOUS
      <3> QED BY <3>1
    <2> QED BY <1>0, <2>1, KeptType
  <1> HIDE DEF k, l
  <1>4. PICK j \in Wrong : \A i \in Wrong : j <= i
    <2>1. Wrong \subseteq Nat
      OBVIOUS
    <2> HIDE DEF Wrong
    <2> QED BY <2>1, LeastOfNats
  <1>5. j \in 0 .. n - 1 /\ ~OK(j)
    BY <1>4
  <1>6. OK(0)
    <2>1. 1 \in 1 .. n /\ 1 - 1 = 0 /\ 0 + 1 = 1
      OBVIOUS
    <2>2. k[1] = (IF 1 \in P THEN Append(k[1 - 1], v[1]) ELSE k[1 - 1])
      BY <1>1, <2>1
    <2>3. k[1] = (IF 1 \in P THEN Append(<<>>, v[1]) ELSE <<>>)
      BY <1>1, <2>1, <2>2
    <2>4. ASSUME NEW x \in Host PROVE Append(<<>>, x) = <<x>> \o <<>>
      BY AppendIsConcat, ConcatEmptySeq
    <2>5. 1 \in P => v[1] \in Host
      BY <2>1
    <2> QED BY <1>2, <2>1, <2>3, <2>4, <2>5
  <1>7. j # 0 /\ OK(j - 1)
    <2>0. j # 0
      <3> HIDE DEF OK
      <3> QED BY <1>5, <1>6
    <2>1. j - 1 \in 0 .. n - 1 /\ ~(j <= j - 1)
      BY <1>5, <2>0
    <2>2. j - 1 \notin Wrong
      <3> HIDE DEF Wrong
      <3> QED BY <1>4, <2>1
    <2> HIDE DEF OK
    <2> QED BY <2>0, <2>1, <2>2
  <1>8. /\ j \in 1 .. n - 1 /\ j + 1 \in 1 .. n /\ j - 1 \in 0 .. n - 1
        /\ (j + 1) - 1 = j /\ (j - 1) + 1 = j
    BY <1>5, <1>7
  <1>9. k[j + 1] = IF j + 1 \in P THEN Append(k[j], v[j + 1]) ELSE k[j]
    BY <1>1, <1>8
  <1>10. l[j] = IF j \in Q THEN Append(l[j - 1], w[j]) ELSE l[j - 1]
    BY <1>2, <1>8
  <1>11. k[j] = IF 1 \in P THEN <<v[1]>> \o l[j - 1] ELSE l[j - 1]
    BY <1>7, <1>8
  <1>12. l[j - 1] \in Seq(Host) /\ (1 \in P => v[1] \in Host) /\ (j + 1 \in P => v[j + 1] \in Host)
         /\ (j + 1 \in P <=> j \in Q) /\ v[j + 1] = w[j]
    <2>1. 1 \in 1 .. n
      OBVIOUS
    <2> QED BY <1>3, <1>8, <2>1
  <1>13. CASE j + 1 \in P
    <2>1. k[j + 1] = Append(k[j], v[j + 1]) /\ l[j] = Append(l[j - 1], v[j + 1]) /\ v[j + 1] \in Host
      BY <1>9, <1>10, <1>12, <1>13
    <2>2. CASE 1 \in P
      <3> DEFINE s == l[j - 1]
                 x == v[j + 1]
                 y == v[1]
      <3>1. s \in Seq(Host) /\ x \in Host /\ y \in Host
        BY <1>12, <2>1, <2>2
      <3>2. Append(<<y>> \o s, x) = <<y>> \o Append(s, x)
        <4> HIDE DEF s, x, y
        <4>1. <<y>> \in Seq(Host) /\ <<x>> \in Seq(Host) /\ <<y>> \o s \in Seq(Host)
          BY <3>1
        <4>2. Append(<<y>> \o s, x) = (<<y>> \o s) \o <<x>> /\ Append(s, x) = s \o <<x>>
          BY <3>1, <4>1, AppendIsConcat
        <4>3. \A T : \A a, b, c \in Seq(T) : (a \o b) \o c = a \o (b \o c)
          BY ConcatAssociative
        <4>4. (<<y>> \o s) \o <<x>> = <<y>> \o (s \o <<x>>)
          BY <3>1, <4>1, <4>3
        <4> QED BY <4>2, <4>4
      <3> QED BY <1>5, <1>11, <2>1, <2>2, <3>2
    <2>3. CASE 1 \notin P
      BY <1>5, <1>11, <2>1, <2>3
    <2> QED BY <2>2, <2>3
  <1>14. CASE j + 1 \notin P
    BY <1>5, <1>9, <1>10, <1>11, <1>12, <1>14
  <1> QED BY <1>13, <1>14

\* The records of n in a file f.
Hosts(f)    == [k \in 1 .. Len(f.recs) |-> f.recs[k].host]
Where(f, n) == {k \in 1 .. Len(f.recs) : f.recs[k].id \in DOMAIN f.names /\ f.names[f.recs[k].id] = n}

RecordsIn(f, n) == Kept(Len(f.recs), Where(f, n), Hosts(f))[Len(f.recs)]

LEMMA FileType ==
  ASSUME NEW f \in File
  PROVE  /\ f.names \in Seq(Name) /\ f.by \in Configs
         /\ f.recs \in Seq([id : 1 .. MaxNames, host : Host])
         /\ Len(f.recs) \in Nat
         /\ \A k \in 1 .. Len(f.recs) : f.recs[k].id \in 1 .. MaxNames /\ f.recs[k].host \in Host
  <1>1. f.recs \in Seq([id : 1 .. MaxNames, host : Host])
    BY DEF File
  <1>2. \A k \in 1 .. Len(f.recs) : f.recs[k] \in [id : 1 .. MaxNames, host : Host]
    <2> DEFINE R == [id : 1 .. MaxNames, host : Host]
               s == f.recs
    <2>1. s \in Seq(R)
      BY <1>1
    <2> HIDE DEF R, s
    <2>2. \A k \in 1 .. Len(s) : s[k] \in R
      BY <2>1
    <2> QED BY <2>2 DEF R, s
  <1> QED BY <1>1, <1>2 DEF File

\* RecordsOf, of any file.
Replayed(file0, n) ==
    LET recs == file0.recs
        Named(r) == r.id \in DOMAIN file0.names /\ file0.names[r.id] = n
        kept[k \in 0 .. Len(recs)] ==
            IF k = 0 THEN <<>>
            ELSE IF Named(recs[k]) THEN Append(kept[k - 1], recs[k].host) ELSE kept[k - 1]
    IN  kept[Len(recs)]

LEMMA ReplayedAre ==
  ASSUME NEW n, NEW file0 \in File
  PROVE  Replayed(file0, n) = RecordsIn(file0, n)
  <1> DEFINE recs == file0.recs
             m == Len(recs)
             Named(r) == r.id \in DOMAIN file0.names /\ file0.names[r.id] = n
             f == CHOOSE f : f = [k \in 0 .. Len(recs) |->
                     IF k = 0 THEN <<>>
                     ELSE IF Named(recs[k]) THEN Append(f[k - 1], recs[k].host) ELSE f[k - 1]]
             P == Where(file0, n)
             v == Hosts(file0)
             Step(g, i) == IF i = 0 THEN <<>> ELSE IF i \in P THEN Append(g[i - 1], v[i]) ELSE g[i - 1]
             StepN(g, k) == IF k = 0 THEN <<>>
                            ELSE IF Named(recs[k]) THEN Append(g[k - 1], recs[k].host) ELSE g[k - 1]
  <1>0. m \in Nat
    BY FileType
  <1>1. ASSUME NEW g PROVE [k \in 0 .. m |-> StepN(g, k)] = [k \in 0 .. m |-> Step(g, k)]
    <2> SUFFICES ASSUME NEW k \in 0 .. m PROVE StepN(g, k) = Step(g, k)
      OBVIOUS
    <2>1. CASE k = 0
      BY <2>1
    <2>2. CASE k # 0
      <3>1. k \in 1 .. m
        BY <1>0, <2>2
      <3> QED BY <2>2, <3>1 DEF Where, Hosts
    <2> QED BY <2>1, <2>2
  <1>2. f = Kept(m, P, v)
    <2>1. f = CHOOSE g : g = [k \in 0 .. m |-> StepN(g, k)]
      OBVIOUS
    <2>2. Kept(m, P, v) = CHOOSE g : g = [k \in 0 .. m |-> Step(g, k)]
      BY DEF Kept, IsKept
    <2>3. \A g : g = [k \in 0 .. m |-> StepN(g, k)] <=> g = [k \in 0 .. m |-> Step(g, k)]
      <3> HIDE DEF Step, StepN
      <3> QED BY <1>1
    <2> HIDE DEF f, Step, StepN
    <2> QED BY <2>1, <2>2, <2>3
  <1>3. Replayed(file0, n) = f[m]
    BY DEF Replayed
  <1> QED BY <1>2, <1>3 DEF RecordsIn

LEMMA RecordsAre ==
  ASSUME NEW n, file \in File
  PROVE  RecordsOf(n) = RecordsIn(file, n)
  <1>1. RecordsOf(n) = Replayed(file, n)
    BY DEF RecordsOf, Replayed
  <1> QED BY <1>1, ReplayedAre

LEMMA RecordsWillBe ==
  ASSUME NEW n, file' \in File
  PROVE  RecordsOf(n)' = RecordsIn(file', n)
  <1>1. RecordsOf(n)' = Replayed(file', n)
    BY DEF RecordsOf, Replayed
  <1> QED BY <1>1, ReplayedAre

LEMMA RecordsType ==
  ASSUME NEW n, NEW f \in File
  PROVE  RecordsIn(f, n) \in Seq(Host)
  <1> DEFINE m == Len(f.recs)
             P == Where(f, n)
             v == Hosts(f)
  <1>1. m \in Nat /\ \A i \in 1 .. m : i \in P => v[i] \in Host
    BY FileType DEF Hosts
  <1> HIDE DEF m, P, v
  <1>2. \A i \in 0 .. m : Kept(m, P, v)[i] \in Seq(Host)
    BY <1>1, KeptType
  <1>3. Kept(m, P, v)[m] \in Seq(Host)
    BY <1>1, <1>2
  <1> QED BY <1>3 DEF RecordsIn, m, P, v

\* A record more.
LEMMA RecordsAppend ==
  ASSUME NEW n, NEW f \in File, NEW g \in File, NEW r, g.names = f.names, g.recs = Append(f.recs, r)
  PROVE  RecordsIn(g, n) = IF r.id \in DOMAIN f.names /\ f.names[r.id] = n
                           THEN Append(RecordsIn(f, n), r.host) ELSE RecordsIn(f, n)
  <1> DEFINE m == Len(f.recs)
             k == Len(g.recs)
             P == Where(g, n)
             v == Hosts(g)
             Q == Where(f, n)
             w == Hosts(f)
  <1>1. m \in Nat /\ k = m + 1 /\ k \in Nat /\ m <= k /\ m \in 0 .. m /\ k \in 1 .. k /\ k - 1 = m
        /\ (\A i \in 1 .. m : g.recs[i] = f.recs[i] /\ i \in 1 .. k) /\ g.recs[k] = r
    BY FileType
  <1>2. \A i \in 1 .. m : (i \in P <=> i \in Q) /\ v[i] = w[i]
    <2> HIDE DEF m, k
    <2> QED BY <1>1 DEF Where, Hosts, m, k
  <1>3. (k \in P <=> r.id \in DOMAIN f.names /\ f.names[r.id] = n) /\ v[k] = r.host
    <2> HIDE DEF m
    <2> QED BY <1>1 DEF Where, Hosts
  <1>4. Kept(k, P, v)[k] = IF k \in P THEN Append(Kept(k, P, v)[m], v[k]) ELSE Kept(k, P, v)[m]
    <2> HIDE DEF k, m, P, v
    <2> QED BY <1>1, KeptIs
  <1>5. Kept(k, P, v)[m] = Kept(m, Q, w)[m]
    <2> HIDE DEF k, m, P, v, Q, w
    <2> QED BY <1>1, <1>2, KeptSame
  <1>6. RecordsIn(g, n) = Kept(k, P, v)[k] /\ RecordsIn(f, n) = Kept(m, Q, w)[m]
    BY DEF RecordsIn
  <1> HIDE DEF k, m, P, v, Q, w
  <1> QED BY <1>3, <1>4, <1>5, <1>6

\* Without the oldest record.
LEMMA RecordsTail ==
  ASSUME NEW n, NEW f \in File, NEW g \in File, g.names = f.names, f.recs # <<>>, g.recs = Tail(f.recs)
  PROVE  \/ RecordsIn(f, n) = RecordsIn(g, n)
         \/ \E h \in Host : RecordsIn(f, n) = <<h>> \o RecordsIn(g, n)
  <1> DEFINE k == Len(f.recs)
             P == Where(f, n)
             v == Hosts(f)
             Q == Where(g, n)
             w == Hosts(g)
  <1>1. k \in Nat \ {0} /\ Len(g.recs) = k - 1 /\ k - 1 \in Nat /\ 1 \in 1 .. k /\ k - 1 \in 0 .. k - 1 /\ (k - 1) + 1 = k
        /\ \A i \in 1 .. k - 1 : g.recs[i] = f.recs[i + 1] /\ i + 1 \in 1 .. k
    BY FileType
  <1>2. \A i \in 1 .. k : i \in P => v[i] \in Host
    BY FileType DEF Hosts
  <1>3. \A i \in 1 .. k - 1 : (i + 1 \in P <=> i \in Q) /\ v[i + 1] = w[i]
    <2> HIDE DEF k
    <2> QED BY <1>1 DEF Where, Hosts, k
  <1>4. \A i \in 0 .. k - 1 :
            Kept(k, P, v)[i + 1] = IF 1 \in P THEN <<v[1]>> \o Kept(k - 1, Q, w)[i] ELSE Kept(k - 1, Q, w)[i]
    <2> HIDE DEF k, P, v, Q, w
    <2> QED BY <1>1, <1>2, <1>3, KeptTail
  <1>5. Kept(k, P, v)[k] = IF 1 \in P THEN <<v[1]>> \o Kept(k - 1, Q, w)[k - 1] ELSE Kept(k - 1, Q, w)[k - 1]
    <2> HIDE DEF k, P, v, Q, w
    <2> QED BY <1>1, <1>4
  <1>6. RecordsIn(f, n) = Kept(k, P, v)[k] /\ RecordsIn(g, n) = Kept(k - 1, Q, w)[k - 1]
    BY <1>1 DEF RecordsIn
  <1>7. 1 \in P => v[1] \in Host
    BY <1>1, <1>2
  <1> HIDE DEF k, P, v, Q, w
  <1> QED BY <1>5, <1>6, <1>7

(***************************************************************************)
(* Suffixes.                                                               *)
(***************************************************************************)

\* A suffix is what is left of a sequence after a part of it.
LEMMA SuffixHasFront ==
  ASSUME NEW s \in Seq(Host), NEW t \in Seq(Host), IsSuffix(s, t)
  PROVE  \E p \in Seq(Host) : t = p \o s
  <1> DEFINE m == Len(s)
             n == Len(t)
             a == Reverse(s)
             b == Reverse(t)
  <1>1. m \in Nat /\ n \in Nat
    OBVIOUS
  <1>2. a = [i \in 1 .. m |-> s[(m - i) + 1]] /\ b = [i \in 1 .. n |-> t[(n - i) + 1]]
    BY DEF Reverse
  <1>3. Len(a) = m /\ Len(b) = n
    <2> HIDE DEF a, b, m, n
    <2> QED BY <1>1, <1>2
  <1>4. m <= n /\ SubSeq(a, 1, m) = SubSeq(b, 1, m)
    BY <1>3 DEF IsSuffix, IsPrefix
  <1>5. ASSUME NEW i \in 1 .. m PROVE a[i] = b[i]
    <2>1. SubSeq(a, 1, m)[i] = a[i] /\ SubSeq(b, 1, m)[i] = b[i]
      <3> HIDE DEF a, b, m, n
      <3> QED BY <1>1, <1>4, <1>5
    <2> QED BY <1>4, <2>1
  <1>6. ASSUME NEW j \in 1 .. m PROVE s[j] = t[(n - m) + j]
    <2> DEFINE i == (m - j) + 1
    <2>1. i \in 1 .. m /\ i \in 1 .. n /\ (m - i) + 1 = j /\ (n - i) + 1 = (n - m) + j
      BY <1>1, <1>4
    <2>2. a[i] = s[(m - i) + 1] /\ b[i] = t[(n - i) + 1]
      <3> HIDE DEF a, b, i, m, n
      <3> QED BY <1>2, <2>1
    <2>3. a[i] = b[i]
      <3> HIDE DEF a, b, i, m, n
      <3> QED BY <1>5, <2>1
    <2> HIDE DEF a, b, i, m, n
    <2> QED BY <2>1, <2>2, <2>3
  <1> DEFINE p == SubSeq(t, 1, n - m)
  <1>7. p \in Seq(Host) /\ Len(p) = n - m /\ \A i \in 1 .. n - m : p[i] = t[i]
    BY <1>1, <1>4
  <1>8. t = p \o s
    <2>0. n - m \in Nat
      BY <1>1, <1>4
    <2> HIDE DEF p, a, b
    <2>1. p \o s \in Seq(Host) /\ Len(p \o s) = n
      BY <1>1, <1>7, <2>0
    <2>2. ASSUME NEW i \in 1 .. n PROVE (p \o s)[i] = t[i]
      <3>1. CASE i <= n - m
        <4>1. i \in 1 .. Len(p)
          BY <1>7, <2>0, <3>1
        <4>2. (p \o s)[i] = p[i]
          BY <1>7, <4>1
        <4> QED BY <1>7, <4>1, <4>2
      <3>2. CASE ~(i <= n - m)
        <4>1. i - (n - m) \in 1 .. m /\ (n - m) + (i - (n - m)) = i
          BY <1>1, <1>4, <3>2
        <4>2. (p \o s)[i] = s[i - Len(p)]
          BY <1>1, <1>7, <2>0, <2>1, <3>2
        <4> QED BY <1>6, <1>7, <4>1, <4>2
      <3> QED BY <3>1, <3>2
    <2>3. \A u, v \in Seq(Host) : Len(u) = Len(v) /\ (\A i \in 1 .. Len(u) : u[i] = v[i]) => u = v
      BY SeqEqual
    <2> QED BY <2>1, <2>2, <2>3
  <1> QED BY <1>7, <1>8

LEMMA FrontMakesSuffix ==
  ASSUME NEW s \in Seq(Host), NEW p \in Seq(Host)
  PROVE  IsSuffix(s, p \o s)
  <1> DEFINE t == p \o s
             m == Len(s)
             n == Len(t)
             a == Reverse(s)
             b == Reverse(t)
  <1>1. m \in Nat /\ t \in Seq(Host) /\ n = Len(p) + m /\ Len(p) \in Nat
        /\ \A i \in 1 .. m : t[Len(p) + i] = s[i]
    OBVIOUS
  <1>2. a = [i \in 1 .. m |-> s[(m - i) + 1]] /\ b = [i \in 1 .. n |-> t[(n - i) + 1]]
    BY DEF Reverse
  <1> HIDE DEF t, m, n
  <1>3. ASSUME NEW i \in 1 .. m PROVE a[i] = b[i]
    <2>1. i \in 1 .. n /\ (m - i) + 1 \in 1 .. m /\ (n - i) + 1 = Len(p) + ((m - i) + 1)
      BY <1>1
    <2>2. a[i] = s[(m - i) + 1] /\ b[i] = t[(n - i) + 1]
      BY <1>2, <2>1
    <2> QED BY <1>1, <2>1, <2>2
  <1>4. Len(a) = m /\ Len(b) = n /\ m <= n
    <2> HIDE DEF a, b
    <2> QED BY <1>1, <1>2
  <1>5. SubSeq(a, 1, m) = [i \in 1 .. m |-> a[i]] /\ SubSeq(b, 1, m) = [i \in 1 .. m |-> b[i]]
    <2> HIDE DEF a, b
    <2> QED BY <1>1
  <1>6. SubSeq(a, 1, m) = SubSeq(b, 1, m)
    <2> HIDE DEF a, b
    <2> QED BY <1>3, <1>5
  <1> HIDE DEF a, b
  <1>7. Len(a) <= Len(b) /\ SubSeq(a, 1, Len(a)) = SubSeq(b, 1, Len(a))
    BY <1>1, <1>4, <1>6
  <1> QED BY <1>7 DEF IsSuffix, IsPrefix, a, b, t

\* A sample is appended to both, and the oldest record goes.
LEMMA SuffixAppend ==
  ASSUME NEW s \in Seq(Host), NEW t \in Seq(Host), NEW x \in Host, IsSuffix(s, t)
  PROVE  IsSuffix(Append(s, x), Append(t, x))
  <1>1. PICK p \in Seq(Host) : t = p \o s
    BY SuffixHasFront
  <1>2. Append(t, x) = p \o Append(s, x) /\ Append(s, x) \in Seq(Host)
    <2>1. <<x>> \in Seq(Host) /\ p \o s \in Seq(Host)
      OBVIOUS
    <2>2. Append(t, x) = (p \o s) \o <<x>> /\ Append(s, x) = s \o <<x>>
      BY <1>1, <2>1, AppendIsConcat
    <2>3. \A T : \A a, b, c \in Seq(T) : (a \o b) \o c = a \o (b \o c)
      BY ConcatAssociative
    <2>4. (p \o s) \o <<x>> = p \o (s \o <<x>>)
      BY <2>1, <2>3
    <2> QED BY <2>2, <2>4
  <1> DEFINE u == Append(s, x)
  <1>3. u \in Seq(Host) /\ Append(t, x) = p \o u
    BY <1>2
  <1> HIDE DEF u
  <1>4. IsSuffix(u, p \o u)
    BY <1>3, FrontMakesSuffix
  <1> QED BY <1>3, <1>4 DEF u

LEMMA SuffixTail ==
  ASSUME NEW s \in Seq(Host), NEW t \in Seq(Host), NEW x \in Host, IsSuffix(<<x>> \o s, t)
  PROVE  IsSuffix(s, t)
  <1> DEFINE u == <<x>>
  <1>1. u \in Seq(Host) /\ u \o s \in Seq(Host)
    OBVIOUS
  <1>2. PICK p \in Seq(Host) : t = p \o (u \o s)
    BY <1>1, SuffixHasFront
  <1> HIDE DEF u
  <1>3. \A T : \A a, b, c \in Seq(T) : (a \o b) \o c = a \o (b \o c)
    BY ConcatAssociative
  <1>4. t = (p \o u) \o s /\ p \o u \in Seq(Host)
    BY <1>1, <1>2, <1>3
  <1> DEFINE q == p \o u
  <1>5. q \in Seq(Host) /\ t = q \o s
    BY <1>4
  <1> HIDE DEF q
  <1>6. IsSuffix(s, q \o s)
    BY <1>5, FrontMakesSuffix
  <1> QED BY <1>5, <1>6

LEMMA SuffixSelf ==
  ASSUME NEW s \in Seq(Host)
  PROVE  IsSuffix(s, s)
  <1>1. <<>> \in Seq(Host) /\ <<>> \o s = s
    BY ConcatEmptySeq
  <1>2. IsSuffix(s, <<>> \o s)
    BY <1>1, FrontMakesSuffix
  <1> QED BY <1>1, <1>2

(***************************************************************************)
(* The history is replayed, and samples are recorded.                      *)
(***************************************************************************)

LEMMA ReplayInv ==
  ASSUME IInv, Replay
  PROVE  IInv' /\ series' \in [Name -> Seq(Host)]
         /\ \A n \in Name : series'[n] = IF hist /\ n \in Registered THEN RecordsOf(n) ELSE <<>>
  <1>1. NetInv'
    BY NetSame DEF IInv, Replay
  <1>2. TypeOK /\ GateInv /\ TableInv
    BY DEF IInv
  <1>3. pc = "register" /\ pc' = "run" /\ UNCHANGED <<exit, cfg, icmp, gate, targets, hist, file, taken, starts>>
    BY DEF Replay
  <1>4. GateInv'
    BY <1>2, <1>3, GateSame DEF GateInv, Started
  <1>5. series' = [n \in Name |-> IF hist /\ n \in Registered THEN RecordsOf(n) ELSE <<>>]
    BY DEF Replay
  <1>6. ASSUME NEW n \in Name, hist PROVE RecordsOf(n) \in Seq(Host)
    <2>1. file # NoFile /\ file \in File
      BY <1>2, <1>3, <1>6 DEF TypeOK, TableInv
    <2> QED BY <2>1, RecordsAre, RecordsType
  <1>7. series' \in [Name -> Seq(Host)]
    <2>1. <<>> \in Seq(Host)
      OBVIOUS
    <2> QED BY <1>5, <1>6, <2>1
  <1>8. TypeOK'
    BY <1>1, <1>2, <1>3, <1>7 DEF TypeOK, NetInv, gate, File, Result, Target
  <1>9. TableInv'
    BY <1>2, <1>3 DEF TableInv, Table, NamesOf
  <1> QED BY <1>1, <1>4, <1>5, <1>7, <1>8, <1>9 DEF IInv

LEMMA TargetType ==
  ASSUME IInv, NEW j \in DOMAIN targets
  PROVE  targets[j].name \in Name /\ targets[j].host \in Host
  <1>1. targets \in Seq(Target)
    BY DEF IInv, TypeOK
  <1>2. targets[j] \in Target
    BY <1>1
  <1> QED BY <1>2 DEF Target

\* The place of a name in the file.
LEMMA IdIs ==
  ASSUME file \in File, NEW n, Ids(n) # {}
  PROVE  Max(Ids(n)) \in DOMAIN file.names /\ file.names[Max(Ids(n))] = n
  <1>1. file.names \in Seq(Name)
    BY FileType
  <1>2. Ids(n) \subseteq 0 .. Len(file.names) /\ Len(file.names) \in Nat
    BY <1>1 DEF Ids
  <1>3. \E m \in Ids(n) : \A k \in Ids(n) : k <= m
    BY <1>2, GreatestOfInterval
  <1>4. \E m \in Ids(n) : \A k \in Ids(n) : m >= k
    BY <1>2, <1>3
  <1>5. Max(Ids(n)) \in Ids(n)
    BY <1>4 DEF Max
  <1> QED BY <1>5 DEF Ids

\* What a sample does to the file: it has one record more, and, where it was full, one
\* less.
LongerBy(f, r) == f \in File /\ f.names = file.names /\ f.recs = Append(file.recs, r) /\ f.recs # <<>>

Recording(t, f, r) ==
    /\ file \in File /\ file' \in File /\ file'.names = file.names /\ file'.by = file.by
    /\ LongerBy(f, r)
    /\ r.host = t.host /\ r.id \in DOMAIN file.names /\ file.names[r.id] = t.name
    /\ \/ file' = f /\ Len(f.recs) <= FileCap
       \/ Len(f.recs) = FileCap + 1 /\ file'.recs = Tail(f.recs) /\ Len(file'.recs) = FileCap

LEMMA SampleGives ==
  ASSUME IInv, NEW j \in DOMAIN targets, Sample(targets[j]), hist, Ids(targets[j].name) # {}
  PROVE  \E f, r : Recording(targets[j], f, r)
  <1> USE Sizes
  <1> DEFINE t == targets[j]
             r == [id |-> Max(Ids(t.name)), host |-> t.host]
             R == [id : 1 .. MaxNames, host : Host]
             recs == Append(file.recs, r)
             f == [file EXCEPT !.recs = recs]
  <1>1. TypeOK /\ TableInv
    BY DEF IInv
  <1>2. file \in File /\ file # NoFile /\ Len(file.recs) <= FileCap /\ Len(file.names) <= MaxNames
    BY <1>1 DEF TypeOK, TableInv, Sample
  <1>3. file.recs \in Seq(R) /\ file.names \in Seq(Name)
    BY <1>2, FileType
  <1>4. r.id \in DOMAIN file.names /\ file.names[r.id] = t.name /\ r.host = t.host
    BY <1>2, IdIs
  <1>5. r \in R
    <2>1. r.id \in 1 .. MaxNames /\ t.host \in Host
      BY <1>2, <1>3, <1>4, TargetType
    <2> QED BY <2>1
  <1>6. recs \in Seq(R) /\ Len(recs) = Len(file.recs) + 1 /\ recs # <<>> /\ Len(file.recs) \in Nat
    <2> HIDE DEF R, r
    <2> QED BY <1>3, <1>5
  <1>7. f \in File /\ f.names = file.names /\ f.recs = recs /\ f.by = file.by
    <2> HIDE DEF recs
    <2> QED BY <1>2, <1>6 DEF File
  <1>8. file' = [file EXCEPT !.recs = IF Len(recs) > FileCap THEN Tail(recs) ELSE recs]
    BY DEF Sample, Recorded
  <1> HIDE DEF r, t
  <1>9. LongerBy(f, r)
    BY <1>6, <1>7 DEF LongerBy
  <1>10. CASE Len(recs) > FileCap
    <2>1. Tail(recs) \in Seq(R) /\ Len(Tail(recs)) = Len(recs) - 1
      <3> HIDE DEF R, recs
      <3> QED BY <1>6
    <2> HIDE DEF recs
    <2>2. file' \in File /\ file'.recs = Tail(recs) /\ file'.names = file.names /\ file'.by = file.by
      BY <1>2, <1>8, <1>10, <2>1 DEF File
    <2>3. Len(recs) = FileCap + 1
      BY <1>2, <1>6, <1>10
    <2>4. Len(f.recs) = FileCap + 1 /\ file'.recs = Tail(f.recs) /\ Len(file'.recs) = FileCap
      <3> HIDE DEF f
      <3> QED BY <1>7, <2>1, <2>2, <2>3
    <2> HIDE DEF f
    <2>5. Recording(t, f, r)
      BY <1>2, <1>4, <1>9, <2>2, <2>4 DEF Recording
    <2> QED BY <2>5 DEF t
  <1>11. CASE ~(Len(recs) > FileCap)
    <2> HIDE DEF recs
    <2>1. file' = f
      BY <1>8, <1>11
    <2>2. Len(recs) <= FileCap
      BY <1>6, <1>11
    <2> HIDE DEF f
    <2>3. Recording(t, f, r)
      BY <1>2, <1>4, <1>7, <1>9, <2>1, <2>2 DEF Recording
    <2> QED BY <2>3 DEF t
  <1> QED BY <1>10, <1>11

LEMMA SampleInv ==
  ASSUME IInv, NEW j \in DOMAIN targets, Sample(targets[j])
  PROVE  IInv'
  <1> USE Sizes
  <1> DEFINE t == targets[j]
  <1>1. NetInv'
    BY NetSame DEF IInv, Sample
  <1>2. TypeOK /\ GateInv /\ TableInv /\ t.name \in Name /\ t.host \in Host
    BY TargetType DEF IInv
  <1>3. pc = "run" /\ taken < MaxSamples /\ taken' = taken + 1
        /\ series' = [series EXCEPT ![t.name] = Append(@, t.host)]
        /\ UNCHANGED <<pc, exit, cfg, icmp, gate, targets, hist, starts>>
    BY DEF Sample
  <1>4. GateInv'
    BY <1>2, <1>3, GateSame DEF GateInv
  <1>5. series' \in [Name -> Seq(Host)] /\ taken' \in 0 .. MaxSamples
    <2>1. series \in [Name -> Seq(Host)] /\ taken \in 0 .. MaxSamples
      BY <1>2 DEF TypeOK
    <2>2. Append(series[t.name], t.host) \in Seq(Host)
      BY <1>2, <2>1
    <2> HIDE DEF t
    <2> QED BY <1>2, <1>3, <2>1, <2>2
  <1>6. CASE hist /\ Ids(t.name) # {}
    <2>0. PICK f, r : Recording(t, f, r)
      BY <1>6, SampleGives
    <2>1. /\ file \in File /\ f \in File /\ file' \in File /\ f.names = file.names /\ file'.names = file.names
          /\ file'.by = file.by /\ f.recs = Append(file.recs, r) /\ f.recs # <<>>
          /\ r.id \in DOMAIN file.names /\ file.names[r.id] = t.name
          /\ \/ file' = f /\ Len(f.recs) <= FileCap
             \/ Len(f.recs) = FileCap + 1 /\ file'.recs = Tail(f.recs) /\ Len(file'.recs) = FileCap
      BY <2>0 DEF Recording, LongerBy
    <2>2. file # NoFile /\ file' # NoFile
      BY <2>1, NoFileAssumption
    <2>3. Len(file'.recs) <= FileCap /\ Len(file'.names) <= MaxNames
      <3>1. Len(file.names) <= MaxNames
        BY <1>2, <2>2 DEF TypeOK
      <3> QED BY <2>1, <3>1
    <2>4. TypeOK'
      <3> HIDE DEF t
      <3> QED BY <1>1, <1>2, <1>3, <1>5, <2>1, <2>2, <2>3 DEF TypeOK, NetInv, gate, Result, Target
    <2>5. \A k \in DOMAIN file'.recs : file'.recs[k].id \in DOMAIN file'.names
      <3> DEFINE q == file.recs
      <3>1. q \in Seq([id : 1 .. MaxNames, host : Host]) /\ \A k \in DOMAIN q : q[k].id \in DOMAIN file.names
        BY <1>2, <2>1, <2>2, FileType DEF TableInv
      <3> HIDE DEF q
      <3>2. \A k \in 1 .. Len(q) + 1 : Append(q, r)[k].id \in DOMAIN file.names
        <4>1. \A k \in 1 .. Len(q) + 1 : Append(q, r)[k] = (IF k = Len(q) + 1 THEN r ELSE q[k])
                                         /\ (k # Len(q) + 1 => k \in DOMAIN q)
          BY <3>1
        <4> QED BY <2>1, <3>1, <4>1
      <3>3. Len(Append(q, r)) = Len(q) + 1 /\ Len(q) \in Nat /\ DOMAIN Append(q, r) = 1 .. Len(q) + 1
        BY <3>1
      <3>4. CASE file' = f
        <4>1. file'.recs = Append(q, r)
          BY <2>1, <3>4 DEF q
        <4> QED BY <2>1, <3>2, <3>3, <4>1
      <3>5. CASE file'.recs = Tail(f.recs)
        <4>1. file'.recs = Tail(Append(q, r))
          BY <2>1, <3>5 DEF q
        <4>2. DOMAIN Tail(Append(q, r)) = 1 .. Len(q)
              /\ \A k \in 1 .. Len(q) : Tail(Append(q, r))[k] = Append(q, r)[k + 1] /\ k + 1 \in 1 .. Len(q) + 1
          BY <3>1
        <4> QED BY <2>1, <3>2, <4>1, <4>2
      <3> QED BY <2>1, <3>4, <3>5
    <2>6. TableInv'
      <3>1. Table' = Table
        BY <1>3 DEF Table, NamesOf
      <3> HIDE DEF t
      <3> QED BY <1>2, <1>3, <2>1, <2>2, <2>5, <3>1 DEF TableInv
    <2> QED BY <1>1, <1>4, <2>4, <2>6 DEF IInv
  <1>7. CASE ~(hist /\ Ids(t.name) # {})
    <2>1. file' = file
      BY <1>7 DEF Sample
    <2>2. TypeOK'
      <3> HIDE DEF t
      <3> QED BY <1>1, <1>2, <1>3, <1>5, <2>1 DEF TypeOK, NetInv, gate, Result, Target, File
    <2>3. TableInv'
      BY <1>2, <1>3, <2>1 DEF TableInv, Table, NamesOf
    <2> QED BY <1>1, <1>4, <2>2, <2>3 DEF IInv
  <1> QED BY <1>6, <1>7

LEMMA OtherInv ==
  ASSUME IInv, Refresh \/ Refreshing \/ Travel \/ Stop \/ UNCHANGED vars
  PROVE  IInv'
  <1>1. TypeOK /\ GateInv /\ TableInv /\ NetInv
    BY DEF IInv
  <1>2. NetInv'
    <2>1. CASE Refresh
      BY <1>1, <2>1, NetBegin DEF Refresh
    <2>2. CASE Refreshing
      BY <1>1, <2>2, NetCollect DEF Refreshing
    <2>3. CASE Travel
      BY <1>1, <2>3, NetMove DEF Travel
    <2>4. CASE Stop
      BY <1>1, <2>4, NetReset DEF Stop
    <2>5. CASE UNCHANGED vars
      BY <1>1, <2>5, NetSame DEF vars
    <2> QED BY <2>1, <2>2, <2>3, <2>4, <2>5
  <1>3. /\ UNCHANGED <<cfg, icmp, gate, daemon, starts>>
        /\ \/ pc' = pc /\ exit' = exit
           \/ pc' = "off" /\ exit' \in {"stopped", "killed"}
    BY DEF Refresh, Refreshing, Travel, Stop, vars, gate, daemon
  <1>4. GateInv'
    <2>1. exit = "gate" => pc = "off"
      BY <1>1 DEF GateInv
    <2> QED BY <1>1, <1>3, <2>1, GateSame DEF Started
  <1>5. results' = results /\ probing' = probing /\ heard' = heard
    BY <1>3 DEF gate
  <1> QED BY <1>1, <1>2, <1>3, <1>4, <1>5, DaemonSame DEF TypeOK, Result

LEMMA NextInv == IInv /\ [Next]_vars => IInv'
  BY LaunchInv, OpenICMPInv, DetectInv, UnresolvedInv, ProbeHostInv, GateStepInv, AddGatewayInv,
     OpenHistoryInv, ReplayInv, SampleInv, OtherInv DEF Next

LEMMA InvCorrect == Spec => []IInv
  BY InitInv, NextInv, PTL DEF Spec

\* Every variable keeps its type: a file never has more names or records than it has
\* places for, and what is recorded is a sample of a host that is a target's
\* (daemon.go:47-82, history.go:52-54, 104-114).
THEOREM TypeCorrect == Spec => []TypeOK
  <1>1. IInv => TypeOK
    BY DEF IInv
  <1> QED BY <1>1, InvCorrect, PTL

\* Whichever check hosts there are, and however their lookups and probes fail, the
\* daemon starts only after one has answered, and is turned away only after none has
\* (connectivity.go:31-75).
THEOREM GateAdmitsTheHeard == Spec => []GateIsHonest
  <1>1. IInv => GateIsHonest
    BY DEF IInv, GateInv, GateIsHonest
  <1> QED BY <1>1, InvCorrect, PTL

\* On any networks, whichever readings fail and however often the host is carried on: a
\* snapshot has nothing in it but of the networks the host was in while it was made, and
\* nothing missing that could be read on all of them (netinfo.go:87-187).
THEOREM SnapshotsAreRight == Spec => []SnapshotIsRight
  <1>1. IInv => SnapshotIsRight
    BY DEF IInv, NetInv
  <1> QED BY <1>1, InvCorrect, PTL

(***************************************************************************)
(* What is shown is what is recorded.                                      *)
(***************************************************************************)

\* A target with a place in the table has one in the file.
LEMMA PlaceOf ==
  ASSUME IInv, pc \in {"register", "run"}, hist, NEW i \in DOMAIN targets, i <= MaxNames
  PROVE  Ids(targets[i].name) # {}
  <1> USE Sizes
  <1>1. targets \in Seq(Target) /\ file.names = NamesOf(targets)
    BY DEF IInv, TypeOK, TableInv, Table
  <1> DEFINE N == NamesOf(targets)
  <1>2. i \in 1 .. Len(targets) /\ Len(targets) \in Nat
    BY <1>1
  <1>3. i \in DOMAIN N /\ N[i] = targets[i].name
    <2>1. DOMAIN N = 1 .. Len(N) /\ Len(N) = (IF Len(targets) > MaxNames THEN MaxNames ELSE Len(targets))
          /\ \A k \in DOMAIN N : N[k] = targets[k].name
      BY <1>1, NamesType
    <2> HIDE DEF N
    <2>2. i \in 1 .. Len(N)
      BY <1>2, <2>1
    <2> QED BY <2>1, <2>2
  <1> QED BY <1>1, <1>3 DEF Ids

LEMMA ShownReplay ==
  ASSUME IInv, Replay
  PROVE  ShownIsRecorded'
  <1>1. UNCHANGED <<targets, hist, file>> /\ pc = "register"
    BY DEF Replay
  <1>2. SUFFICES ASSUME hist, NEW i \in DOMAIN targets
                 PROVE  LET n == targets[i].name
                        IN  IsSuffix(RecordsOf(n)', series'[n]) /\ RecordsOf(n)' = series'[n]
    BY <1>1 DEF ShownIsRecorded
  <1> DEFINE n == targets[i].name
  <1>3. n \in Name /\ n \in Registered
    BY TargetType DEF Registered
  <1>4. series'[n] = RecordsOf(n)
    BY <1>2, <1>3, ReplayInv
  <1>5. file \in File
    BY <1>1, <1>2 DEF IInv, TypeOK, TableInv
  <1>6. RecordsOf(n)' = RecordsOf(n) /\ RecordsOf(n) \in Seq(Host)
    BY <1>1, <1>5, RecordsAre, RecordsWillBe, RecordsType
  <1> HIDE DEF n
  <1>7. IsSuffix(RecordsOf(n), RecordsOf(n))
    BY <1>6, SuffixSelf
  <1> QED BY <1>4, <1>6, <1>7 DEF n

\* A suffix, and the whole but for what a full file has dropped: from one record to the
\* next.
LEMMA DropKeepsSuffix ==
  ASSUME NEW n, NEW f, NEW r, NEW t, Recording(t, f, r), NEW s \in Seq(Host),
         IsSuffix(RecordsIn(f, n), s), RecordsIn(f, n) # s => Len(file.recs) = FileCap
  PROVE  IsSuffix(RecordsIn(file', n), s) /\ (RecordsIn(file', n) # s => Len(file'.recs) = FileCap)
  <1> USE Sizes
  <1>1. f \in File /\ file' \in File /\ file \in File /\ f.recs # <<>> /\ f.recs = Append(file.recs, r)
        /\ file'.names = f.names
    BY DEF Recording, LongerBy
  <1>2. CASE file' = f /\ Len(f.recs) <= FileCap
    <2>1. Len(f.recs) = Len(file.recs) + 1 /\ Len(file.recs) \in Nat
      BY <1>1, FileType
    <2> QED BY <1>2, <2>1
  <1>3. CASE Len(f.recs) = FileCap + 1 /\ file'.recs = Tail(f.recs) /\ Len(file'.recs) = FileCap
    <2> DEFINE A == RecordsIn(f, n)
               B == RecordsIn(file', n)
    <2>1. A = B \/ \E h \in Host : A = <<h>> \o B
      BY <1>1, <1>3, RecordsTail
    <2>2. B \in Seq(Host)
      BY <1>1, RecordsType
    <2> HIDE DEF A, B
    <2>3. IsSuffix(A, s)
      BY DEF A
    <2>4. IsSuffix(B, s)
      <3>1. CASE A = B
        BY <2>3, <3>1
      <3>2. CASE \E h \in Host : A = <<h>> \o B
        <4>1. PICK h \in Host : A = <<h>> \o B
          BY <3>2
        <4> QED BY <2>2, <2>3, <4>1, SuffixTail
      <3> QED BY <2>1, <3>1, <3>2
    <2> QED BY <1>3, <2>4 DEF B
  <1> QED BY <1>2, <1>3 DEF Recording

LEMMA ShownSample ==
  ASSUME IInv, ShownIsRecorded, NEW j \in DOMAIN targets, Sample(targets[j])
  PROVE  ShownIsRecorded'
  <1> DEFINE t == targets[j]
  <1>1. /\ pc = "run" /\ series' = [series EXCEPT ![t.name] = Append(@, t.host)]
        /\ UNCHANGED <<pc, targets, hist>>
        /\ file' = IF hist /\ Ids(t.name) # {} THEN Recorded(t) ELSE file
    BY DEF Sample
  <1>2. SUFFICES ASSUME hist, NEW i \in DOMAIN targets, i <= MaxNames, NEW n, n = targets[i].name
                 PROVE  /\ IsSuffix(RecordsOf(n)', series'[n])
                        /\ RecordsOf(n)' # series'[n] => Len(file'.recs) = FileCap
    BY <1>1 DEF ShownIsRecorded
  <1> DEFINE s == series[n]
             u == series'[n]
  <1>3. n \in Name /\ t.name \in Name /\ t.host \in Host
    BY <1>2, TargetType
  <1>4. series \in [Name -> Seq(Host)] /\ s \in Seq(Host)
    BY <1>3 DEF IInv, TypeOK
  <1>5. u = IF n = t.name THEN Append(s, t.host) ELSE s
    <2> HIDE DEF t
    <2> QED BY <1>1, <1>3, <1>4
  <1>6. file \in File
    BY <1>1, <1>2 DEF IInv, TypeOK, TableInv
  <1>7. IsSuffix(RecordsOf(n), s) /\ (RecordsOf(n) # s => Len(file.recs) = FileCap)
    BY <1>1, <1>2 DEF ShownIsRecorded
  <1>8. RecordsOf(n) = RecordsIn(file, n) /\ RecordsIn(file, n) \in Seq(Host)
    BY <1>6, RecordsAre, RecordsType
  <1>9. CASE Ids(t.name) = {}
    <2>1. n # t.name
      BY <1>1, <1>2, <1>9, PlaceOf
    <2>2. file' = file /\ u = s
      BY <1>1, <1>5, <1>9, <2>1
    <2>3. RecordsOf(n)' = RecordsOf(n)
      BY <1>6, <1>8, <2>2, RecordsWillBe
    <2> QED BY <1>7, <2>2, <2>3
  <1>10. CASE Ids(t.name) # {}
    <2>1. PICK f, r : Recording(t, f, r)
      BY <1>2, <1>10, SampleGives
    <2>2. /\ f \in File /\ file' \in File /\ f.names = file.names /\ f.recs = Append(file.recs, r)
          /\ r.host = t.host /\ r.id \in DOMAIN file.names /\ file.names[r.id] = t.name
      BY <2>1 DEF Recording, LongerBy
    <2> DEFINE A == RecordsIn(file, n)
               B == RecordsIn(f, n)
    <2>3. B = IF n = t.name THEN Append(A, t.host) ELSE A
      <3> HIDE DEF t
      <3>1. RecordsIn(f, n) = IF r.id \in DOMAIN file.names /\ file.names[r.id] = n
                              THEN Append(RecordsIn(file, n), r.host) ELSE RecordsIn(file, n)
        BY <1>6, <2>2, RecordsAppend
      <3> QED BY <2>2, <3>1
    <2>4. A \in Seq(Host) /\ IsSuffix(A, s) /\ (A # s => Len(file.recs) = FileCap)
      BY <1>7, <1>8
    <2> HIDE DEF A, B, s, u, t
    <2>5. u \in Seq(Host)
      BY <1>3, <1>4, <1>5
    <2>6. IsSuffix(B, u) /\ (B # u => Len(file.recs) = FileCap)
      <3>1. CASE n = t.name
        <4>1. IsSuffix(Append(A, t.host), Append(s, t.host))
          BY <1>3, <1>4, <2>4, SuffixAppend
        <4> QED BY <1>5, <2>3, <2>4, <3>1, <4>1
      <3>2. CASE n # t.name
        BY <1>5, <2>3, <2>4, <3>2
      <3> QED BY <3>1, <3>2
    <2>7. IsSuffix(RecordsIn(file', n), u) /\ (RecordsIn(file', n) # u => Len(file'.recs) = FileCap)
      BY <2>1, <2>5, <2>6, DropKeepsSuffix DEF B
    <2>8. RecordsOf(n)' = RecordsIn(file', n)
      BY <2>2, RecordsWillBe
    <2> QED BY <2>7, <2>8 DEF u
  <1> QED BY <1>9, <1>10

LEMMA ShownNext == ShownInv /\ [Next]_vars => ShownInv'
  <1> SUFFICES ASSUME ShownInv, [Next]_vars PROVE ShownIsRecorded'
    BY NextInv DEF ShownInv
  <1>1. IInv /\ ShownIsRecorded
    BY DEF ShownInv
  <1>2. CASE Replay
    BY <1>1, <1>2, ShownReplay
  <1>3. CASE \E j \in DOMAIN targets : Sample(targets[j])
    BY <1>1, <1>3, ShownSample
  <1>4. CASE Refresh \/ Refreshing \/ Travel \/ UNCHANGED vars
    <2>1. UNCHANGED <<pc, hist, targets, file, series>>
      BY <1>4 DEF Refresh, Refreshing, Travel, vars, daemon
    <2>2. \A n : RecordsOf(n)' = RecordsOf(n)
      BY <2>1 DEF RecordsOf
    <2>3. SUFFICES ASSUME pc = "run", hist, NEW i \in DOMAIN targets, i <= MaxNames, NEW n, n = targets[i].name
                   PROVE  /\ IsSuffix(RecordsOf(n)', series'[n])
                          /\ RecordsOf(n)' # series'[n] => Len(file'.recs) = FileCap
      BY <2>1 DEF ShownIsRecorded
    <2> QED BY <1>1, <2>1, <2>2, <2>3 DEF ShownIsRecorded
  <1>5. CASE Launch \/ OpenICMP \/ Detect \/ Unresolved \/ ProbeHost \/ Gate \/ AddGateway \/ OpenHistory \/ Stop
    <2>1. pc' # "run"
      BY <1>5 DEF Launch, OpenICMP, Detect, Unresolved, ProbeHost, Gate, AddGateway, OpenHistory, Stop, Checking
    <2> QED BY <2>1 DEF ShownIsRecorded
  <1> QED BY <1>2, <1>3, <1>4, <1>5 DEF Next

\* Across any number of starts, edits and detections of the gateway: what is shown of a
\* target that has a place in the table is what a restart would show again, but for the
\* oldest samples, and those are missing only from a full file (daemon.go:47-82,
\* history.go:104-114).
THEOREM ShownIsKept == Spec => []ShownIsRecorded
  <1>1. Init => ShownInv
    BY InitInv DEF ShownInv, ShownIsRecorded, Init
  <1>2. ShownInv => ShownIsRecorded
    BY DEF ShownInv
  <1> QED BY <1>1, <1>2, ShownNext, PTL DEF Spec

(***************************************************************************)
(* A series is of its target's host.                                       *)
(***************************************************************************)

\* No target is named as the gateway is.
Plain(ts) == ts \in Seq(Target) /\ \A i \in DOMAIN ts : ts[i].name # GatewayName

LEMMA ConfiguredArePlain ==
  ASSUME NamesTell, NEW c \in Configs
  PROVE  Plain(c.targets)
  BY ConfigType DEF NamesTell, Plain

\* The names of the targets are those of the configured ones, and the gateway's.
LEMMA NamesWithGateway ==
  ASSUME NEW ts, Plain(ts), NEW g \in Gateways
  PROVE  LET N == NamesOf(ts \o g)
             M == NamesOf(ts)
         IN  /\ Len(N) \in Nat /\ Len(M) \in Nat /\ Len(M) <= Len(N) /\ DOMAIN N = 1 .. Len(N)
             /\ DOMAIN M = 1 .. Len(M) /\ M = [i \in 1 .. Len(M) |-> N[i]]
             /\ \A i \in 1 .. Len(N) : IF i <= Len(M) THEN i \in DOMAIN ts /\ N[i] = ts[i].name
                                       ELSE N[i] = GatewayName
             /\ \A i \in 1 .. Len(M) : N[i] # GatewayName
  <1> USE Sizes
  <1> DEFINE both == ts \o g
             N == NamesOf(both)
             M == NamesOf(ts)
             k == Len(ts)
             l == Len(g)
  <1>1. ts \in Seq(Target) /\ g \in Seq(Target) /\ l \in {0, 1} /\ k \in Nat
        /\ \A i \in DOMAIN g : i = 1 /\ g[i].name = GatewayName
    BY GatewaysType DEF Plain
  <1>2. both \in Seq(Target) /\ Len(both) = k + l /\ (\A i \in 1 .. k : both[i] = ts[i])
        /\ (\A i \in 1 .. k + l : i > k => i - k \in DOMAIN g /\ both[i] = g[i - k])
    BY <1>1
  <1>3. /\ DOMAIN N = 1 .. Len(N) /\ Len(N) = (IF k + l > MaxNames THEN MaxNames ELSE k + l)
        /\ \A i \in DOMAIN N : N[i] = both[i].name
    <2> HIDE DEF both, k, l
    <2> QED BY <1>2, NamesType
  <1>4. /\ M \in Seq(Name) /\ DOMAIN M = 1 .. Len(M) /\ Len(M) = (IF k > MaxNames THEN MaxNames ELSE k)
        /\ \A i \in DOMAIN M : M[i] = ts[i].name
    BY <1>1, NamesType
  <1>5. DOMAIN ts = 1 .. k
    BY <1>1
  <1>6. \A i \in 1 .. k : ts[i].name # GatewayName
    BY <1>5 DEF Plain
  <1> HIDE DEF N, M, both, k, l
  <1>7. Len(N) \in Nat /\ Len(M) \in Nat /\ Len(M) <= Len(N) /\ Len(M) <= k
    BY <1>1, <1>3, <1>4
  <1>8. ASSUME NEW i \in 1 .. Len(N), i <= Len(M)
        PROVE  i \in DOMAIN ts /\ N[i] = ts[i].name /\ i \in 1 .. Len(M)
    <2>1. i \in 1 .. k /\ i \in 1 .. Len(M)
      BY <1>1, <1>7, <1>8
    <2> QED BY <1>2, <1>3, <1>5, <2>1
  <1>9. ASSUME NEW i \in 1 .. Len(N), ~(i <= Len(M))
        PROVE  N[i] = GatewayName
    <2>1. i > k /\ i \in 1 .. k + l
      BY <1>1, <1>3, <1>4, <1>9
    <2>2. i - k \in DOMAIN g /\ N[i] = g[i - k].name
      BY <1>2, <1>3, <2>1
    <2> QED BY <1>1, <2>2
  <1>10. ASSUME NEW i \in 1 .. Len(M) PROVE N[i] # GatewayName /\ M[i] = N[i]
    <2>1. i \in 1 .. Len(N) /\ i \in 1 .. k /\ i <= Len(M)
      BY <1>1, <1>7
    <2> QED BY <1>4, <1>6, <1>8, <2>1
  <1>11. M = [i \in 1 .. Len(M) |-> N[i]]
    <2>1. M = [i \in 1 .. Len(M) |-> M[i]]
      BY <1>4
    <2> QED BY <1>10, <2>1
  <1>12. \A i \in 1 .. Len(N) : IF i <= Len(M) THEN i \in DOMAIN ts /\ N[i] = ts[i].name ELSE N[i] = GatewayName
    BY <1>8, <1>9
  <1> QED BY <1>3, <1>4, <1>7, <1>10, <1>11, <1>12 DEF N, M, both

\* So the table tells the names of the configured targets.
LEMMA TableTellsNames ==
  ASSUME NEW ts, NEW us, Plain(ts), Plain(us), NEW g \in Gateways, NEW h \in Gateways,
         NamesOf(ts \o g) = NamesOf(us \o h)
  PROVE  NamesOf(ts) = NamesOf(us)
  <1> DEFINE N == NamesOf(ts \o g)
             M == NamesOf(ts)
             O == NamesOf(us)
  <1>1. /\ Len(N) \in Nat /\ Len(M) \in Nat /\ Len(M) <= Len(N) /\ M = [i \in 1 .. Len(M) |-> N[i]]
        /\ \A i \in 1 .. Len(N) : ~(i <= Len(M)) => N[i] = GatewayName
        /\ \A i \in 1 .. Len(M) : N[i] # GatewayName
    BY NamesWithGateway
  <1>2. /\ Len(O) \in Nat /\ Len(O) <= Len(N) /\ O = [i \in 1 .. Len(O) |-> N[i]]
        /\ \A i \in 1 .. Len(N) : ~(i <= Len(O)) => N[i] = GatewayName
        /\ \A i \in 1 .. Len(O) : N[i] # GatewayName
    BY NamesWithGateway
  <1> HIDE DEF N, M, O
  <1>3. ~(Len(M) < Len(O))
    <2> SUFFICES ASSUME Len(M) < Len(O) PROVE FALSE
      OBVIOUS
    <2>1. Len(O) \in 1 .. Len(N) /\ Len(O) \in 1 .. Len(O) /\ ~(Len(O) <= Len(M))
      BY <1>1, <1>2
    <2> QED BY <1>1, <1>2, <2>1
  <1>4. ~(Len(O) < Len(M))
    <2> SUFFICES ASSUME Len(O) < Len(M) PROVE FALSE
      OBVIOUS
    <2>1. Len(M) \in 1 .. Len(N) /\ Len(M) \in 1 .. Len(M) /\ ~(Len(M) <= Len(O))
      BY <1>1, <1>2
    <2> QED BY <1>1, <1>2, <2>1
  <1>5. Len(M) = Len(O)
    <2> DEFINE a == Len(M)
               b == Len(O)
    <2>1. a \in Nat /\ b \in Nat /\ ~(a < b) /\ ~(b < a)
      BY <1>1, <1>2, <1>3, <1>4
    <2> HIDE DEF a, b
    <2>2. a = b
      BY <2>1
    <2> QED BY <2>2 DEF a, b
  <1> QED BY <1>1, <1>2, <1>5 DEF M, O

\* The records of a file, of a name that some target of the file's configuration has.
LEMMA RecordsOfHost ==
  ASSUME NamesTell, FileTells, TypeOK, TableInv, file # NoFile, NEW c \in Configs, NEW g \in Gateways,
         file.names = NamesOf(c.targets \o g), NEW i \in DOMAIN c.targets
  PROVE  \A k \in DOMAIN RecordsOf(c.targets[i].name) : RecordsOf(c.targets[i].name)[k] = c.targets[i].host
  <1> DEFINE n == c.targets[i].name
             P == Where(file, n)
             v == Hosts(file)
             m == Len(file.recs)
             ts == file.by.targets
  <1>1. file \in File /\ file.by \in Configs /\ m \in Nat /\ DOMAIN file.recs = 1 .. m
    <2>1. file \in File
      BY DEF TypeOK
    <2> QED BY <2>1, FileType
  <1>2. Plain(c.targets) /\ Plain(ts)
    BY <1>1, ConfiguredArePlain
  <1>3. PICK h \in Gateways : file.names = NamesOf(ts \o h)
    BY DEF FileTells
  <1>4. NamesOf(c.targets) = NamesOf(ts)
    <2> DEFINE cs == c.targets
    <2>1. Plain(cs) /\ Plain(ts) /\ NamesOf(cs \o g) = NamesOf(ts \o h)
      BY <1>2, <1>3
    <2> HIDE DEF cs, ts
    <2>2. NamesOf(cs) = NamesOf(ts)
      BY <2>1, TableTellsNames
    <2> QED BY <2>2 DEF cs
  <1>5. n # GatewayName
    BY <1>2 DEF Plain
  <1>6. ASSUME NEW k \in 1 .. m, k \in P PROVE v[k] = c.targets[i].host
    <2> DEFINE d == file.recs[k].id
    <2>1. d \in DOMAIN file.names /\ file.names[d] = n /\ v[k] = file.recs[k].host
      BY <1>6 DEF Where, Hosts
    <2>2. d \in DOMAIN ts /\ file.names[d] = ts[d].name
      <3> HIDE DEF d, ts, n
      <3>1. /\ DOMAIN file.names = 1 .. Len(file.names)
            /\ \A x \in 1 .. Len(file.names) :
                 IF x <= Len(NamesOf(ts)) THEN x \in DOMAIN ts /\ file.names[x] = ts[x].name
                 ELSE file.names[x] = GatewayName
        BY <1>2, <1>3, NamesWithGateway
      <3> QED BY <1>5, <2>1, <3>1
    <2>3. file.recs[k].host = ts[d].host
      BY <1>1, <1>6, <2>1, <2>2 DEF FileTells
    <2>4. c.targets[i].host = ts[d].host
      BY <1>1, <1>4, <2>1, <2>2 DEF NamesTell
    <2> QED BY <2>1, <2>3, <2>4
  <1>7. RecordsOf(n) = Kept(m, P, v)[m]
    BY <1>1, RecordsAre DEF RecordsIn
  <1> HIDE DEF m, P, v
  <1>8. \A k \in DOMAIN Kept(m, P, v)[m] : Kept(m, P, v)[m][k] = c.targets[i].host
    BY <1>1, <1>6, KeptOne
  <1> QED BY <1>7, <1>8

LEMMA HostReplay ==
  ASSUME NamesTell, HostInv, Replay
  PROVE  FileTells' /\ SeriesIsOfHost'
  <1>1. /\ pc = "register" /\ UNCHANGED <<file, cfg, targets, hist>> /\ IInv /\ FileTells
        /\ TypeOK /\ TableInv
    BY DEF Replay, HostInv, IInv
  <1>2. FileTells'
    BY <1>1 DEF FileTells
  <1>3. PICK g \in Gateways : targets = cfg.targets \o g
    BY <1>1 DEF TableInv
  <1>4. cfg \in Configs /\ cfg.targets \in Seq(Target) /\ g \in Seq(Target)
    BY <1>1, ConfigType, GatewaysType DEF TypeOK
  <1>5. ASSUME NEW i \in DOMAIN cfg.targets
        PROVE  \A k \in DOMAIN series'[cfg.targets[i].name] : series'[cfg.targets[i].name][k] = cfg.targets[i].host
    <2> DEFINE n == cfg.targets[i].name
    <2>1. n \in Name /\ n \in Registered
      <3>1. i \in DOMAIN targets /\ targets[i] = cfg.targets[i]
        BY <1>3, <1>4
      <3> QED BY <1>1, <3>1, TargetType DEF Registered
    <2>2. series'[n] = IF hist THEN RecordsOf(n) ELSE <<>>
      BY <1>1, <2>1, ReplayInv
    <2>3. CASE hist
      <3>1. file # NoFile /\ file.names = NamesOf(cfg.targets \o g)
        BY <1>1, <1>3, <2>3 DEF TableInv, Table
      <3>2. \A k \in DOMAIN RecordsOf(n) : RecordsOf(n)[k] = cfg.targets[i].host
        BY <1>1, <1>4, <3>1, RecordsOfHost
      <3> QED BY <2>2, <2>3, <3>2
    <2>4. CASE ~hist
      BY <2>2, <2>4
    <2> QED BY <2>3, <2>4
  <1>6. SeriesIsOfHost'
    BY <1>1, <1>5 DEF SeriesIsOfHost, OfHost
  <1> QED BY <1>2, <1>6

LEMMA HostSample ==
  ASSUME NamesTell, HostInv, NEW j \in DOMAIN targets, Sample(targets[j])
  PROVE  FileTells' /\ SeriesIsOfHost'
  <1> DEFINE t == targets[j]
  <1>1. /\ pc = "run" /\ UNCHANGED <<pc, cfg, targets, hist>> /\ IInv /\ FileTells /\ SeriesIsOfHost
        /\ TypeOK /\ TableInv
        /\ series' = [series EXCEPT ![t.name] = Append(@, t.host)]
        /\ file' = IF hist /\ Ids(t.name) # {} THEN Recorded(t) ELSE file
    BY DEF Sample, HostInv, IInv
  <1>2. PICK g \in Gateways : targets = cfg.targets \o g
    BY <1>1 DEF TableInv
  <1>3. cfg \in Configs /\ cfg.targets \in Seq(Target) /\ g \in Seq(Target) /\ t.name \in Name /\ t.host \in Host
    BY <1>1, ConfigType, GatewaysType, TargetType DEF TypeOK
  <1>4. t.name = GatewayName \/ \E i \in DOMAIN cfg.targets : t = cfg.targets[i]
    <2> DEFINE k == Len(cfg.targets)
    <2>1. k \in Nat /\ DOMAIN cfg.targets = 1 .. k /\ j \in 1 .. k + Len(g) /\ Len(g) \in Nat
      BY <1>2, <1>3
    <2>2. CASE j <= k
      BY <1>2, <1>3, <2>1, <2>2
    <2>3. CASE ~(j <= k)
      <3>1. j - k \in DOMAIN g /\ t = g[j - k]
        BY <1>2, <1>3, <2>1, <2>3
      <3> QED BY <3>1, GatewaysType
    <2> QED BY <2>2, <2>3
  <1>5. FileTells'
    <2>1. CASE ~(hist /\ Ids(t.name) # {})
      <3>1. file' = file
        BY <1>1, <2>1
      <3> QED BY <1>1, <3>1 DEF FileTells
    <2>2. CASE hist /\ Ids(t.name) # {}
      <3>1. PICK f, r : Recording(t, f, r)
        BY <1>1, <2>2, SampleGives
      <3> DEFINE q == file.recs
                 p == Append(q, r)
                 b == file.by
                 names == file.names
      <3>2. /\ file \in File /\ file'.names = names /\ file'.by = b /\ f.recs = p
            /\ r.host = t.host /\ names[r.id] = t.name
            /\ file' = f \/ file'.recs = Tail(f.recs)
        BY <3>1 DEF Recording, LongerBy
      <3>3. file # NoFile /\ b \in Configs /\ q \in Seq([id : 1 .. MaxNames, host : Host])
        BY <3>2, NoFileAssumption, FileType
      <3>4. \A i \in DOMAIN b.targets : b.targets[i].name = t.name => t.host = b.targets[i].host
        <4>1. Plain(b.targets)
          BY <3>3, ConfiguredArePlain
        <4>2. CASE t.name = GatewayName
          BY <4>1, <4>2 DEF Plain
        <4>3. CASE \E i \in DOMAIN cfg.targets : t = cfg.targets[i]
          <5>1. PICK h \in Gateways : names = NamesOf(b.targets \o h)
            BY <1>1, <3>3 DEF FileTells
          <5>2. names = NamesOf(cfg.targets \o g) /\ Plain(cfg.targets)
            BY <1>1, <1>2, <1>3, <2>2, ConfiguredArePlain DEF TableInv, Table
          <5>3. NamesOf(cfg.targets) = NamesOf(b.targets)
            <6> DEFINE cs == cfg.targets
                       bs == b.targets
            <6>1. Plain(cs) /\ Plain(bs) /\ NamesOf(cs \o g) = NamesOf(bs \o h)
              BY <4>1, <5>1, <5>2
            <6> HIDE DEF cs, bs
            <6>2. NamesOf(cs) = NamesOf(bs)
              BY <6>1, TableTellsNames
            <6> QED BY <6>2 DEF cs, bs
          <5> QED BY <1>3, <3>3, <4>3, <5>3 DEF NamesTell
        <4> QED BY <1>4, <4>2, <4>3
      <3> DEFINE Tells(x) == \A i \in DOMAIN b.targets : b.targets[i].name = names[x.id] => x.host = b.targets[i].host
      <3>5. (\E h \in Gateways : names = NamesOf(b.targets \o h)) /\ \A k \in DOMAIN q : Tells(q[k])
        BY <1>1, <3>3 DEF FileTells
      <3>6. Tells(r)
        BY <3>2, <3>4
      <3> HIDE DEF Tells, q
      <3>7. \A k \in 1 .. Len(q) + 1 : Tells(p[k])
        <4>1. \A k \in 1 .. Len(q) + 1 : p[k] = (IF k = Len(q) + 1 THEN r ELSE q[k]) /\ (k # Len(q) + 1 => k \in DOMAIN q)
          BY <3>3
        <4> QED BY <3>5, <3>6, <4>1
      <3>8. DOMAIN p = 1 .. Len(q) + 1 /\ DOMAIN Tail(p) = 1 .. Len(q)
            /\ \A k \in 1 .. Len(q) : Tail(p)[k] = p[k + 1] /\ k + 1 \in 1 .. Len(q) + 1
        BY <3>3
      <3> HIDE DEF p, b, names
      <3>9. \A k \in DOMAIN file'.recs : Tells(file'.recs[k])
        <4>1. CASE file' = f
          BY <3>2, <3>7, <3>8, <4>1
        <4>2. CASE file'.recs = Tail(f.recs)
          <5>1. file'.recs = Tail(p)
            BY <3>2, <4>2
          <5> QED BY <3>7, <3>8, <5>1
        <4> QED BY <3>2, <4>1, <4>2
      <3> QED BY <3>2, <3>5, <3>9 DEF FileTells, Tells
    <2> QED BY <2>1, <2>2
  <1>6. ASSUME NEW i \in DOMAIN cfg.targets
        PROVE  \A k \in DOMAIN series'[cfg.targets[i].name] : series'[cfg.targets[i].name][k] = cfg.targets[i].host
    <2> DEFINE n == cfg.targets[i].name
               s == series[n]
               h == cfg.targets[i].host
    <2>1. n \in Name /\ n # GatewayName
      <3>1. cfg.targets[i] \in Target
        BY <1>3
      <3> QED BY <1>3, <3>1, ConfiguredArePlain DEF Target, Plain
    <2>2. series \in [Name -> Seq(Host)] /\ s \in Seq(Host) /\ \A k \in DOMAIN s : s[k] = h
      BY <1>1, <2>1 DEF TypeOK, SeriesIsOfHost, OfHost
    <2>3. CASE n = t.name
      <3>1. t.host = h
        BY <1>3, <1>4, <2>1, <2>3 DEF NamesTell
      <3>2. series'[n] = Append(s, h)
        BY <1>1, <2>1, <2>2, <2>3, <3>1
      <3> HIDE DEF s, h
      <3>3. \A k \in DOMAIN Append(s, h) : Append(s, h)[k] = h
        <4>1. DOMAIN Append(s, h) = 1 .. Len(s) + 1
              /\ \A k \in 1 .. Len(s) + 1 : Append(s, h)[k] = (IF k = Len(s) + 1 THEN h ELSE s[k])
                                            /\ (k # Len(s) + 1 => k \in DOMAIN s)
          BY <2>2
        <4> QED BY <2>2, <4>1
      <3> QED BY <3>2, <3>3 DEF h
    <2>4. CASE n # t.name
      <3>1. series'[n] = s
        BY <1>1, <2>1, <2>2, <2>4
      <3> QED BY <2>2, <3>1
    <2> QED BY <2>3, <2>4
  <1>7. SeriesIsOfHost'
    <2>1. cfg' = cfg
      BY <1>1
    <2> QED BY <1>6, <2>1 DEF SeriesIsOfHost, OfHost
  <1> QED BY <1>5, <1>7

LEMMA HostNext ==
  ASSUME NamesTell
  PROVE  HostInv /\ [Next]_vars => HostInv'
  <1> SUFFICES ASSUME HostInv, [Next]_vars PROVE FileTells' /\ SeriesIsOfHost'
    BY NextInv DEF HostInv
  <1>1. IInv /\ FileTells /\ SeriesIsOfHost
    BY DEF HostInv
  <1>2. CASE Replay
    BY <1>2, HostReplay
  <1>3. CASE \E j \in DOMAIN targets : Sample(targets[j])
    BY <1>3, HostSample
  <1>4. CASE Refresh \/ Refreshing \/ Travel \/ UNCHANGED vars
    <2>1. UNCHANGED <<pc, cfg, file, series>>
      BY <1>4 DEF Refresh, Refreshing, Travel, vars, daemon
    <2> QED BY <1>1, <2>1 DEF SeriesIsOfHost, OfHost, FileTells
  <1>5. CASE OpenHistory
    <2>1. pc = "open" /\ pc' = "register" /\ UNCHANGED targets
      BY <1>5 DEF OpenHistory
    <2> DEFINE f == [names |-> Table, recs |-> <<>>, by |-> cfg]
    <2>2. file' = file \/ file' = f
      <3> HIDE DEF f
      <3> QED BY <1>5 DEF OpenHistory, f
    <2>3. CASE file' = file
      BY <1>1, <2>1, <2>3 DEF FileTells, SeriesIsOfHost
    <2>4. CASE file' = f
      <3>1. \E g \in Gateways : Table = NamesOf(cfg.targets \o g)
        BY <1>1, <2>1 DEF IInv, TableInv, Table
      <3>2. file'.names = Table /\ file'.recs = <<>> /\ file'.by = cfg
        BY <2>4
      <3> QED BY <2>1, <3>1, <3>2 DEF FileTells, SeriesIsOfHost
    <2> QED BY <2>2, <2>3, <2>4
  <1>6. CASE Launch \/ OpenICMP \/ Detect \/ Unresolved \/ ProbeHost \/ Gate \/ AddGateway \/ Stop
    <2>1. pc' # "run" /\ file' = file
      BY <1>6 DEF Launch, OpenICMP, Detect, Unresolved, ProbeHost, Gate, AddGateway, Stop, Checking, daemon
    <2> QED BY <1>1, <2>1 DEF FileTells, SeriesIsOfHost
  <1> QED BY <1>2, <1>3, <1>4, <1>5, <1>6 DEF Next

\* Where the names tell the configurations apart, a series of a configured target holds
\* samples of its host only: though targets come, go and change places between the
\* starts, the gateway is found by one start and not by another, and the file knows
\* only names (daemon.go:47-82, history.go:104-114).
THEOREM SeriesKeepsItsHost == ASSUME NamesTell PROVE Spec => []SeriesIsOfHost
  <1>1. Init => HostInv
    BY InitInv DEF HostInv, FileTells, SeriesIsOfHost, Init
  <1>2. HostInv => SeriesIsOfHost
    BY DEF HostInv
  <1>3. HostInv /\ [Next]_vars => HostInv'
    BY HostNext
  <1> QED BY <1>1, <1>2, <1>3, PTL DEF Spec
=============================================================================
