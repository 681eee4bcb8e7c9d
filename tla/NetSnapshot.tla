---------------------------- MODULE NetSnapshot ----------------------------
(***************************************************************************)
(* Detection of the local network: Collect of internal/netinfo on Linux.   *)
(* It asks the system for one thing after another, each of which may fail  *)
(* by itself, while the host may be carried to another network; then the   *)
(* snapshot is put where the targets, the metrics and the web API find it. *)
(* Startup says when it is called.                                         *)
(*                                                                         *)
(* A network stands for what identifies it: the address it gives to the    *)
(* host and the hardware address of its router.  The neighbour table is    *)
(* the system's: it may hold any router with the address that is looked    *)
(* up, and the ping before it is only time that passes.  The list of       *)
(* interfaces is left out.                                                 *)
(***************************************************************************)
EXTENDS Integers

CONSTANTS
    Network,       \* networks the host may be in
    Gateway,       \* Gateway[n]: the address of its router, if its default route has one
    Link,          \* Link[n]: the interface of its default route, if there is one
    Blind,         \* the steps of Collect whose readings may fail
    MaxMoves       \* bound: moves to another network

NoHost == "no host"
NoLink == "no link"
NoNet  == "no network"

ASSUME NetAssumption ==
    /\ Blind \subseteq {"route", "egress", "link", "hw", "table"} /\ MaxMoves \in Nat
    /\ NoNet \notin Network
    /\ \A n \in Network : Gateway[n] # NoHost => Link[n] # NoLink

VARIABLES
    net,           \* the network of the host
    moves,
    step,          \* where Collect is, "idle" if it is not running
    part,          \* the snapshot being made; seen is for the properties: the
                   \* networks the host has been in since its beginning
    ni             \* d.ni, the last snapshot

\* Nothing is known.
Blank == [gw |-> NoHost, iface |-> NoLink, ip |-> NoNet, link |-> FALSE, hw |-> FALSE,
          table |-> FALSE, mac |-> NoNet, seen |-> {}]

\* Mutant of Begun: the last snapshot is brought up to date.
BegunKept == [ni EXCEPT !.seen = {net}]

\* A new snapshot.
Begun == [Blank EXCEPT !.seen = {net}]

Readable(s) == IF s \in Blind THEN BOOLEAN ELSE {TRUE}

\* The steps of Collect: at s, the fields become those of x, if the reading succeeds.
Reads(s, t, x) ==
    /\ step = s /\ step' = t
    /\ \E ok \in Readable(s) : part' = IF ok THEN x ELSE part

\* platformDefaultRoute: a default route without a gateway is an error, and its
\* interface is not kept.
ReadRoute ==
    Reads("route", "egress",
          IF Gateway[net] = NoHost THEN part
          ELSE [part EXCEPT !.gw = Gateway[net], !.iface = Link[net]])

\* egressIP: the address the host would send from to that gateway, by now.
ReadEgress ==
    Reads("egress", "link",
          IF part.gw = NoHost \/ Link[net] = NoLink THEN part ELSE [part EXCEPT !.ip = net])

\* A step that asks for something of the interface, if that is still there.
ReadsOfIface(s, t, x) ==
    \E there \in {part.iface = Link[net], TRUE} :
        Reads(s, t, IF part.iface # NoLink /\ there THEN x ELSE part)

\* platformLinkType, and ifaceMAC.
ReadLink == ReadsOfIface("link", "hw", [part EXCEPT !.link = TRUE])
ReadHW   == ReadsOfIface("hw", "table", [part EXCEPT !.hw = TRUE])

\* platformRoutingTable: is there a default route in it?
ReadTable == Reads("table", "arp", [part EXCEPT !.table = Link[net] # NoLink])

Routers(ip) == {n \in Network : ip # NoHost /\ Gateway[n] = ip}

\* platformARPTable and lookupMAC; the snapshot is complete.
ReadARP ==
    /\ step = "arp" /\ step' = "idle"
    /\ \E m \in Routers(part.gw) \cup {NoNet} : ni' = [part EXCEPT !.mac = m]
    /\ part' = Blank

Reading == /\ ReadRoute \/ ReadEgress \/ ReadLink \/ ReadHW \/ ReadTable
           /\ UNCHANGED ni

\* One step of a collection.
Collect == (Reading \/ ReadARP) /\ UNCHANGED <<net, moves>>

\* The host is carried to another network.
Move ==
    /\ moves < MaxMoves /\ moves' = moves + 1
    /\ net' \in Network \ {net}
    /\ part' = IF step = "idle" THEN part ELSE [part EXCEPT !.seen = @ \cup {net'}]
    /\ UNCHANGED <<step, ni>>

NetInit ==
    /\ net \in Network /\ moves = 0 /\ step = "idle"
    /\ part = Blank /\ ni = Blank

----------------------------------------------------------------------------
(* Properties.                                                             *)

Snapshot ==
    [gw : {Gateway[n] : n \in Network} \cup {NoHost}, iface : {Link[n] : n \in Network} \cup {NoLink},
     ip : Network \cup {NoNet}, link : BOOLEAN, hw : BOOLEAN, table : BOOLEAN,
     mac : Network \cup {NoNet}, seen : SUBSET Network]

NetTypeOK ==
    /\ net \in Network /\ moves \in 0 .. MaxMoves
    /\ step \in {"idle", "route", "egress", "link", "hw", "table", "arp"}
    /\ part \in Snapshot /\ ni \in Snapshot

\* Gateway and interface are of one network the host was in.
RouteIsRight(s) ==
    /\ \E n \in s.seen :
         /\ s.gw \in {Gateway[n], NoHost} /\ ("route" \notin Blind => s.gw = Gateway[n])
         /\ s.gw # NoHost => s.iface = Link[n]
    /\ s.gw = NoHost => s.iface = NoLink

AddressIsRight(s) ==
    /\ s.ip \in s.seen \cup {NoNet}
    /\ s.gw = NoHost => s.ip = NoNet
    /\ s.gw # NoHost /\ s.ip = NoNet =>
         "egress" \in Blind \/ \E n \in s.seen : Link[n] = NoLink

\* What is asked of the interface, by a reading, is missing only if the reading may
\* fail or the interface may have been gone.
IfaceIsRight(s, found, reading) ==
    /\ found => s.iface # NoLink
    /\ s.iface # NoLink /\ ~found =>
         reading \in Blind \/ \E n \in s.seen : Link[n] # s.iface

TableIsRight(s) ==
    /\ s.table => \E n \in s.seen : Link[n] # NoLink
    /\ ~s.table => "table" \in Blind \/ \E n \in s.seen : Link[n] = NoLink

Right(s) ==
    /\ RouteIsRight(s) /\ AddressIsRight(s) /\ TableIsRight(s)
    /\ IfaceIsRight(s, s.link, "link") /\ IfaceIsRight(s, s.hw, "hw")
    /\ s.mac \in Routers(s.gw) \cup {NoNet}

\* A snapshot holds nothing that is not of a network the host was in while it was
\* made, though the host may be carried on between any two readings: gateway and
\* interface are of one network, the fields that hang on them are found only with
\* them, and a reading that fails takes no other field with it.  Of a host that
\* stayed where it was, all of it is of that one network (netinfo.go:87-187).
SnapshotIsRight == ni # Blank => Right(ni)

\* The web API and the metrics agree on whether there is a default route
\* (api.go:94; collectors.go:123-131).
RouteIsAgreed == ni.gw # NoHost <=> ni.table

=============================================================================
