------------------------------ MODULE Startup ------------------------------
(***************************************************************************)
(* How the daemon starts: configuration, detection of the network and the  *)
(* connectivity gate (internal/app/commands.go, internal/connectivity),    *)
(* then startDaemon (internal/app/daemon.go), which adds the default       *)
(* gateway to the targets, opens the history, registers the targets and    *)
(* replays.  Starts follow one another: between them the user edits the    *)
(* configuration and the host moves to other networks, while the file      *)
(* stays.                                                                  *)
(*                                                                         *)
(* A sample is the host it was measured at; hosts are addresses, so every  *)
(* lookup of a worker succeeds.  The file is that of HistoryRing without   *)
(* its faults and its queue: names, and records with an index into them,   *)
(* the last FileCap of which are kept.  How the daemon stops is in         *)
(* DaemonStop.                                                             *)
(***************************************************************************)
EXTENDS NetSnapshot, SequencesExt

CONSTANTS
    Host,          \* addresses of targets, check hosts and routers
    Name,          \* display names
    GatewayName,   \* "Default gateway"
    Configs,       \* configurations the user may write
    Count,         \* connectivity.count
    MaxNames,      \* maxNames of the history, 63 in the code
    FileCap,       \* records the file holds
    NoFile,        \* a model value: there is no file
    MaxSamples,    \* bound: samples of each process
    MaxStarts      \* bound: starts

Target == [name : Name, host : Host]
Config == [targets : Seq(Target), checks : Seq(Host), gateway : BOOLEAN, history : BOOLEAN]

ASSUME StartupAssumption ==
    /\ Configs \subseteq Config /\ GatewayName \in Name
    /\ \A n \in Network : Gateway[n] \in Host \cup {NoHost}
    /\ {Count, MaxNames, FileCap} \subseteq Nat \ {0}
    /\ {MaxSamples, MaxStarts} \subseteq Nat

Fresh  == [sent |-> 0, recv |-> 0, err |-> FALSE]

VARIABLES
    pc,        \* where runDaemon is
    exit,      \* how the last process ended
    cfg,       \* e.cfg, without the gateway
    icmp,      \* openICMP succeeded
    results,   \* the results of the check hosts so far
    probing,   \* the result of the one being probed
    heard,     \* some check host has answered this process
    targets,   \* e.cfg.Targets
    hist,      \* the history is open
    file,      \* the history file; by is the configuration it was begun with
    series,    \* series[n]: the samples of the store, oldest first
    taken,     \* samples of this process
    starts

gate    == <<results, probing, heard>>
daemon  == <<targets, hist, file, series, taken>>
environ == <<net, moves, step, part, ni>>
vars    == <<environ, pc, exit, cfg, icmp, results, probing, heard,
             targets, hist, file, series, taken, starts>>

----------------------------------------------------------------------------
(* Configuration and detection.                                            *)

\* Validate: the errors that depend on what is modelled.
Valid(c) == c.targets # <<>> \/ c.checks # <<>>

\* setup: a configuration that is not valid ends the process.
Launch ==
    /\ pc = "off" /\ starts < MaxStarts
    /\ starts' = starts + 1
    /\ \E c \in Configs :
         /\ cfg' = c
         /\ \/ Valid(c) /\ pc' = "icmp" /\ exit' = "none"
            \/ ~Valid(c) /\ pc' = pc /\ exit' = "invalid"
    /\ heard' = FALSE /\ results' = <<>> /\ probing' = Fresh
    /\ taken' = 0 /\ series' = [n \in Name |-> <<>>] /\ targets' = <<>> /\ hist' = FALSE
    /\ step' = "idle" /\ part' = Blank /\ ni' = Blank
    /\ UNCHANGED <<net, moves, icmp, file>>

\* A collection begins.
Begin == step' = "route" /\ part' = Begun /\ UNCHANGED <<net, moves, ni>>

OpenICMP ==
    /\ pc = "icmp" /\ pc' = "detect"
    /\ icmp' \in BOOLEAN
    /\ Begin
    /\ UNCHANGED <<exit, cfg, gate, daemon, starts>>

\* collectNetInfo, step by step.  Without ICMP there is no gate.
Detect ==
    /\ pc = "detect" /\ Collect
    /\ pc' = IF step' # "idle" THEN pc ELSE IF icmp THEN "check" ELSE "gateway"
    /\ UNCHANGED <<exit, cfg, icmp, gate, daemon, starts>>

----------------------------------------------------------------------------
(* The gate.                                                               *)

Checking == pc = "check" /\ Len(results) < Len(cfg.checks)

\* resolveIPv4 fails: the host is not probed.
Unresolved ==
    /\ Checking /\ probing = Fresh
    /\ results' = Append(results, [Fresh EXCEPT !.err = TRUE])
    /\ UNCHANGED <<environ, pc, exit, cfg, icmp, probing, heard, daemon, starts>>

\* One probe of a host: an answer, silence, or an error, which is remembered
\* though others may answer.
ProbeHost ==
    /\ Checking
    /\ \E o \in {"reply", "silent", "error"} :
         LET hr == [sent |-> probing.sent + 1,
                    recv |-> probing.recv + (IF o = "reply" THEN 1 ELSE 0),
                    err  |-> probing.err \/ o = "error"]
         IN  /\ heard' = (heard \/ o = "reply")
             /\ \/ hr.sent < Count /\ probing' = hr /\ UNCHANGED results
                \/ hr.sent = Count /\ probing' = Fresh /\ results' = Append(results, hr)
    /\ UNCHANGED <<environ, pc, exit, cfg, icmp, daemon, starts>>

\* Mutant of Passed: a host must not have had an error.
PassedClean == \E i \in DOMAIN results : results[i].recv > 0 /\ ~results[i].err

\* Check: some host is OK.
Passed == \E i \in DOMAIN results : results[i].recv > 0

Gate ==
    /\ pc = "check" /\ Len(results) = Len(cfg.checks)
    /\ \/ Passed /\ pc' = "gateway" /\ UNCHANGED exit
       \/ ~Passed /\ pc' = "off" /\ exit' = "gate"
    /\ results' = <<>>
    /\ UNCHANGED <<environ, cfg, icmp, probing, heard, daemon, starts>>

----------------------------------------------------------------------------
(* startDaemon.                                                            *)

\* gatewayTarget: none if no gateway was found, or a target has its host.
GatewayTarget ==
    IF ni.gw = NoHost \/ \E i \in DOMAIN cfg.targets : cfg.targets[i].host = ni.gw THEN <<>>
    ELSE <<[name |-> GatewayName, host |-> ni.gw]>>

AddGateway ==
    /\ pc = "gateway" /\ pc' = "open"
    /\ targets' = cfg.targets \o (IF cfg.gateway THEN GatewayTarget ELSE <<>>)
    /\ UNCHANGED <<environ, exit, cfg, icmp, gate, hist, file, series, taken, starts>>

\* Mutant of NamesOf: not cut.
NamesOfAll(ts) == [i \in DOMAIN ts |-> ts[i].name]

\* The names, cut to maxNames.
NamesOf(ts) == [i \in 1 .. (IF Len(ts) > MaxNames THEN MaxNames ELSE Len(ts)) |-> ts[i].name]

\* Mutant of Table: the gateway is left out.
TableConfigured == NamesOf(cfg.targets)

\* The names the history is opened with.
Table == NamesOf(targets)

\* Mutant of Reusable: any file will do.
ReusableAny == file # NoFile

Reusable == file # NoFile /\ file.names = Table

\* history.Open: the file is begun anew unless it has this very table; without a
\* history the daemon goes on.
OpenHistory ==
    /\ pc = "open" /\ pc' = "register"
    /\ \/ hist' = FALSE /\ UNCHANGED file
       \/ /\ cfg.history /\ hist' = TRUE
          /\ file' = IF Reusable THEN file ELSE [names |-> Table, recs |-> <<>>, by |-> cfg]
    /\ UNCHANGED <<environ, exit, cfg, icmp, gate, targets, series, taken, starts>>

Registered == {targets[i].name : i \in DOMAIN targets}

\* The records of a name, as hosts.
RecordsOf(n) ==
    LET recs == file.recs
        Named(r) == r.id \in DOMAIN file.names /\ file.names[r.id] = n
        kept[k \in 0 .. Len(recs)] ==
            IF k = 0 THEN <<>>
            ELSE IF Named(recs[k]) THEN Append(kept[k - 1], recs[k].host) ELSE kept[k - 1]
    IN  kept[Len(recs)]

\* prober.New registers the targets, the history is replayed into them, and the
\* workers are started.
Replay ==
    /\ pc = "register" /\ pc' = "run"
    /\ series' = [n \in Name |-> IF hist /\ n \in Registered THEN RecordsOf(n) ELSE <<>>]
    /\ UNCHANGED <<environ, exit, cfg, icmp, gate, targets, hist, file, taken, starts>>

Ids(n) == {i \in DOMAIN file.names : file.names[i] = n}

Recorded(t) ==
    LET recs == Append(file.recs, [id |-> Max(Ids(t.name)), host |-> t.host])
        k    == Len(recs)
    IN  [file EXCEPT !.recs = IF k > FileCap THEN Tail(recs) ELSE recs]

\* A ping worker's sample, shown and recorded; without a place in the table it
\* is not recorded.  A worker opens a socket of its own, whatever came of e's.
Sample(t) ==
    /\ pc = "run" /\ taken < MaxSamples
    /\ taken' = taken + 1
    /\ series' = [series EXCEPT ![t.name] = Append(@, t.host)]
    /\ file' = IF hist /\ Ids(t.name) # {} THEN Recorded(t) ELSE file
    /\ UNCHANGED <<environ, pc, exit, cfg, icmp, gate, targets, hist, starts>>

\* envRefresher: a tick.  The snapshot follows the network; the targets do not.
Refresh ==
    /\ pc = "run" /\ step = "idle"
    /\ Begin
    /\ UNCHANGED <<pc, exit, cfg, icmp, gate, daemon, starts>>

Refreshing ==
    /\ pc = "run" /\ Collect
    /\ UNCHANGED <<pc, exit, cfg, icmp, gate, daemon, starts>>

----------------------------------------------------------------------------

Travel == Move /\ UNCHANGED <<pc, exit, cfg, icmp, gate, daemon, starts>>

\* A stop once the root context is there; a signal before that, or a kill.
Stop ==
    /\ pc # "off" /\ pc' = "off"
    /\ \/ pc = "run" /\ exit' = "stopped"
       \/ exit' = "killed"
    /\ step' = "idle" /\ part' = Blank /\ ni' = Blank
    /\ UNCHANGED <<net, moves, cfg, icmp, gate, daemon, starts>>

Init ==
    /\ NetInit
    /\ pc = "off" /\ exit = "none" /\ cfg \in Configs /\ icmp = FALSE
    /\ results = <<>> /\ probing = Fresh /\ heard = FALSE
    /\ targets = <<>> /\ hist = FALSE /\ file = NoFile
    /\ series = [n \in Name |-> <<>>] /\ taken = 0 /\ starts = 0

Next ==
    \/ Launch \/ OpenICMP \/ Detect \/ Unresolved \/ ProbeHost \/ Gate
    \/ AddGateway \/ OpenHistory \/ Replay \/ Refresh \/ Refreshing \/ Travel \/ Stop
    \/ \E i \in DOMAIN targets : Sample(targets[i])

Spec == Init /\ [][Next]_vars

----------------------------------------------------------------------------
(* Properties.                                                             *)

Result == [sent : 0 .. Count, recv : 0 .. Count, err : BOOLEAN]
File   == [names : Seq(Name), recs : Seq([id : 1 .. MaxNames, host : Host]), by : Configs]

ASSUME NoFileAssumption == NoFile \notin File

TypeOK ==
    /\ pc \in {"off", "icmp", "detect", "check", "gateway", "open", "register", "run"}
    /\ exit \in {"none", "invalid", "gate", "stopped", "killed"}
    /\ NetTypeOK /\ cfg \in Configs /\ icmp \in BOOLEAN
    /\ results \in Seq(Result) /\ Len(results) <= Len(cfg.checks)
    /\ probing \in Result /\ heard \in BOOLEAN
    /\ targets \in Seq(Target) /\ hist \in BOOLEAN /\ file \in File \cup {NoFile}
    /\ file # NoFile => Len(file.recs) <= FileCap /\ Len(file.names) <= MaxNames
    /\ series \in [Name -> Seq(Host)] /\ taken \in 0 .. MaxSamples /\ starts \in 0 .. MaxStarts

Started == {"gateway", "open", "register", "run"}

\* The gate lets the daemon start if some host has answered some probe, whatever
\* failed besides, and turns it away only if none has (connectivity.go:31-75,
\* PLAN.md:50-56).
GateIsHonest ==
    /\ pc \in Started /\ icmp => heard
    /\ exit = "gate" => ~heard

\* What is shown of a target that has a place in the table, the detected gateway
\* included, is what a restart would show again, but for what a full file has
\* dropped (daemon.go:47-82).
ShownIsRecorded ==
    pc = "run" /\ hist =>
        \A i \in DOMAIN targets : i <= MaxNames =>
            LET n == targets[i].name
            IN  /\ IsSuffix(RecordsOf(n), series[n])
                /\ RecordsOf(n) # series[n] => Len(file.recs) = FileCap

\* Every sample of the target's series was measured at its host.
OfHost(t) == \A k \in DOMAIN series[t.name] : series[t.name][k] = t.host

\* A series of a configured target holds samples of its host only, though targets
\* come, go and change places between the starts and the gateway is found by one
\* and not by another (daemon.go:47-82, history.go:104-114).  This asks that no
\* edit gives other hosts to the very same names: the file knows only names.
SeriesIsOfHost == pc = "run" => \A i \in DOMAIN cfg.targets : OfHost(cfg.targets[i])

\* So does the series of the default gateway (daemon.go:129-130).
GatewaySeriesIsOfHost ==
    pc = "run" => \A i \in DOMAIN targets : targets[i].name = GatewayName => OfHost(targets[i])

\* Graphs survive restarts: with the configuration it was begun with, the
\* history is kept (PLAN.md:460-461, README.md:167-169).
RestartKeepsHistory ==
    [][pc = "open" /\ pc' = "register" /\ hist' /\ file # NoFile /\ file.by = cfg
         => file'.recs = file.recs]_vars
=============================================================================
