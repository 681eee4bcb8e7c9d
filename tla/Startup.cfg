\* A configuration that is edited between starts, on two networks.
SPECIFICATION Spec
CONSTANTS
    a = a
    b = b
    gw = gw
    h1 = h1
    h2 = h2
    r1 = r1
    r2 = r2
    home = home
    cafe = cafe
    modem = modem
    NoFile = NoFile
    Host <- Hosts
    Name <- Names
    GatewayName = gw
    Network <- Away
    Gateway <- GatewayOf
    Link <- LinkOf
    MaxMoves = 1
    Configs <- Edited
    Count = 2
    Blind = {"egress"}
    MaxNames = 2
    FileCap = 2
    MaxSamples = 2
    MaxStarts = 2
INVARIANTS TypeOK GateIsHonest ShownIsRecorded SeriesIsOfHost SnapshotIsRight
CHECK_DEADLOCK FALSE
