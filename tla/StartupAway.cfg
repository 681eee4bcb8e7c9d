\* The host moves to another network between two starts, or the host of a target is
\* edited and its name is not: the old samples are shown under the new host (the
\* tool's -continue shows both).
SPECIFICATION Spec
CONSTANTS
    a = a
    b = b
    gw = gw
    h1 = h1
    h2 = h2
    r1 = r1
    r2 = r2
    home = home
    cafe = cafe
    modem = modem
    NoFile = NoFile
    Host <- Hosts
    Name <- Names
    GatewayName = gw
    Network <- Away
    Gateway <- GatewayOf
    Link <- LinkOf
    MaxMoves = 2
    Configs <- Rehosted
    Count = 2
    Blind = {}
    MaxNames = 2
    FileCap = 2
    MaxSamples = 2
    MaxStarts = 3
INVARIANTS SeriesIsOfHost GatewaySeriesIsOfHost
CHECK_DEADLOCK FALSE
