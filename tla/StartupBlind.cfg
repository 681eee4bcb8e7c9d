\* The gateway is found by one start and not by the next.
SPECIFICATION Spec
CONSTANTS
    a = a
    b = b
    gw = gw
    h1 = h1
    h2 = h2
    r1 = r1
    r2 = r2
    home = home
    cafe = cafe
    modem = modem
    NoFile = NoFile
    Host <- Hosts
    Name <- Names
    GatewayName = gw
    Network <- Home
    Gateway <- GatewayOf
    Link <- LinkOf
    MaxMoves = 0
    Configs <- Same
    Count = 2
    Blind = {"route"}
    MaxNames = 2
    FileCap = 2
    MaxSamples = 2
    MaxStarts = 3
PROPERTY RestartKeepsHistory
CHECK_DEADLOCK FALSE
