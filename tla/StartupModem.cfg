\* A default route without a gateway.
SPECIFICATION Spec
CONSTANTS
    a = a
    b = b
    gw = gw
    h1 = h1
    h2 = h2
    r1 = r1
    r2 = r2
    home = home
    cafe = cafe
    modem = modem
    NoFile = NoFile
    Host <- Hosts
    Name <- Names
    GatewayName = gw
    Network <- Dialup
    Gateway <- GatewayOf
    Link <- LinkOf
    MaxMoves = 1
    Configs <- Same
    Count = 2
    Blind = {}
    MaxNames = 2
    FileCap = 2
    MaxSamples = 2
    MaxStarts = 1
INVARIANT RouteIsAgreed
CHECK_DEADLOCK FALSE
