SPECIFICATION FairSpec
CONSTANTS
    Peers = {p1}
    Conns = {k1, k2}
    MaxConnections = 2
    PerClientMax = 1
    RateMax = 2
    RateWindow = 1
    ConnTimeout = 1
    IdleTimeout = 2
PROPERTY ServerGoesOn
CHECK_DEADLOCK FALSE
