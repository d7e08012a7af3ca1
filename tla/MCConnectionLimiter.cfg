SPECIFICATION Spec
CONSTANTS
    Peers = {p1, p2}
    Conns = {k1, k2, k3, k4}
    MaxConnections = 3
    PerClientMax = 2
    RateMax = 3
    RateWindow = 1
    ConnTimeout = 1
    IdleTimeout = 2
SYMMETRY Symmetry
INVARIANTS TypeOK NoPermitLost ClientsBounded MetricsClose
CHECK_DEADLOCK FALSE
