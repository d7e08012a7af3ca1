SPECIFICATION SyncSpec
CONSTANTS
    SyncPeers = {p1, p2}
    Periodic = {s1}
    Forced = {}
PROPERTY SyncEnds
CHECK_DEADLOCK FALSE
