SPECIFICATION MCSpec
CONSTANTS
    SyncPeers = {p1, p2}
    Periodic = {s1}
    Forced = {f1, f2}
    Callers = {c1, c2}
    MaxAttempts = 2
    OpenTimeout = 2
    Movers = {k1, k2}
    MaxHistory = 2
    Shares = {a, b, c}
    NoShare = none
    MaxEdges = 4
    Watched = {w1, w2}
    Jobs = {j1, j2}
    NoWatch = nowatch
    NoJob = nojob
    LockUsers = {u1, u2}
    BackupTasks = {k1, k2}
    MaxVersions = 1
    MaxBackups = 4
    Loggers = {l1, l2}
    MaxEvents = 3
    BufferSize = 2
    FileSize = 1
    BackupCount = 2
    EventTypes = {e1, e2}
    Rules = {r1}
    MaxSeen = 3
    RuleBuffer = 2
    Threshold = 2
    Sources = {x1, x2}
    AlertTypes = {1}
    AlertThreshold = 2
    Window = 2
    Cooldown = 2
    PerEvent = 1
    HistorySize = 4
    MaxTime = 2
    MaxReceived = 4
INVARIANTS ServiceTypes SyncsAreWhole OverrunIsBounded SoundUntilRenumbered RegistryMatchesJobs LostOnlyToReader
    RetentionHolds LogStands AlarmsStand
PROPERTIES SyncEndsUnlessMerging CallEnds ForbiddenStepNeedsOverlap AddEnds
CHECK_DEADLOCK FALSE
