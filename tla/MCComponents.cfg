SPECIFICATION MCSpec
CONSTANTS
    Members = {1, 2, 3}
    MergeMounts = {m1}
    Contents = {c1, c2}
    Clock = {1, 2}
    MaxSync = 1
    StatePeers = {p1, p2}
    Appliers = {u1, u2}
    MaxVersion = 2
    MaxEntries = 2
    Hosts = {a, b}
    Processes = {cli, daemon}
    Uuids = {i1, i2}
    MergerId = unknown
    Addresses = {a1, a2}
    Remotes = {r1, r2}
    Commands = {j1, j2}
    MaxChanges = 3
    Targets = {t1}
    OptionKeys = {"soft", "hard", "ro", "rw", "exec", "x-gvfs-show"}
    MaxGiven = 2
    NamedHosts = {"h", "localhost"}
    Words = {"a", "b", "dev", "sh", ".."}
    MaxPath = 2
    MaxShares = 2
    GivenPoints = {"m"}
    InsideNodes = {"in1", "in2"}
    DangerousNodes = {"key"}
    SensitiveNodes = {"bin"}
    Plain = "plain"
    Missing = "missing"
    MaxDepth = 1
    MaxPathChanges = 1
    DirTimes = {1, 2}
    LogLimit = 2
    CredentialIds = {"a", "b"}
    EnvIds = {"b"}
    CredTasks = {k1, k2}
    KeyConfigs = {"own", "other"}
    MaxStored = 2
    HsmIds = {"a"}
    HsmTasks = {k1, k2}
    HsmPermits = 2
    MaxHsmStores = 3
    MaxTunings = 2
    Masters = {"u", "v"}
    Salts = {"s1", "p"}
    PoorSalts = {"p"}
    SealedMaps = {"c1"}
    SecureMessages = {m1, m2}
    Verifiers = {k1, k2}
    SecureSessions = {s1}
    SessionRate = 2
    MaxFrames = 3
    Operations = {"op"}
    Asked = {"Network"}
    MaxLoaded = 2
    MaxLogged = 1
    DataFiles = {"data"}
    FileContents = {1, 2}
    MaxMapped = 2
    Protecting = {k1, k2}
    MaxEvents = 2
    ListLimit = 1
    MaxSnapshots = 2
    AuthThreshold = 2
    MaxProcessed = 3
    Pids = {1, 2}
    Sandboxes = {b1}
    Asks = {"mounts", "root", "network", "uid", "gid"}
    Savers = {s1, s2}
    Valid = {v1, v2}
    Invalid = {bad}
    Missing0 = nofile
    Partial = partial
    MaxSecond = 1
    HistoryLimit = 2
    HistoryTrim = 1
    Packages = {p1}
    UpdateTasks = {k1, k2}
    MaxCreations = 2
    Enforcers = {u1, u2}
INVARIANTS ComponentTypes MergeIsSound SpeakerStaysHealthy DistinctIds ServerLeavesNothing NothingLostApart
    MountsStand SecretsStand SocketStands  WatchersStand SomeoneGoesOn MovedOnce FileIsLastSave
PROPERTIES VersionFallsOnlyOnStaleRead
VIEW Moving
CHECK_DEADLOCK FALSE
