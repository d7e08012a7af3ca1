SPECIFICATION Spec
CONSTANTS
    Shares = {s1, s2}
    Clients = {c1}
    Monitor = Monitor
    Main = Main
    NoTask = NoTask
    NoShare = NoShare
    Absent = Absent
    Torn = Torn
    NoFile = NoFile
    Requests = {"mount"}
    NoPersist = {s1}
    Ephemeral = FALSE
    FirstPoints = {"health"}
    Ticking = FALSE
    SlowDisk = FALSE
    MaxPermits = 1
    MaxTries = 1
    MaxRestarts = 0
INVARIANT NoPersistStaysOffDisk
