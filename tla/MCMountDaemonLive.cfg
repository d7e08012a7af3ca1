SPECIFICATION FairSpec
CONSTANTS
    Shares = {s1}
    Clients = {c1}
    Monitor = Monitor
    Main = Main
    NoTask = NoTask
    NoShare = NoShare
    Absent = Absent
    Torn = Torn
    NoFile = NoFile
    Requests = {"mount", "disable", "enable"}
    NoPersist = {}
    Ephemeral = FALSE
    FirstPoints = {"health"}
    Ticking = TRUE
    SlowDisk = FALSE
    MaxPermits = 1
    MaxTries = 1
    MaxRestarts = 0
PROPERTIES LockGranted FailedIsRetried
