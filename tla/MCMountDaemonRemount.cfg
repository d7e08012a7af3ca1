SPECIFICATION FairSpec
CONSTANTS
    Shares = {s1}
    Clients = {c1}
    Monitor = Monitor
    Main = Main
    NoTask = NoTask
    NoShare = NoShare
    Absent = Absent
    Torn = Torn
    NoFile = NoFile
    Requests = {"mount"}
    NoPersist = {}
    Ephemeral = FALSE
    FirstPoints = {"boot"}
    Ticking = TRUE
    SlowDisk = FALSE
    MaxPermits = 1
    MaxTries = 1
    MaxRestarts = 1
PROPERTY RemountedAfterRestart
