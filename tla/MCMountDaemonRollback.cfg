SPECIFICATION Spec
CONSTANTS
    Shares = {s1}
    Clients = {c1}
    Monitor = Monitor
    Main = Main
    NoTask = NoTask
    NoShare = NoShare
    Absent = Absent
    Torn = Torn
    NoFile = NoFile
    Requests = {"mount", "mountDisabled", "unmount", "enable", "disable", "remove", "remount"}
    NoPersist = {}
    Ephemeral = FALSE
    FirstPoints = {"health"}
    Ticking = FALSE
    SlowDisk = FALSE
    MaxPermits = 1
    MaxTries = 1
    MaxRestarts = 0
PROPERTY RolledBack
