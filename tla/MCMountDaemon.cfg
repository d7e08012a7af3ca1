SPECIFICATION Spec
CONSTANTS
    Shares = {s1}
    Clients = {c1, c2}
    Monitor = Monitor
    Main = Main
    NoTask = NoTask
    NoShare = NoShare
    Absent = Absent
    Torn = Torn
    NoFile = NoFile
    Requests = {"mount", "mountDisabled", "unmount", "enable", "disable", "remove", "remount"}
    NoPersist = {}
    Ephemeral = FALSE
    FirstPoints = {"health"}
    Ticking = FALSE
    SlowDisk = TRUE
    MaxPermits = 1
    MaxTries = 1
    MaxRestarts = 0
SYMMETRY Symmetry
INVARIANTS TypeOK LockDiscipline PermitsBounded OnlyProven DurableIntent
