SPECIFICATION Spec
CONSTANTS
    Shares = {s1}
    Clients = {c1, c2}
    Monitor = Monitor
    Main = Main
    NoTask = NoTask
    NoShare = NoShare
    Absent = Absent
    Torn = Torn
    NoFile = NoFile
    Requests = {"mountDisabled"}
    NoPersist = {}
    Ephemeral = FALSE
    FirstPoints = {"health"}
    Ticking = FALSE
    SlowDisk = FALSE
    MaxPermits = 1
    MaxTries = 1
    MaxRestarts = 0
SYMMETRY Symmetry
INVARIANT NeverTorn
