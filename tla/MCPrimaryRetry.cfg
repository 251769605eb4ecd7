SPECIFICATION FilesSpec
CONSTANTS
    Server <- TwoServers
    MaxCrashes = 1
    MaxRestarts = 1
    MaxFaults = 1
    Client = {c1}
    File = {f1}
    Absent = Absent
    Empty = Empty
    MaxOps = 2
    MaxRetries = 2
    MaxOpens = 2
CHECK_DEADLOCK FALSE
INVARIANTS
    FilesTypeOK
    RunsAtMostOnce
    AcksAreOwn
