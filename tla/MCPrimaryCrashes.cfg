SPECIFICATION FilesSpec
CONSTANTS
    Server <- ThreeServers
    MaxCrashes = 1
    MaxRestarts = 0
    MaxFaults = 0
    Client = {c1, c2}
    File = {f1, f2}
    Absent = Absent
    Empty = Empty
    MaxOps = 1
    MaxRetries = 1
    MaxOpens = 2
SYMMETRY ClientSymmetry
CHECK_DEADLOCK FALSE
INVARIANTS
    AckedSurvives
