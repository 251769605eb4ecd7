SPECIFICATION Spec
CONSTANTS
    NodeCount = 2
    Client = {c1}
    File = {f1}
    Nil = Nil
    Absent = Absent
    Empty = Empty
    MaxOps = 3
    MaxRetries = 2
    MaxFaults = 2
CHECK_DEADLOCK FALSE
INVARIANTS
    ReplicasFollowLog
    ClosedOnce
    AckedCloseWritten
