SPECIFICATION FairSpec
CONSTANTS
    Client = {c1, c2}
    Absent = Absent
    Empty = Empty
    Builds = {"grpc", "socket"}
    Timeout = 1
    MaxOps = 5
    MaxLost = 1
CHECK_DEADLOCK FALSE
INVARIANTS
    NotifiedOnce
    ActiveIsOpen
    CacheIsFresh
PROPERTIES
    LockHeld
    LockAutoReleased
