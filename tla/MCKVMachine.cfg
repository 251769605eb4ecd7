SPECIFICATION MachineSpec
CONSTANTS
    key1 = key1
    v1 = v1
    v2 = v2
    Key = {key1}
    Value = {v1, v2}
    NoValue = NoValue
    Client = {c1, c2}
    MaxSessions = 1
    Commands <- AllCmds
    MaxSeq = 2
    MaxEntries = 5
SYMMETRY ClientSymmetry
CHECK_DEADLOCK FALSE
INVARIANTS
    MachineTypeOK
    VersionsNeverRepeat
    NoABA
    SessionsSound
