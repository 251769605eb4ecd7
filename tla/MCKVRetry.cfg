SPECIFICATION Spec
CONSTANTS
    key1 = key1
    val1 = val1
    Key = {key1}
    Value = {val1}
    NoValue = NoValue
    Client = {c1}
    MaxSessions = 1
    Node = {n1, n2}
    Cmds <- WriteAndReadCmds
    MaxRequests = 2
    MaxAttempts = 2
    MaxRestarts = 1
SYMMETRY NodeSymmetry
VIEW View
CHECK_DEADLOCK FALSE
INVARIANTS
    TypeOK
    ExactlyOnce
    AnswersAreOutcomes
    Linearizable
    ReplicasAgree
