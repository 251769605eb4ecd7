SPECIFICATION Spec
CONSTANTS
    Server = {n1, n2, n3}
    NoOp = NoOp
    Nil = Nil
    Electable = {n1, n2}
    Op = {}
    Applying = {}
    Faulty = {}
    Duplicates = FALSE
    MaxTerm = 3
    MaxLog = 3
    MaxCalls = 2
    MaxRestarts = 0
SYMMETRY LeadersSymmetry
VIEW View
CHECK_DEADLOCK FALSE
INVARIANTS
    TypeOK
    ElectionSafety
    LogMatching
    LeaderCompleteness
    CommittedPrefix
