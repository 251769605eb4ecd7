SPECIFICATION Spec
CONSTANTS
    key1 = key1
    val1 = val1
    val2 = val2
    idem = idem
    NodeCount = 3
    Nil = Nil
    Http = {h1, h2}
    NoKey = NoKey
    Asks <- AllAsks
    Key = {key1}
    Value = {val1, val2}
    NoValue = NoValue
    Client <- Identity
    MaxSessions = 2
    MaxRedirects = 1
    MaxAttempts = 3
    MaxElections = 1
    MaxFaults = 1
SYMMETRY HttpSymmetry
CHECK_DEADLOCK FALSE
INVARIANTS
    AnswerIsOwnEffect
    KeyedOnce
    UnavailableUnlessDeposed
    SettledLeaderReached
