SPECIFICATION Spec
CONSTANTS
    Server = {n1, n2, n3}
    NoOp = NoOp
    Nil = Nil
    Electable = {n1, n2}
    Op = {w1}
    Applying = {n1}
    Faulty = {n3}
    Duplicates = TRUE
    MaxTerm = 2
    MaxLog = 2
    MaxCalls = 1
    MaxRestarts = 1
VIEW View
CHECK_DEADLOCK FALSE
INVARIANTS
    WaiterHoldsItsSlot
    OneVotePerTerm
    VoteRemembered
PROPERTIES
    ImplementsReplicatedLog
