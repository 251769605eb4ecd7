SPECIFICATION Spec
CONSTANTS
    Server <- ThreeServers
    MaxCrashes = 2
    MaxRestarts = 1
    MaxFaults = 1
CHECK_DEADLOCK FALSE
INVARIANTS
    TypeOK
    OnePrimary
PROPERTIES
    FailoverCompletes
