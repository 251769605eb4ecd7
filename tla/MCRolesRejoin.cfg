SPECIFICATION Spec
CONSTANTS
    Server <- ThreeServers
    MaxCrashes = 1
    MaxRestarts = 1
    MaxFaults = 0
CHECK_DEADLOCK FALSE
INVARIANTS
    NoSplitBrain
