SPECIFICATION Spec
CONSTANTS
    Buckets = 2
    Runs <- AllRuns
    MinPoints = 5
    LagFloor = 2
    Modulus = 1000
INVARIANTS
    RecoveryWithinRun
CHECK_DEADLOCK FALSE
