SPECIFICATION Spec
CONSTANTS
    W = 4
    Isns = {1, 3}
    Hashes = {0, 2}
    MaxRuns = 2
    MaxSent = 1
INVARIANTS
    TypeOK
    FlowKept
    SameBytes
CHECK_DEADLOCK FALSE
