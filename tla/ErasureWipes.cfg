SPECIFICATION PoseSpec
CONSTANTS
    MaxBlocks = 3
    Chunk = 2
    AesPerBlock = 2
    NumCores = 2
    Rounds = 2
    MaxFaults = 1
INVARIANTS
    PoseTypeOK
    HonestPasses
    PassedIsHeld
CHECK_DEADLOCK FALSE
