SPECIFICATION NetSpec
CONSTANTS
    Conns = {c1, c2}
    Contents = {x}
    Lengths = {0, 1, 3}
    MSS = 2
    SeqSpace = 4
    IdSpace = 5
    Isns = {3}
    PoolSize = 4
    RxRing = 1
    MaxPayloads = 3
    MaxStacks = 2
    c1 = c1
    c2 = c2
    x = x
INVARIANTS NetTypeOK StreamRebuilds EgressIsCaptured
CHECK_DEADLOCK FALSE
