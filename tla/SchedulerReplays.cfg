SPECIFICATION FairSpec
CONSTANTS
    Rounds = 1
    TickMs = 2
    GraphPeriod = 5
    ReplayPeriod = 3
    ReplayFlops = 2
    PromptFlops = 3
    MaxTicks = 4
    MaxPrompts = 1
    MaxCrashes = 1
INVARIANTS
    TypeOK
    VerdictIsRight
    AccusedWithCause
PROPERTY
    TickEnds
CHECK_DEADLOCK FALSE
