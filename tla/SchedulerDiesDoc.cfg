SPECIFICATION Spec
CONSTANTS
    Rounds = 1
    TickMs = 2
    GraphPeriod = 5
    ReplayPeriod = 3
    ReplayFlops = 2
    PromptFlops = 3
    MaxTicks = 4
    MaxPrompts = 1
    MaxCrashes = 1
INVARIANT
    RunsUntilStopped
CHECK_DEADLOCK FALSE
