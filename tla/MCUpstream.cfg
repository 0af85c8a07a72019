SPECIFICATION Spec
CONSTANTS
    DefaultLatency = 1
    MaxLatency = 3
    Malformed = Malformed
    Bodies <- MCBodies
    Calls = {c1}
    UpstreamTimeout = 2
    MaxAttempts = 3
    BaseDelay = 2
    MaxDelay = 3
    TotalBudget = 4
INVARIANTS
    TimeBounded
    StatisticsAddUp
    AnsweredAsArrived
