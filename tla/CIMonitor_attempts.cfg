SPECIFICATION FairSpec
CONSTANTS
    null = null
    NoStatus = null
    Infos <- Statuses
    Timeout = 10
    NewCipeTimeout = 2
    Breaker = 3
    MaxCycles = 2
    LocalAttempts = 1
    MaxAttempts = 3
    MaxCommits = 3
INVARIANTS
    OncePerAttempt
    WithinBudget
PROPERTIES
    MonitorEnds
CHECK_DEADLOCK FALSE
