SPECIFICATION FairSpec
CONSTANTS
    v1 = v1
    v2 = v2
    hourly = hourly
    NoVersion = NoVersion
    Versions <- OneVersion
    Exprs <- MCExprs
    Declares <- MCDeclares
    Slots <- MCSlots
    RetryDelay <- MCRetryDelay
    MaxRetries = 1
    UnknownDelay = 1
    Window = 3
    Lease = 1
    Grace = 1
    Retention = 1
    HistoryLimit = 1
    Batch = 2
    Permits = 2
    StepBack = 1
    Lag = 0
    MaxTime = 9
    MaxPromotions = 1
    MaxRestarts = 1
    MaxFaults = 1
    MaxDelays = 1
INVARIANTS PermitsKept HandlerBudget TaskOwnsClaim
PROPERTIES RunEnds 
CHECK_DEADLOCK FALSE
