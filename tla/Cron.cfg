SPECIFICATION Spec
CONSTANTS
    v1 = v1
    v2 = v2
    hourly = hourly
    NoVersion = NoVersion
    Versions <- MCVersions
    Exprs <- MCExprs
    Declares <- MCDeclares
    Slots <- MCSlots
    RetryDelay <- MCRetryDelay
    MaxRetries = 1
    UnknownDelay = 1
    Window = 2
    Lease = 1
    Grace = 1
    Retention = 0
    HistoryLimit = 1
    Batch = 1
    Permits = 1
    StepBack = 0
    Lag = 1
    MaxTime = 3
    MaxPromotions = 2
    MaxRestarts = 1
    MaxFaults = 0
    MaxDelays = 1
INVARIANTS PinsExact ScheduledVersionIsReady
PROPERTIES SlotFiresOnce
CHECK_DEADLOCK FALSE
SYMMETRY Symmetry
