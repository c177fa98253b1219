CONSTANTS
    Slots = {s1}
    Clients = {c1}
    Host = host
    MaxTokens = 2
    MaxRetry = 1
    MaxFailures = 2
    MaxFaults = 0
SPECIFICATION Spec
INVARIANTS DiscardedWasTried DoneStaysDone
PROPERTY KeepsAlarmContract
CHECK_DEADLOCK FALSE
