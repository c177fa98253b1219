CONSTANTS
    Slots = {s1}
    Clients = {c1}
    Host = host
    MaxTokens = 1
    MaxRetry = 0
    MaxFailures = 1
    MaxFaults = 1
SPECIFICATION FairSpec
INVARIANT ClaimHasTask
PROPERTIES AlarmEnds GhostVanishes
CHECK_DEADLOCK FALSE
