CONSTANTS
    Enabled = {0, 1}
    GlobalCap = 1
    PoolCap <- Caps
    ClaimBatch <- Twos
    Weight <- Ones
    UnknownLimit = 2
    MaxRows = 1
    MaxUnsent = 1
    MaxFaults = 1
SPECIFICATION FairSpec
PROPERTIES NoStarvation ShutdownEnds
CHECK_DEADLOCK FALSE
