CONSTANTS
    Enabled = {3}
    GlobalCap = 2
    PoolCap <- Twos
    ClaimBatch <- Ones
    Weight <- Ones
    UnknownLimit = 2
    MaxRows = 2
    MaxUnsent = 1
    MaxFaults = 0
SPECIFICATION Spec
PROPERTY UnknownsHold
CHECK_DEADLOCK FALSE
