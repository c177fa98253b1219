CONSTANTS
    Enabled = {1, 3}
    GlobalCap = 2
    PoolCap <- Caps
    ClaimBatch <- Twos
    Weight <- Ones
    UnknownLimit = 2
    MaxRows = 1
    MaxUnsent = 1
    MaxFaults = 0
SPECIFICATION Spec
INVARIANTS AdmissionExact DeficitBounded NoWorkForgotten
CHECK_DEADLOCK FALSE
