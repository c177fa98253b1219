CONSTANTS
    Notifiers = {n1, n2}
    Waiters = {w1, w2}
    Nobody = nobody
    MaxGeneration = 2
SPECIFICATION FairSpec
INVARIANT NoLostWake
PROPERTY KeepsContract
CHECK_DEADLOCK FALSE
