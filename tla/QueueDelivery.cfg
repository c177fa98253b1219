SPECIFICATION Spec
CONSTANTS
    q = q
    d = d
    m1 = m1
    m2 = m2
    b1 = b1
    b2 = b2
    NoQueue = NoQueue
    NoBatch = NoBatch
    Queues <- mcQueues
    Messages <- mcMessages
    Batches <- mcBatches
    Configs <- mcConfigs
    Delays <- mcDelays
    Retention = 3
    RequeueDelay = 1
    DlqBackoff = 1
    BatchTimeout = 1
    MaxBacklog <- mcBacklog
    MaxAttach = 2
SYMMETRY mcSymmetry
INVARIANTS
    TaskOwnsBatch
    ClaimsMatchBatches
    
    ParkedIsFrozen
    ReferencesExist
    BacklogBounded
PROPERTY KeepsDeliveryContract
