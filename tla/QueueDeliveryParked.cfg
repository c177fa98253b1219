SPECIFICATION FairSpec
CONSTANTS
    q = q
    d = d
    m1 = m1
    m2 = m2
    b1 = b1
    b2 = b2
    NoQueue = NoQueue
    NoBatch = NoBatch
    Queues <- mcQueues
    Messages <- mcMessages
    Batches <- mcOneBatch
    Configs <- mcDlqConfigs
    Delays <- mcNoDelay
    Retention = 2
    RequeueDelay = 1
    DlqBackoff = 1
    BatchTimeout = 1
    MaxBacklog <- mcBacklog
    MaxAttach = 2
PROPERTIES
    
    ParkedIsResolved
