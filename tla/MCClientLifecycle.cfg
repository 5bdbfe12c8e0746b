SPECIFICATION FairSpec
CONSTANTS
    t1 = t1
    t2 = t2
    NoThread = NoThread
    Threads <- MCThreads
    Scenarios <- Harmless
    MaxCalls = 3
    MaxRetries = 1
    MaxCollections = 1
CHECK_DEADLOCK FALSE
INVARIANTS
    WorkUsesOpenEngine
PROPERTIES
    CallsComeToAnEnd
    ImplementsSerialQueue
