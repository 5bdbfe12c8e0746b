SPECIFICATION FairSpec
CONSTANTS
    x = x
    a = a
    b = b
    Txns = {x}
    Docs = {a, b}
    kRetryCount = 2
    MaxOps = 3
    MaxOthers = 2
CHECK_DEADLOCK FALSE
INVARIANTS
    ResultIsTrue
PROPERTIES
    AppliesOnCurrentReads
    EveryTransactionEnds
