SPECIFICATION Spec
CONSTANTS
    p = p
    q = q
    Docs = {1, 2}
    NoDoc = NoDoc
    Queries = {p, q}
    Contents <- MCContents
    Limits = {1, 2}
    MaxChanges = 2
    MaxCalls = 2
    MaxFaults = 2
    FaultKinds = {"reject", "filter", "lost", "offline"}
CHECK_DEADLOCK FALSE
INVARIANTS
    TypeOK
    LimboIsTracked
    SlotsAreUsed
    SettledViewsAreRight
