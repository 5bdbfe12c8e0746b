SPECIFICATION Spec
CONSTANTS
    p = p
    q = q
    Docs = {1, 2}
    NoDoc = NoDoc
    Queries = {p, q}
    Contents <- AllOrNothing
    Limits = {1}
    MaxChanges = 4
    MaxCalls = 2
    MaxFaults = 0
    FaultKinds = {"reject", "filter", "lost", "offline"}
CHECK_DEADLOCK FALSE
INVARIANT UpToDateIsNotFromCache
