SPECIFICATION FairSpec
CONSTANTS
    anon = anon
    alice = alice
    NoToken = NoToken
    Users <- MCUsers
    NoUser <- anon
    MaxPending = 2
    MaxWrites = 4
    MaxWaits = 1
    MaxAuth = 0
    MaxToggles = 1
    MaxRestarts = 0
    MaxFaults = 3
    FaultKinds = {"lost", "aborted", "permanent", "token", "corrupt"}
CHECK_DEADLOCK FALSE
INVARIANTS
    TypeOK
    NoAssertionFails
    PipelineIsQueuePrefix
    ResponsesMatchPipeline
    WaitersSeeAllWrites
PROPERTIES
    PendingWritesSettle
