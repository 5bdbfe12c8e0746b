SPECIFICATION Spec
CONSTANTS
    anon = anon
    alice = alice
    NoToken = NoToken
    Users <- MCUsers
    NoUser <- anon
    MaxPending = 2
    MaxWrites = 2
    MaxWaits = 1
    MaxAuth = 2
    MaxToggles = 1
    MaxRestarts = 1
    MaxFaults = 1
    FaultKinds = {"lost", "permanent", "ok"}
CHECK_DEADLOCK FALSE
INVARIANTS
    NoWriteIsStranded
    CommittedOnlyAsOwner
    TokensBelongToUser
    BatchIdsIncrease
PROPERTIES
    ImplementsUserWriteQueue
