SPECIFICATION FairSpec
CONSTANTS
    q1 = q1
    q2 = q2
    NoTarget = NoTarget
    Targets <- MCTargets
    MaxFailures = 1
    MaxListens = 2
    MaxToggles = 1
    MaxFaults = 2
    MaxInFlight = 3
    WatchFaultKinds = {"lost", "filter", "reset", "token", "old", "corrupt"}
CHECK_DEADLOCK FALSE
INVARIANTS
    BackendWatchesTargets
    OutstandingIsUnanswered
PROPERTIES
    ListensAreAnswered
