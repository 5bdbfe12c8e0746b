SPECIFICATION Spec
CONSTANTS
    q1 = q1
    q2 = q2
    NoTarget = NoTarget
    Targets <- MCTargets
    MaxFailures = 1
    MaxListens = 3
    MaxToggles = 2
    MaxFaults = 2
    MaxInFlight = 2
    WatchFaultKinds = {"lost", "token", "reject", "old"}
CHECK_DEADLOCK FALSE
SYMMETRY Symmetry
INVARIANTS
    TypeOK
    NoWatchAssertionFails
    NoListenIsStranded
    OnlineOnlyWhileOpen
