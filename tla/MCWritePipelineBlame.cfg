SPECIFICATION Spec
CONSTANTS
    anon = anon
    alice = alice
    NoToken = NoToken
    Users <- MCUsers
    NoUser <- anon
    MaxPending = 3
    MaxWrites = 3
    MaxWaits = 0
    MaxAuth = 0
    MaxToggles = 0
    MaxRestarts = 0
    MaxFaults = 1
    FaultKinds = {"permanent"}
CHECK_DEADLOCK FALSE
PROPERTIES
    RejectsRefusedWrite
