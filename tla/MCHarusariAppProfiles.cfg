SPECIFICATION AppSpec
CONSTANTS
    alice = alice
    bob = bob
    NoUser = NoUser
    Emails <- MCEmails
    MaxTaps = 3
    MaxScreens = 2
    MaxKills = 1
    MaxFaults = 1
    FaultKinds = {"lost", "keychain"}
CHECK_DEADLOCK FALSE
INVARIANTS
    AppTypeOK
    ProfileInOwnersQueue
    FirestoreFollowsAuth
    SuccessAlertMeansSaved
    AccountsHaveProfiles
