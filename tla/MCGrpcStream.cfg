SPECIFICATION FairSpec
CONSTANTS
    MaxWrites = 3
    MaxMessages = 2
CHECK_DEADLOCK FALSE
INVARIANTS
    TypeOK
    OneOperationAtATime
    CallbacksFindTheirStream
PROPERTIES
    ImplementsObservedStream
    WorkerComesBack
    FailureIsTold
    MessagesPass
