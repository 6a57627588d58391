SPECIFICATION FairSpec
CONSTANTS
    MaxEvents = 3
    MaxConnections = 5
    MaxRetries = 1
INVARIANTS
    TypeOK
    LiveIsCurrent
    NothingMissedWhileLive
    NoDataBeforeMaster
PROPERTIES
    AppliedOnceInOrder
    LiveKeepsEmitting
    FailureIsHandled
CHECK_DEADLOCK FALSE
