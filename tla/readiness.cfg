CONSTANTS
    PollInterval = 2
    CallTime = 1
SPECIFICATION ServiceFairSpec
CHECK_DEADLOCK FALSE
INVARIANTS
    TypeOK
    ReadyMeansRecent
    IInv
PROPERTIES
    FreshWithoutUpdates
    ReadyAgain
    ServiceReadyAgain
