CONSTANTS
    NumItems = 3
    FlushCount = 2
    MaxRetries = 1
    RetryBackoff = 1
    Stops = FALSE
SPECIFICATION Spec
CHECK_DEADLOCK FALSE
INVARIANTS
    TypeOK
    SingleFlight
    QueueHoldsPending
    NeverOvertakes
    RetriesBounded
    IInv
    StoredAsPublished
    BrokerInv
PROPERTIES
    SettledForGood
