CONSTANTS
    NumItems = 2
    FlushCount = 2
    MaxRetries = 1
    RetryBackoff = 1
    Stops = TRUE
SPECIFICATION FairSpec
CHECK_DEADLOCK FALSE
PROPERTIES
    RelaySpec
    EventuallySettled
    FlushEnds
