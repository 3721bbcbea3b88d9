CONSTANTS
    NumItems = 2
    FlushCount = 2
    MaxRetries = 1
    RetryBackoff = 1
    Stops = TRUE
SPECIFICATION Spec
CHECK_DEADLOCK FALSE
INVARIANTS
    NoLossBeforeRetriesExhausted
