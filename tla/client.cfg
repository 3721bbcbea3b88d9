CONSTANTS
    c1 = c1
    c2 = c2
    Nobody = Nobody
    Callers <- TwoCallers
    MaxCalls = 1
SPECIFICATION FairSpec
CHECK_DEADLOCK FALSE
INVARIANTS
    TypeOK
    LoginsExclude
    SecondRejectionJustified
    CreatedOnce
    LoginsShared
    IInv
PROPERTIES
    CallsEnd
