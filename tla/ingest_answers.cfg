CONSTANTS
    k1 = k1
    k2 = k2
    h1 = h1
    h2 = h2
    t1 = t1
    t2 = t2
    maker = maker
    NoRecord = NoRecord
    NoChannel = NoChannel
    Poller = Poller
    Keys <- KeyTwo
    Maker <- SameMaker
    Tags <- OneTag
    Handlers <- OneHandler
    Registered <- Nothing
    Stamp <- FirstUndated
    Second = 2
    MaxChanges = 3
    Redeploys = TRUE
    Resends = TRUE
    MaxRestarts = 1
SPECIFICATION FairSpec
CHECK_DEADLOCK FALSE
INVARIANTS
    TypeOK
    NotFoundOnlyIfUnknown
PROPERTIES
    Answered
    AcceptedInTheEnd
