CONSTANTS
    k1 = k1
    k2 = k2
    h1 = h1
    h2 = h2
    t1 = t1
    t2 = t2
    maker = maker
    NoRecord = NoRecord
    NoChannel = NoChannel
    Poller = Poller
    Keys <- KeyTwo
    Maker <- SameMaker
    Tags <- OneTag
    Handlers <- OneHandler
    Registered <- KeyOne
    Stamp <- AllDated
    Second = 1
    MaxChanges = 3
    Redeploys = TRUE
    Resends = FALSE
    MaxRestarts = 0
SPECIFICATION Spec
CHECK_DEADLOCK FALSE
INVARIANTS
    ChannelsOfDeployment
