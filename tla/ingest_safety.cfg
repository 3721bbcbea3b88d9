CONSTANTS
    k1 = k1
    k2 = k2
    h1 = h1
    h2 = h2
    t1 = t1
    t2 = t2
    maker = maker
    NoRecord = NoRecord
    NoChannel = NoChannel
    Poller = Poller
    Keys <- KeyTwo
    Maker <- SameMaker
    Tags <- OneTag
    Handlers <- TwoHandlers
    Registered <- KeyOne
    Stamp <- FirstSynced
    Second = 3
    MaxChanges = 3
    Redeploys = TRUE
    Resends = FALSE
    MaxRestarts = 1
SPECIFICATION Spec
CHECK_DEADLOCK FALSE
INVARIANTS
    IInv
    NothingSkipped
    RightDevice
    NoPhantomChannel
PROPERTIES
    CacheGrows
SYMMETRY Alike
