SPECIFICATION FairSpec
CONSTANTS
    w1 = w1
    w2 = w2
    w3 = w3
    NumPkts = 4
    MaxInt = 8
    UintBound = 32
    SkipMax = 8
    Workers = {w1, w2, w3}
    IsGraphNode = FALSE
    Announced = {0, 1, 2}
    Filtered = {}
    Mute = {1, 3}
CHECK_DEADLOCK FALSE
INVARIANTS
    TypeOK
    OneAtATime
    NoPacketStranded
    NoNullContext
PROPERTIES
    NextNeverDecreases
    InOrder
    EveryPacketLeavesAfterSkips
