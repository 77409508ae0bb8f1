SPECIFICATION FairSpec
CONSTANTS
    w1 = w1
    w2 = w2
    NumPkts = 4
    MaxInt = 8
    UintBound = 32
    SkipMax = 8
    Graphs <- SmallGraphs
    NumPriorities = 3
    Workers = {w1, w2}
CHECK_DEADLOCK FALSE
INVARIANTS
    TypeOK
    OnlyLateTapsCrash
    CalledBackOnce
    NothingLeaks
PROPERTIES
    OrderedNodesDeliverInOrder
    EveryPacketCalledBack
