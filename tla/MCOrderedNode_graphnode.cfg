SPECIFICATION FairSpec
CONSTANTS
    w1 = w1
    w2 = w2
    NumPkts = 3
    MaxInt = 8
    UintBound = 32
    SkipMax = 8
    Workers = {w1, w2}
    IsGraphNode = TRUE
    Announced = {}
    Filtered = {}
    Mute = {}
CHECK_DEADLOCK FALSE
PROPERTIES
    EveryPacketLeaves
