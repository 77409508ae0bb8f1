SPECIFICATION Spec
CONSTANTS
    w1 = w1
    w2 = w2
    w3 = w3
    NumPkts = 4
    MaxInt = 2
    UintBound = 32
    SkipMax = 1
    Workers = {w1, w2, w3}
    IsGraphNode = TRUE
    Announced = {1, 2}
    Filtered = {}
    Mute = {}
SYMMETRY Threads
CHECK_DEADLOCK FALSE
PROPERTIES
    InOrder
