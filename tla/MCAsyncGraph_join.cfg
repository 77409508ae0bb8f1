SPECIFICATION Spec
CONSTANTS
    w1 = w1
    w2 = w2
    NumPkts = 1
    MaxInt = 8
    UintBound = 32
    SkipMax = 8
    Graphs <- JoinGraphs
    NumPriorities = 3
    Workers = {w1, w2}
CHECK_DEADLOCK FALSE
INVARIANTS
    CalledBackOnce
