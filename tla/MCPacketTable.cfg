SPECIFICATION Spec
CONSTANTS
    NumStreams = 2
    NumStreamIds = 4
    PktsPerStream = 2
    FlowLimit = 2
CHECK_DEADLOCK FALSE
INVARIANTS
    TypeOK
    RunningIsKept
    NoResultLost
    QueriedOnce
    FlowLimited
