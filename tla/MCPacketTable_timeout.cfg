SPECIFICATION Spec
CONSTANTS
    NumStreams = 2
    NumStreamIds = 4
    PktsPerStream = 2
    FlowLimit = 3
CHECK_DEADLOCK FALSE
PROPERTIES
    TimeoutMeansNotProcessed
