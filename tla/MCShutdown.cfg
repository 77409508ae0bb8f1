SPECIFICATION FairSpec
CONSTANTS
    p1 = p1
    p2 = p2
    w1 = w1
    s1 = s1
    s2 = s2
    destructor = destructor
    NoCaller = NoCaller
    Packets = {p1, p2}
    Managed = {p1}
    Steps = 2
    Workers = {w1}
    Stoppers = {s1, s2}
    Destructor = destructor
CHECK_DEADLOCK FALSE
INVARIANTS
    TypeOK
    EveryPacketHasItsTask
    OnlyOrphansEndBadly
PROPERTIES
    NothingHandedOverAfterStop
    StopReturns
