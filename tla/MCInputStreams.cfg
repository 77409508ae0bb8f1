SPECIFICATION Spec
CONSTANTS
    t1 = t1
    t2 = t2
    a = a
    b = b
    c = c
    Threads = {t1, t2}
    UintBound = 2
    MaxStreams = 3
    MaxPackets = 1
    DataTags = {a, b, c}
    MaxData = 4
SYMMETRY Symmetric
CONSTRAINT DataOfOneStream
CHECK_DEADLOCK FALSE
INVARIANTS
    TypeOK
    PacketIdsAreUnique
    DefaultStreamServes
    StreamsOutlivePackets
    TagsShowTheirData
