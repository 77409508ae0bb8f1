SPECIFICATION FairSpec
CONSTANTS
    c1 = c1
    c2 = c2
    c3 = c3
    t1 = t1
    t2 = t2
    NoContext = NoContext
    Contexts = {c1, c2, c3}
    Ids = {0, 1, 2}
    Numberings <- MCNumberings
    Threads = {t1, t2}
CHECK_DEADLOCK FALSE
INVARIANTS
    ServedOnceProcessed
    NoNotificationLost
PROPERTIES
    WakeupServesAll
