SPECIFICATION FairSpec
CONSTANTS
    Handlers = {h1, h2}
    Workers = {w1, w2}
    Bases = {b1}
    BaseOf <- MCBaseOf
    Earlier = {b1}
    MaxSegments = 2
    MaxSuffix = 1
    MaxCrashes = 1
INVARIANTS
    TypeOK
    AnnouncedIsDurable
    OutIsComplete
    CapturingIsReclaimed
PROPERTIES
    NeverReplaced
    StoreImplemented
    HandlerEnds
CHECK_DEADLOCK FALSE
