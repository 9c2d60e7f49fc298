SPECIFICATION FairSpec
CONSTANTS
    None = None
    p1 = p1
    p2 = p2
    p3 = p3
    Handlers = {p1, p2}
    Ops <- TwoHandlersOps
    Tags = {"t1"}
    Changes = {"c1"}
    Values = {1, 2}
    Budget = 3
    GIT_RETRY_COUNT = 1
    RETRY_COUNT = 2
INVARIANTS
    TypeOK
    ServedInOrder
    StaleIsAnnounced
PROPERTIES
    IgnoredOnlyIfReplaced
    OnlyOverlapDrops
    HandlersEnd
    PushedIsFetched
CHECK_DEADLOCK FALSE
