SPECIFICATION RuntimeLiveSpec
CONSTANTS
    Workers = {w1, w2}
    Prefetches = {1, 2, 3}
    Backlog = 3
    Settings <- MCSettings
    MaxRequests = 1
INVARIANTS
    SlotsAccounted
    NothingUsedAfterClose
PROPERTIES
    NarrowErrorEndsSession
    BrokerNotRequired
    ProcessStops
CHECK_DEADLOCK FALSE
