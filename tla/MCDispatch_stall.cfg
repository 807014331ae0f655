SPECIFICATION LiveSpec
CONSTANTS
    Workers = {w1, w2}
    Prefetches = {3}
    Backlog = 4
PROPERTIES
    ErrorEndsSession
CHECK_DEADLOCK FALSE
