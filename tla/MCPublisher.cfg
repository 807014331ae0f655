SPECIFICATION LiveSpec
CONSTANTS
    Callers = {c1, c2}
    None = None
INVARIANTS
    ReaderNeverWaits
PROPERTIES
    NilMeansTaken
    NoStaleBlame
    EveryCallEnds
CHECK_DEADLOCK FALSE
