SPECIFICATION Spec
CONSTANTS
    Settings <- MCSettings
    Entries <- MCEntries
    Kinds = {"client", "credential", "webhook"}
    V4 = {}
    V6 = {"b"}
    ApiKeys = {"k"}
    Callers = {c1, c2}
    Second = 2
    MaxSkew = 2
SYMMETRY Symmetry
INVARIANTS
    RateUpheld
    NeverDeniesWrongly
PROPERTIES
    RetryIsAdmitted
    IdleReclaimed
