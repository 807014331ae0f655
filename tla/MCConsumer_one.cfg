SPECIFICATION LiveSpec
CONSTANTS
    o1 = o1
    p1 = p1
    a1 = a1
    a2 = a2
    e1 = e1
    e2 = e2
    e3 = e3
    w1 = w1
    w2 = w2
    Unusable = Unusable
    Ignored = Ignored
    None = None
    Orders = {o1}
    Payments = {p1}
    Attempts = {a1}
    OrderOf <- MCOrderOf
    PaymentOf <- MCPaymentOf
    Events = {e1}
    Unencodable = {}
    Contents <- FewContents
    Workers = {w1, w2}
    MaxAttempts = 2
    MaxCopies = 1
    MaxReplays = 1
INVARIANTS
    UnresolvedIsVisible
    AppliedAtMostOnce
PROPERTIES
    EveryEventCloses
CHECK_DEADLOCK FALSE
