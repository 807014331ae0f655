SPECIFICATION Spec
CONSTANTS
    o1 = o1
    o2 = o2
    p1 = p1
    p2 = p2
    p3 = p3
    a1 = a1
    a2 = a2
    a3 = a3
    None = None
    Orders = {o1, o2}
    Payments = {p1, p2, p3}
    Attempts = {a1, a2, a3}
    OrderOf <- MCOrderOf
    PaymentOf <- MCPaymentOf
    Keys = {k1, k2}
    Requests = {r1, r2}
SYMMETRY Symmetry
INVARIANTS
    OneSessionPerPayment
    SameKeySameSession
    AnswersOwnOrder
    PaidIffSucceeded
    BooksMatchProvider
    MatrixAgreesWithSchema
    SuccessNeverIgnored
PROPERTIES
    ImplementsLedger
CHECK_DEADLOCK FALSE
