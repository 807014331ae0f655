SPECIFICATION Spec
CONSTANTS
    Relays = {r1, r2}
    CrashProne = {r1}
    Messages = {m1, m2}
    Unencodable = {m2}
    BatchSize = 2
    LeaseDuration = 3
    SettlementReserve = 1
    BackoffBase = 1
    BackoffMax = 2
    MaxExponent = 1
    Prompt = {r2}
    NoRelay = NoRelay
INVARIANTS
    PublishesUnderLease
PROPERTIES
    OnlyHolderSettles
    ImplementsAtLeastOnce
