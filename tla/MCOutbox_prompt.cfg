SPECIFICATION LiveSpec
CONSTANTS
    Relays = {r1, r2}
    CrashProne = {r1}
    Messages = {m1, m2}
    Unencodable = {m2}
    BatchSize = 2
    LeaseDuration = 2
    SettlementReserve = 1
    BackoffBase = 1
    BackoffMax = 1
    MaxExponent = 0
    Prompt = {r1, r2}
    NoRelay = NoRelay
INVARIANTS
    ExclusivePublication
PROPERTIES
    EveryMessageSettles
