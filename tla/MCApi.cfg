SPECIFICATION LiveSpec
CONSTANTS
    Catalog <- MCCatalog
    MaxQuantity = 3
    MaxInt = 7
    Handlers = {h1, h2}
    OrderRequests <- MCOrderRequests
    Events = {"completed", "refunded"}
    MaxReplays = 2
INVARIANTS
    StoredTogether
    AckedIsStored
    OneOrderPerKey
    AmountsExact
PROPERTIES
    ReplayOnlyRepairs
    EveryEventAccepted
