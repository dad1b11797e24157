SPECIFICATION FairSpec
CONSTANTS
    MaxRequests = 2
    MaxSockets = 2
    MaxEvents = 1
    Abortable <- OnlyLast
    CacheLimit = 1
    WeightLimit = 1
    InflightLimit = 2
    OutputLimit = 2
CHECK_DEADLOCK FALSE
INVARIANTS ClientsAreSafe
PROPERTIES NeverBack KeepsItsPromise ClientsAreServed
