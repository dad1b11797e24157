SPECIFICATION FairHostSpec
CONSTANTS
    MaxRequests = 3
    MaxConnections = 2
    MaxEntries = 2
    MaxEvents = 2
CHECK_DEADLOCK FALSE
INVARIANTS EntriesAreSafe EventsArrive
PROPERTIES CallsEnd
