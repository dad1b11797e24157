SPECIFICATION FairViewSpec
CONSTANTS
    c1 = c1
    c2 = c2
    v1 = v1
    v2 = v2
    o1 = o1
    o2 = o2
    Clients = {c1, c2}
    Views = {v1, v2}
    Ops = {o1, o2}
    ClientOf <- OneEach
    ViewOf <- OneOfEach
    MaxViews = 2
    MaxTickets = 2
    MaxContent = 1
    MaxViewOps = 1
    MaxOps = 1
    MaxEarly = 1
    Lease = 2
    MaxFaults = 1
CHECK_DEADLOCK FALSE
INVARIANTS RegistryIsSafe
PROPERTIES ViewsEnd
