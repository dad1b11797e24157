SPECIFICATION FairSpec
CONSTANTS
    p1 = p1
    m1 = m1
    r1 = r1
    r2 = r2
    Panels = {p1}
    Others = {m1}
    Requests = {r1, r2}
    Guests = {r1}
    MaxSessions = 2
    MaxTotal = 1
    MaxFaults = 1
    MaxPanels = 1
    MaxTimers = 2
INVARIANTS SessionsAreSafe ClosesAreSafe
PROPERTIES PanelsEnd
