SPECIFICATION FairSpec
CONSTANTS
    c1 = c1
    c2 = c2
    p1 = p1
    p2 = p2
    ClientOf <- OneBrowser
    ProviderOf <- OneProvider
    MaxFrames = 1
    MaxFaults = 1
CHECK_DEADLOCK FALSE
INVARIANTS LoginsAreSafe
PROPERTIES LoginsEnd
