SPECIFICATION Spec
CONSTANTS
    s1 = s1
    c1 = c1
    t1 = t1
    t2 = t2
    Sessions <- OneSession
    Clients <- OneClient
    Operations <- TwoOperations
    MaxIdle = 0
    MaxRevision = 2
    MaxProjections = 2
SYMMETRY Symmetry
INVARIANTS LeasesAreKept ProjectionsAreKept
