SPECIFICATION FairSpec
CONSTANTS
    t1 = t1
    t2 = t2
    Callers = {t1, t2}
    Administrators = {t1}
    MaxGeneration = 2
CHECK_DEADLOCK FALSE
INVARIANTS ConnectionIsSafe
PROPERTIES CallersAreServed
