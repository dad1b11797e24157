SPECIFICATION FairSpec
CONSTANTS
    s1 = s1
    t1 = t1
    t2 = t2
    a1 = a1
    a2 = a2
    Starter = Starter
    None = None
    Sessions = {s1}
    Threads = {t1, t2}
    Agents = {a1, a2}
    MaxEntries = 3
    MaxFaults = 3
INVARIANTS TypeOK Reserved NoOrphan
PROPERTIES WhereRequested DeletionsAreFinal DeletionsEnd
