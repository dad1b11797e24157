SPECIFICATION Spec
CONSTANTS
    j1 = j1
    j2 = j2
    k1 = k1
    k2 = k2
    NoKey = NoKey
    None = None
    Ids = {j1, j2}
    RunIds = {r1, r2}
    Keys = {k1, k2}
    Requests <- Repeated
    Crons <- MCCrons
    Occurrence <- MCOccurrence
    MaxRunning = 1
    MaxRuns = 1
    MaxOps = 2
    MaxJobs = 2
    Backoff = 1
    MaxTime = 2
SYMMETRY Symmetry
INVARIANTS OccurrenceOnce RepeatsAreHarmless
