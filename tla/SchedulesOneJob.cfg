SPECIFICATION FairSpec
CONSTANTS
    j1 = j1
    j2 = j2
    k1 = k1
    k2 = k2
    NoKey = NoKey
    None = None
    Ids = {j1}
    RunIds = {r1, r2}
    Keys = {k1}
    Requests <- OneJob
    Crons <- MCCrons
    Occurrence <- MCOccurrence
    MaxRunning = 2
    MaxRuns = 2
    MaxOps = 2
    MaxJobs = 2
    Backoff = 1
    MaxTime = 2
INVARIANTS TypeOK ClaimedOnDisk LedgerIsTrue NoOverlap
PROPERTIES NoSilentReplay RunsEnd
