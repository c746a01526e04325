SPECIFICATION FairSpec
CONSTANTS
    j1 = j1  j2 = j2  r1 = r1  r2 = r2  f1 = f1  f2 = f2
    Jobs = {j1}
    NoJob = NoJob
    Repos = {r1, r2}
    Files = {f1, f2}
    RepoOf <- OwnRepo
    Select <- Overlapping
    Purgeable = {}
    MaxRetries = 1
    MaxBoots = 1
INVARIANTS CompletedOnDisk CrashTrail QuietTrail
CHECK_DEADLOCK FALSE
PROPERTIES CancelEnds
