SPECIFICATION Spec
CONSTANTS
    j1 = j1  j2 = j2  r1 = r1  r2 = r2  f1 = f1  f2 = f2
    Jobs = {j1, j2}
    NoJob = NoJob
    Repos = {r1, r2}
    Files = {f1, f2}
    RepoOf <- SameRepo
    Select <- OneEach
    Purgeable = {r1}
    MaxRetries = 1
    MaxBoots = 0
CONSTRAINT LastTick
INVARIANTS SlotMatchesWorker
PROPERTIES CancelSticks SlotSpec
CHECK_DEADLOCK FALSE
