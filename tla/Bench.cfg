SPECIFICATION FairSpec
CONSTANTS
    b1 = b1  b2 = b2
    Runs = {b1, b2}
    Cells = 2
    MaxServers = 2
    Users = {"start", "stop", "restart", "delete"}
    Faults = {"exec", "exit"}
INVARIANTS NoOrphan CompletedIsWhole
PROPERTIES Undisturbed RunEnds
CHECK_DEADLOCK FALSE
