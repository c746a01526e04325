SPECIFICATION FairSpec
CONSTANTS
    Latest = 3
    Size <- UpAndDown
    OpenEnded = TRUE
    MaxFails = 2
INVARIANTS FinalIntact DoneMatchesListing
PROPERTIES NeverWedged
CHECK_DEADLOCK FALSE
