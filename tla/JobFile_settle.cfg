SPECIFICATION FairSnapSpec
CONSTANTS
    Final = 3
    Length <- Sizes
INVARIANTS Settled
PROPERTIES Heals
CHECK_DEADLOCK FALSE
