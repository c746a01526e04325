SPECIFICATION Spec
CONSTANTS
    m1 = m1  m2 = m2
    Models = {m1, m2}
    Projector = Projector
    Users = {1}
INVARIANTS DownloadListed Paired
PROPERTIES ScanIsExact
CHECK_DEADLOCK FALSE
SYMMETRY Interchangeable
