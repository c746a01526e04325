SPECIFICATION Spec
CONSTANTS
    s1 = s1  s2 = s2  p1 = p1  p2 = p2  q1 = q1  q2 = q2
    Servers = {s1, s2}
    Profiles = {p1, p2}
    Ports = {q1, q2}
    NoPort = NoPort
    Fixed <- P1Fixed
    Callers = {"a"}
    Guarded = {"a"}
    QCap = 1
    MaxBoots = 1
    Deletable = {p1}
    ReattachMayFail = FALSE
INVARIANTS IInv TerminalMeansDead StopReachesChild PortExclusive NoNeighbourCounts
PROPERTIES LeaseSpec
SYMMETRY SymServers
CONSTRAINT Focused
CHECK_DEADLOCK FALSE
