SPECIFICATION FairSpec
CONSTANTS
    s1 = s1  s2 = s2  p1 = p1  p2 = p2  q1 = q1  q2 = q2
    Servers = {s1}
    Profiles = {p1}
    Ports = {q1}
    NoPort = NoPort
    Fixed <- AllAuto
    Callers = {"a"}
    Guarded = {"a"}
    QCap = 1
    MaxBoots = 0
    Deletable = {}
    ReattachMayFail = FALSE
PROPERTIES StopFreesPort ExitIsRecorded
CHECK_DEADLOCK FALSE
