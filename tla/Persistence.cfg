SPECIFICATION Spec
CONSTANTS
    p = p  q = q  s1 = s1
    Profiles = {p, q}
    Servers = {s1}
    OwnerOf <- OwnedByP
    Callers = {admin, worker}
    admin = admin  worker = worker
    Nobody = Nobody
    Broken = Broken
    MaxHistory = 1
    MaxDownloads = 2
    MaxFaults = 1
    MaxCrashes = 2
    None = None
    Torn = Torn
    Admins = {admin}
    Requests = {1}
    Operations = {"set", "delete", "create", "update"}
CONSTRAINT OneThing
INVARIANTS DefaultExists ToldIsTrue HistoryKept
CHECK_DEADLOCK FALSE
