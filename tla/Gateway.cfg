SPECIFICATION SampleSpec
CONSTANTS
    s1 = s1  s2 = s2
    Servers = {s1, s2}
    Profiles = {"p", "q"}
    Ports = {1, 2}
    Requests = {1}
    MaxTime = 1
    MaxTokens = 1
    MaxSamples = 1
CONSTRAINT OneObserver
SYMMETRY Interchangeable
INVARIANTS StrayOnlyAfterEnd  CountersOwn RatesMeasured
CHECK_DEADLOCK FALSE
