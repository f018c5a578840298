\* None of these holds: keep one at a time to see its counterexample.
SPECIFICATION Spec
CONSTANTS
    req1 = req1
    req2 = req2
    Request = {req1, req2}
    Asker = {req1, req2}
    BuildTimeout = 2
    StaleAfter = 3
    TTL = 4
    ClosureTTL = 5
    MaxJobs = 2
    MaxTime = 3
    MaxFaults = 1
CHECK_DEADLOCK FALSE
INVARIANTS
    CopyOnItsWay
    OneBuildAtATime
PROPERTIES
    ToldInTime
