SPECIFICATION Spec
CONSTANTS
    req1 = req1
    req2 = req2
    Request = {req1, req2}
    Asker = {req1}
    BuildTimeout = 2
    StaleAfter = 3
    TTL = 3
    ClosureTTL = 5
    MaxJobs = 3
    MaxTime = 6
    MaxFaults = 1
CHECK_DEADLOCK FALSE
INVARIANTS OneBuildAtATime MailedLinkWorks OneMailOnceClosed
