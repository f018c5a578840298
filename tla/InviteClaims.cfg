\* None of these holds: keep one at a time to see its counterexample.
SPECIFICATION Spec
CONSTANTS
    ana = ana
    ben = ben
    run1 = run1
    run2 = run2
    s1 = s1
    s2 = s2
    Survey = {s1}
    Address = {ana}
    Run = {run1, run2}
    Cap = 3
    Window = 1
    MaxTime = 0
    MaxTokens = 3
    MaxInterruptions = 1
CHECK_DEADLOCK FALSE
INVARIANTS
    FailedSendsRetried
    MostRecentWorks
PROPERTIES
    NeverRemailed
