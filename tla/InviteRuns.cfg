SPECIFICATION Spec
CONSTANTS
    ana = ana
    ben = ben
    run1 = run1
    run2 = run2
    s1 = s1
    s2 = s2
    Survey = {s1}
    Address = {ana}
    Run = {run1, run2}
    Cap = 2
    Window = 2
    MaxTime = 4
    MaxTokens = 5
    MaxInterruptions = 1
CHECK_DEADLOCK FALSE
INVARIANTS InvitedCanAnswer NoBurst
PROPERTIES SuppressedLeftAlone
SYMMETRY Symmetric
