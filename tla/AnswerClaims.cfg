\* None of these holds: keep one at a time to see its counterexample.
SPECIFICATION Spec
CONSTANTS
    g1 = g1
    g2 = g2
    c1 = c1
    c2 = c2
    ana = ana
    ben = ben
    Page = {g1}
    Click = {c1, c2}
    Participant = {ana}
    Anyone = Anyone
    MinFillTime = 1
    NonceTTL = 2
    ChallengeTTL = 3
    SolutionTTL = 4
    MaxFormAge = 5
    MaxTime = 4
    MaxEpoch = 0
    MaxResponses = 2
    MaxVersions = 1
INVARIANTS
    RenderRecordedOnce
    OneSubmissionPerLink
PROPERTIES
    SecondClickThanked
