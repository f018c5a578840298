SPECIFICATION Spec
CONSTANTS
    g1 = g1
    g2 = g2
    c1 = c1
    c2 = c2
    ana = ana
    ben = ben
    Page = {g1}
    Click = {c1, c2}
    Participant = {ana}
    Anyone = Anyone
    MinFillTime = 1
    NonceTTL = 2
    ChallengeTTL = 3
    SolutionTTL = 4
    MaxFormAge = 5
    MaxTime = 5
    MaxEpoch = 1
    MaxResponses = 2
    MaxVersions = 2
SYMMETRY Symmetric
INVARIANTS
    RepeatsApart
    SolutionAcceptedOnce
    OneResponseEach
    MarkedWhenRecorded
    PinnedToServed
