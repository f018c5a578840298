SPECIFICATION MCSpec
CONSTANTS
    c1 = c1
    c2 = c2
    s1 = s1
    s2 = s2
    w1 = w1
    w2 = w2
    x1 = x1
    none = none
    NoSession = none
    Workspace = {w1, w2}
    Survey = {s1, s2}
    Session = {x1}
    Call = {c1, c2}
    LowNormal = 1
    Normal = 2
    High = 2
    DailyBudget = 3
    VoiceSurveyDailySeconds = 2
    SessionSeconds = 2
    Prompt = 2
    Fragment = 4
    MaxFragments = 1
    MaxWords = 2
    Attachment = 2
    MaxTake = 1
    AudioTokensPerSecond = 1
    MaxChanges = 1
    MaxEmpty = 1
    Kinds <- All
    Owner <- OneEach
INVARIANTS OverrunBounded BudgetBounded SpeechBounded SuspensionStops ChargedUnlessGone CountsWhenTold
SYMMETRY Symmetric
