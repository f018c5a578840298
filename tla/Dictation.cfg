\* One dictation card, in turns: see MCDictation.
SPECIFICATION MCSpec
CONSTANTS
    Engines = {"server", "local"}
    MaxTakes = 2
    MaxWords = 2
    CapWords = 1
    MaxTyped = 1
    MaxDialogs = 1
    MaxLost = 1
    MaxAttempts = 1
INVARIANT
    TakeInHand
PROPERTIES
    WordsKept
    EveryTakeComesToAnEnd
\* The respondent may have done everything the bounds allow.
CHECK_DEADLOCK FALSE
