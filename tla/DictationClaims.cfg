\* None of these holds: keep one at a time to see its counterexample.
SPECIFICATION FairSpec
CONSTANTS
    Engines = {"server"}
    MaxTakes = 2
    MaxWords = 2
    CapWords = 1
    MaxTyped = 1
    MaxDialogs = 1
    MaxLost = 1
    MaxAttempts = 1
CHECK_DEADLOCK FALSE
INVARIANTS
    TranscribingIsTrue
    ListeningIsTrue
    SocketGoesWithTake
PROPERTIES
    ClearDropsEveryTake
    ToggleIgnoresKey
    TranscribingEnds
    EveryStartSettles
