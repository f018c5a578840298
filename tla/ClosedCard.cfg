\* The card is closed while the consent dialog is open, and consent given then.
SPECIFICATION Spec
CONSTANTS
    Engines = {"server"}
    MaxTakes = 2
    MaxWords = 2
    CapWords = 1
    MaxTyped = 1
    MaxDialogs = 1
    MaxLost = 1
    MaxAttempts = 1
INVARIANT NothingHeardBehindClosedCard
CHECK_DEADLOCK FALSE
