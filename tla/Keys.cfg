SPECIFICATION MCSpec
CONSTANTS
    Keys = {"downarrow", "a", "v", "shift", "alt", "num"}
    Name <- MCName
    VerbatimKeys = {}
    ShiftKeys = {"shift"}
    ControlKeys = {}
    AltKeys = {"alt"}
    LockKeys = {"num"}
    Unnamed = {}
    NumpadOperators = {}
    CharacterKeys = {"a", "v"}
    EnterKeys = {}
    QuietKeys = {}
    Bound <- MCBound
    Observed <- MCHeld
    Held <- MCHeld
    ShareModifier = FALSE
    InterruptForCharacters = TRUE
    InterruptForEnter = TRUE
    Timeout = 2
    PlaceLimit = 5
    RepeatLimit = 1
    MaxKeys = 5
    Scenarios <- LineScenarios
CHECK_DEADLOCK FALSE
INVARIANT LineKept
INVARIANT TapsAsMade
PROPERTY KeysReachInOrder
