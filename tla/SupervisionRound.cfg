SPECIFICATION SSpec
CHECK_DEADLOCK FALSE
CONSTANTS
    Own = 1
    Scenarios <- OneRound
INVARIANT RoundWaitsForSomeone
