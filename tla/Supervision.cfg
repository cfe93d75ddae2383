SPECIFICATION SSpec
CHECK_DEADLOCK FALSE
VIEW Telling
CONSTANTS
    Own = 1
    Scenarios <- Served
INVARIANT TypeOK
INVARIANT ChildrenAgree
INVARIANT StartsAreMade
INVARIANT RoundGoesOn
PROPERTY IdleMeansHandled
PROPERTY FactsAreKept
