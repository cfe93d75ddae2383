SPECIFICATION MCSpec
CHECK_DEADLOCK FALSE
VIEW NumberFree
CONSTANTS
    Grace = 1
    FocusEventsPerBatch = 4
    EventsPerThread = 10
    TickRange = 8
    Windows = {"a", "b", "c"}
    AnsweredBefore = 2
    KindOf <- Kinds
    NodeOf <- Nodes
    Scenarios <- MCScenarios
    MaxLetters = 4
    MaxPolls = 1
    HandlingDeadline = 2
    WalkBound = 1
INVARIANT ToldOnce
INVARIANT IdleMeansQuiet
 
INVARIANT IntakeOrdered
PROPERTY GroupTried
