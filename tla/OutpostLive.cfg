SPECIFICATION LiveSpec
CHECK_DEADLOCK FALSE
CONSTANTS
    Grace = 1
    FocusEventsPerBatch = 4
    EventsPerThread = 10
    TickRange = 8
    Windows = {"a", "b", "c"}
    AnsweredBefore = 2
    KindOf <- Kinds
    NodeOf <- Nodes
    Scenarios <- LiveScenarios
    MaxLetters = 3
    MaxPolls = 1
    HandlingDeadline = 2
    WalkBound = 1
PROPERTY EverythingAnswered
