SPECIFICATION Spec
CONSTANTS
    Utterances = {1, 2, 3, 4}
    Marks <- MCMarks
    Priority <- MCPriority
    Key <- MCKey
    About <- MCAbout
    Foci = {"a", "b"}
    Keys = {2}
INVARIANT EndedOnce
 
PROPERTY HeardWhenDue
PROPERTY EveryUtteranceEnds
PROPERTY EveryRequestEnds
CHECK_DEADLOCK FALSE
