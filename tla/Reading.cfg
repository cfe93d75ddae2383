SPECIFICATION MCSpec
CONSTANTS
    Worlds <- MCWorlds
    Outputs <- MCOutputs
    READ_AHEAD = 2
    HANDED = 2
    LOW_WATER = 2
    MAX_HELD = 2
INVARIANT ReadAsHeard
 
PROPERTY SayAllEnds
PROPERTY AllRead
CHECK_DEADLOCK FALSE
