SPECIFICATION MCSpec
CHECK_DEADLOCK FALSE
CONSTANTS
    Pids = {p1, p2}
    Keys = {k1}
    NoKey = NoKey
    Grace = 1
    Deadline = 2
    Limit = 2
    Bounds = {1}
    Early = 1
    Windows = {"Never", "Unknown", "Known"}
    CanStop = TRUE
    MaxEvents = 3
    MaxWaiters = 1
    MaxTime = 2
INVARIANT OwedMatches
INVARIANT RecordsMatch
INVARIANT ThreadsMatch
INVARIANT NoLostWakeup
INVARIANT WaitIsBounded
INVARIANT AlarmCovers
INVARIANT IdleHasCause
PROPERTY PromiseKept
PROPERTY EveryoneServed
PROPERTY StopEndsThreads
