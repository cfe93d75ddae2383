SPECIFICATION ExitSpec
CHECK_DEADLOCK FALSE
CONSTANTS
    Own = 1
    Scenarios <- Exited
PROPERTY ShutdownEnds
