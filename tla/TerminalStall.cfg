SPECIFICATION Spec
CONSTANT Scenarios <- Stalls
INVARIANT LiveAgain
CHECK_DEADLOCK FALSE
