SPECIFICATION MCSpec
CONSTANT Scenarios <- HandOverScenarios
CHECK_DEADLOCK FALSE
 
PROPERTY RelayEnds
