SPECIFICATION Spec
CONSTANTS MaxLaunches = 1 MaxClears = 1 Today = "weekday"
PROPERTIES ClearedMeansEmpty
CHECK_DEADLOCK FALSE
