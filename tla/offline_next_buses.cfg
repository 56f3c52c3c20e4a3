SPECIFICATION Spec
CONSTANTS MaxLaunches = 2 MaxClears = 1 Today = "weekday"
PROPERTIES ScheduledBusOffered
CHECK_DEADLOCK FALSE
