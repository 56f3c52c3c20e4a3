SPECIFICATION FairSpec
CONSTANTS MaxLaunches = 3 MaxClears = 2 Today = "weekday"
INVARIANTS TypeOK BusHasSample
PROPERTIES SampleArrives
CHECK_DEADLOCK FALSE
