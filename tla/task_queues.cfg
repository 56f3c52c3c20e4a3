SPECIFICATION FairSpec
CONSTANTS Queues = {platform, raster} NoQueue = NoQueue Posters = {p1} MaxTasks = 3 MaxTime = 1
INVARIANTS TypeOK MergeShape WakeScheduled RunsWhereOwned
PROPERTIES ImplementsTaskRunners EveryDueTaskRuns
CHECK_DEADLOCK FALSE
