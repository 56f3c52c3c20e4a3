SPECIFICATION FairSpec
CONSTANTS Capacities = {0, 1, 2, 3} MaxMessages = 5
INVARIANTS TypeOK OneDrain NothingLost
PROPERTIES ImplementsMessageBuffer Drained
CHECK_DEADLOCK FALSE
