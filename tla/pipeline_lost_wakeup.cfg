SPECIFICATION FairSpec
CONSTANTS Depths = {2} MaxFrames = 4
PROPERTIES EveryFrameTaken
CHECK_DEADLOCK FALSE
