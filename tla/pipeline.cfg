SPECIFICATION FairSpec
CONSTANTS Depths = {1, 2} MaxFrames = 4
INVARIANTS TypeOK Accounts PopSafe NullItemEndsTheQueue WakePending
PROPERTIES NoStaleFrame NeverDropsTheOnlyFrame ImplementsFrameQueue LoneSlotFrameTaken
CHECK_DEADLOCK FALSE
