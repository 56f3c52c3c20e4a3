SPECIFICATION FairSpec
CONSTANTS Depths = {1} Items = {frame} MaxPackets = 3 TextureFrames = TRUE
INVARIANTS TypeOK OneFrameOnItsWay WaitingHasRequest PauseBalance PacketsInOrder
PROPERTIES RequestedFrameBegins PendingPacketDelivered FlowsEndUnlessTexture
CHECK_DEADLOCK FALSE
