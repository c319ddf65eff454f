SPECIFICATION Spec
CONSTANTS
    MaxConnects = 2
    MaxRequests = 2
INVARIANTS LastFrameIsDrawn PictureIsCurrent ChannelInReach WindowAgrees
CHECK_DEADLOCK FALSE
