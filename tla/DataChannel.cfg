SPECIFICATION DataSpec
CONSTANTS
    MaxMessages = 3
    Sizes = {0, 2, 3, 4}
    RecvParts = 2
    SendParts = 3
    MaxPartials = 1
INVARIANTS InOrder DeliveredUnlessHarmed
CHECK_DEADLOCK FALSE
