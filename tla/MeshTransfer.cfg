SPECIFICATION MeshSpec
CONSTANTS
    SizeOf <- Growing
    IdLength = 8
    MaxOffers = 2
    MaxNodes = 2
    MaxEvents = 1
INVARIANTS OneOfferIsExact
PROPERTIES CompleteWhenAllHere
CHECK_DEADLOCK FALSE
