SPECIFICATION FairConsentSpec
CONSTANTS
  Slots = {c1}
  Size <- ShrinkingSize
  Mark = 2
  MaxPayload = 3
  Window = 2
  MaxFaults = 2
  Devices = {d1}
  Starts <- KnownOrNot
INVARIANTS
  Aligned
  DeliveredWhole
  AckedOnDisk
  NothingUnasked
PROPERTIES
  FinalsImmutable
  EventuallyAcked
\* A sender that has its ACK for the last version stops.
CHECK_DEADLOCK FALSE
