SPECIFICATION FairSpec
CONSTANTS
  c = c
  Clients = {c}
  NBackends = 1
  Tools = {TRUE, FALSE}
  Patience = {TRUE, FALSE}
  MaxStarts = 2
  MaxHasty = 1
INVARIANTS
  OneReader
  ListenerKnown
PROPERTIES
  CaptureEnds
  StopEnds
CHECK_DEADLOCK FALSE
