SPECIFICATION FairHostSpec
CONSTANTS
  Channels = {h1, h2}
  Sessions = {s1}
  Address = addr
INVARIANTS
  NoOrphanToken
  KillSwitchDrops
  SeenWhileHeld
PROPERTIES
  StopsAreRecorded
CHECK_DEADLOCK FALSE
