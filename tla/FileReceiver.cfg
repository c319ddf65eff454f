SPECIFICATION FairSpec
CONSTANTS
  a = a
  b = b
  Senders = {a, b}
  Names = {"x", "y"}
  Modes = {"normal", "hashed", "secret"}
  BatchLen = 2
  Batch <- TwoBatches
  Size = 1
  MaxConns = 2
  MaxLost = 1
INVARIANTS
  AckedPublished
  NoStrayTemp
  HistoryTrue
PROPERTIES
  OverwritesOnlyInRace
  EverythingEnds
CHECK_DEADLOCK FALSE
