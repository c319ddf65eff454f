SPECIFICATION FairSpec
CONSTANTS
  f = f
  g = g
  r1 = r1
  r2 = r2
  k1 = k1
  k2 = k2
  q1 = q1
  q2 = q2
  Files = {f, g}
  Receivers = {r1, r2}
  Queuers = {q1}
  Checkers = {k1, k2}
  Peer <- PeerOf
  MaxIds = 3
PROPERTIES
  HandedOnce
  WaitingEnds
CHECK_DEADLOCK FALSE
