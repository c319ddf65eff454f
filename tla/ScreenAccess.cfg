SPECIFICATION Spec
CONSTANTS
  Clients = {local, peer}
  Local = local
  Threads = {t1, t2}
  PinTtl = 2
  Lockout = 2
  MaxFails = 2
  SessionTtl = 3
  MaxTime = 4
  MaxPins = 3
SYMMETRY ThreadSymmetry
INVARIANTS
  GuessRate
  OneSessionPerPin
PROPERTIES
  AcceptsProperly
\* The clock and the PINs are bounded.
CHECK_DEADLOCK FALSE
