SPECIFICATION Spec
CONSTANTS
  p1 = p1
  p2 = p2
  p3 = p3
  shared = shared
  own = own
  Peer = {p1, p2, p3}
  Session = {shared, own}
  SessionOf <- MCSessionOf
  Figure = {f1}
  MaxEntries = 2
  TurnsPerPeer = 2
  Ttl = 0
  MaxTurns = 4
  MaxClock = 1
SYMMETRY Symmetry
CONSTRAINT Bounded
CHECK_DEADLOCK FALSE
INVARIANTS TypeOK Grounded ForgetsOldestPeer
PROPERTIES NoWordsAfterCard BlockedIsSilent
