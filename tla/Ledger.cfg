SPECIFICATION Spec
CONSTANTS
  Draft = {d1, d2}
  Key = {k}
  NoKey = NoKey
  Address = {a1, a2}
  Sender = {s1, s2}
  NoDraft = NoDraft
  Ttl = 2
  Window = 1
  MaxClock = 3
  LockWait = 1
CONSTRAINT SecondDraftBriefly
SYMMETRY Symmetry
CHECK_DEADLOCK FALSE
INVARIANTS TypeOK AtMostOnce DeliveryAuthorised SentWasDelivered WritersKeepReplay OneDraftPerKey
PROPERTY ImplementsGatedSend
