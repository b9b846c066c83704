SPECIFICATION PartSpec
CONSTANTS
  Run = {r1, r2, r3}
  MaxConcurrent = 2
  WallClock = 1
  Grace = 1
  RemoveTimeout = 2
  StartDelay = 1
  Server = {p1}
  Session = {s1}
  HostOf <- OneServer
  Token = {c1, c2}
  Ttl = 1
  SupersedeGrace = 1
  StaleTemp = 0
  MaxFiles = 2
  LockWait = 0
  WriteTime = 1
  Nobody = Nobody
INVARIANTS TypeOK CapHolds SlotsAddUp
PROPERTIES SlotComesBack Expires
