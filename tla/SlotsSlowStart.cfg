SPECIFICATION Spec
CONSTANTS
  Run = {r1, r2, r3}
  MaxConcurrent = 2
  WallClock = 3
  Grace = 1
  RemoveTimeout = 2
  StartDelay = 3
INVARIANTS CapHolds
