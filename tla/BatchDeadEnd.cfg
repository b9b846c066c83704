SPECIFICATION BatchSpec
CONSTANTS
  Rows = 3
  Tranche = 3
  MaxRequests = 2
  Reused = {2}
  WaveFrom = 6
  Checkpoint = {3}
  LongWave = 3
  ShortWave = 1
  ShortFrom = 7
  MaxBatches = 4
INVARIANTS WorkGoesOn
