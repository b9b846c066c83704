SPECIFICATION PartSpec
CONSTANTS
  server = server
  batch = batch
  t1 = t1
  t2 = t2
  t3 = t3
  Process = {server, batch}
  Thread = {t1, t2, t3}
  ProcessOf <- MCProcessOf
  Lazy = {server}
  Command = {"serve"}
  CommandOf <- MCCommandOf
  Asks <- MCAsks
  Nobody = Nobody
  Hook = Hook
  MaxGrants = 2
  MaxCalls = 2
  Rows = 10
  Tranche = 4
  MaxRequests = 2
  Reused = {1}
  WaveFrom = 8
  Checkpoint = {9, 10}
  LongWave = 3
  ShortWave = 1
  ShortFrom = 9
  MaxBatches = 8
CONSTRAINT TwoAtWork
SYMMETRY Symmetry
INVARIANTS PaidTypeOK OneRunPerGrant CeilingHolds NoRowTwice NothingDropped VerifiedIsWhole WavesGated
PROPERTIES AbortIsFinal
