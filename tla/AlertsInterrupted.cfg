SPECIFICATION Spec
CHECK_DEADLOCK FALSE
CONSTANTS
  Search = {s1}
  Featured = {}
  Bucket = {b1}
  BucketOf <- OneBucketOf
  Listing = {1}
  Day <- DaysInOrder
  HasFeatures = {}
  Job = {j1}
  Nobody = Nobody
  Replayable = {}
  MayCrash = TRUE
  MaxDay = 2
  MaxBuild = 1
  Cap = 1
  KeyCap = 2
  MaxSaved = 1
CONSTRAINT JobsOnly
INVARIANTS InterruptedRunReusesDraft
