SPECIFICATION Spec
CHECK_DEADLOCK FALSE
CONSTANTS
  Search = {s1}
  Featured = {s1}
  Bucket = {b1}
  BucketOf <- OneBucketOf
  Listing = {1, 2}
  Day <- DaysInOrder
  HasFeatures = {1, 2}
  Job = {j1}
  Nobody = Nobody
  Replayable = {}
  MayCrash = TRUE
  MaxDay = 2
  MaxBuild = 3
  Cap = 1
  KeyCap = 2
  MaxSaved = 1
CONSTRAINT JobsOnly
INVARIANTS NothingSkipped
