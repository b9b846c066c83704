SPECIFICATION Spec
CHECK_DEADLOCK FALSE
CONSTANTS
  Search = {s1, s2}
  Featured = {s2}
  Bucket = {b1}
  BucketOf <- OneBucketOf
  Listing = {1, 2, 3}
  Day <- Days112
  HasFeatures = {1, 3}
  Job = {j1, j2}
  Nobody = Nobody
  Replayable = {}
  MayCrash = FALSE
  MaxDay = 3
  MaxBuild = 3
  Cap = 1
  KeyCap = 2
  MaxSaved = 1
SYMMETRY JobSymmetry
CONSTRAINT JobsOnly EachInItsSetting
INVARIANTS TypeOK NoRepeat NothingSkipped
