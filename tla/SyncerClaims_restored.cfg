CONSTANTS
  b1 = b1
  b2 = b2
  Names = {s1}
  Buckets = {b1}
  Untils = {0}
  TTLs = {0}
  DefaultTTL = 1
  RetryWindow = 1
  MaxTime = 3
  MaxUploads = 1
  NoSnap = NoSnap
  NoObject = NoObject
  Idle = Idle
  Workers = {w1}
  Queuer = queuer
  NoSweep = NoSweep
  Housekeep = FALSE
  RestoreSnapshots = TRUE
  Validate = TRUE
  BucketOrder <- OneBucket
  Budget <- RestartBudget
  MaxEvents = 9
SPECIFICATION SyncSpec
INVARIANTS
  RestoredIsNotTaken
CHECK_DEADLOCK FALSE
