CONSTANTS
  b1 = b1
  b2 = b2
  Names = {s1}
  Buckets = {b1, b2}
  Untils = {0}
  TTLs = {0}
  DefaultTTL = 1
  RetryWindow = 0
  MaxTime = 2
  MaxUploads = 1
  NoSnap = NoSnap
  NoObject = NoObject
  Idle = Idle
  Workers = {w1}
  Queuer = queuer
  NoSweep = NoSweep
  Housekeep = TRUE
  RestoreSnapshots = FALSE
  Validate = FALSE
  BucketOrder <- TwoBuckets
  Budget <- LivenessBudget
  MaxEvents = 9
SPECIFICATION FairSync
PROPERTIES
  LostIsFailed
  MovedIsFollowed
  OrphanIsSettled
CHECK_DEADLOCK FALSE
