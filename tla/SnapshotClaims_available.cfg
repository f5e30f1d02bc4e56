CONSTANTS
  Names = {s1}
  Buckets = {b1}
  Untils = {0, 2}
  TTLs = {0}
  DefaultTTL = 1
  RetryWindow = 1
  MaxTime = 4
  MaxUploads = 2
  NoSnap = NoSnap
  NoObject = NoObject
  Idle = Idle
  Workers = {w1}
  Queuer = queuer
  Budget <- ReuseBudget
  MaxEvents = 9
SPECIFICATION Spec
INVARIANTS
  CompletedIsAvailable
CHECK_DEADLOCK FALSE
