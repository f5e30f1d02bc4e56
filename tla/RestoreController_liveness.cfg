CONSTANTS
  Names = {r1}
  Snapshots = {s1}
  Untils = {0, 2}
  TTLs = {0}
  DefaultTTL = 1
  MaxTime = 3
  MaxSnaps = 2
  NoRestore = NoRestore
  Idle = Idle
  Workers = {w1}
  Budget <- TwoEvents
SPECIFICATION FairSpec
ACTION_CONSTRAINT SnapshotsMoveWhenSeen
PROPERTIES
  EveryRestoreSettles
  ExpiredIsDeleted
CHECK_DEADLOCK FALSE
