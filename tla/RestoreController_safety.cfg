CONSTANTS
  Names = {r1}
  Snapshots = {s1}
  Untils = {0, 2}
  TTLs = {0}
  DefaultTTL = 1
  MaxTime = 3
  MaxSnaps = 2
  NoRestore = NoRestore
  Idle = Idle
  Workers = {w1, w2}
  Budget <- ThreeEvents
SPECIFICATION Spec
SYMMETRY WorkersAlike
ACTION_CONSTRAINT SnapshotsMoveWhenSeen
INVARIANTS
  TypeOK
  RestorerOwnsResource
  NotTwice
  NeverOlderArchive
  IndInv
PROPERTIES
  ImplementsLifecycle
CHECK_DEADLOCK FALSE
