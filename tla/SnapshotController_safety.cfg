CONSTANTS
  Names = {s1}
  Buckets = {b1}
  Untils = {0, 2}
  TTLs = {0}
  DefaultTTL = 1
  RetryWindow = 1
  MaxTime = 3
  MaxUploads = 2
  NoSnap = NoSnap
  NoObject = NoObject
  Idle = Idle
  Workers = {w1}
  Queuer = queuer
  Budget <- SafetyBudget
  MaxEvents = 4
SPECIFICATION Spec
CONSTRAINT FewEvents
INVARIANTS
  TypeOK
  TakerOwnsResource
  CopiesAgree
  IndInv
  CompletedIsStored
PROPERTIES
  PhaseOrder
  ImplementsLifecycle
CHECK_DEADLOCK FALSE
