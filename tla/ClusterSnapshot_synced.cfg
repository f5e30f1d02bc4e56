CONSTANTS
  cm = cm
  pod = pod
  Marker = marker
  Paths = {cm, pod, marker}
  NoPath = NoPath
  NoEvent = NoEvent
  NotRead = NotRead
  Kinds <- MCKinds
  Resources <- TwoKinds
  KindOf <- OneKindEach
  MaxVersion = 6
SPECIFICATION Spec
CONSTRAINT OnePodChange
ACTION_CONSTRAINTS
  WritesReach
  EndsLate
INVARIANT
  SyncedAtVersion
CHECK_DEADLOCK FALSE
