--------------------------- MODULE MCObjectSyncer ---------------------------
(* Small instances of ObjectSyncer and SyncerClaims for TLC.               *)
EXTENDS SyncerClaims

CONSTANTS
  b1, b2,
  MaxEvents  \* bound: budgeted events of all kinds together

OneBucket  == <<b1>>
TwoBuckets == <<b1, b2>>

Budgets(c, r, f, x, l) ==
  [create |-> c, edit |-> 0, remove |-> r, fault |-> f, relist |-> 0, crash |-> x, loss |-> l]

SafetyBudget   == Budgets(1, 1, 1, 1, 0)
LivenessBudget == Budgets(1, 1, 0, 0, 1)
RestartBudget  == Budgets(1, 1, 0, 1, 0)

Spent(kind) == Budget[kind] - budget[kind]

FewEvents ==
  Spent("create") + Spent("remove") + Spent("fault") + Spent("crash") + Spent("loss")
    <= MaxEvents
=============================================================================
