------------------------ MODULE MCSnapshotController ------------------------
(* Small instances of SnapshotController and SnapshotClaims for TLC.       *)
EXTENDS SnapshotClaims

CONSTANT MaxEvents  \* bound: budgeted events of all kinds together

Budgets(c, e, r, f, l, x) ==
  [create |-> c, edit |-> e, remove |-> r, fault |-> f, relist |-> l, crash |-> x, loss |-> 0]

\* One name that may be used twice, and one of everything that may go wrong.
SafetyBudget   == Budgets(2, 1, 1, 1, 1, 1)
LivenessBudget == Budgets(1, 1, 0, 1, 0, 1)
ReuseBudget    == Budgets(2, 0, 1, 0, 0, 0)

Spent(kind) == Budget[kind] - budget[kind]

FewEvents ==
  Spent("create") + Spent("edit") + Spent("remove")
    + Spent("fault") + Spent("relist") + Spent("crash") <= MaxEvents
=============================================================================
