------------------------- MODULE MCRestoreController -------------------------
(* A small instance of RestoreController for TLC.                          *)
EXTENDS RestoreController, TLC

\* A name may be used twice, everything else may happen once.
AtMost(n) == [k \in BudgetKinds |-> CASE k = "any" -> n [] k = "create" -> 2 [] OTHER -> 1]

TwoEvents   == AtMost(2)
ThreeEvents == AtMost(3)

\* The workers are all alike.
WorkersAlike == Permutations(Workers)

\* The Snapshots move only while a worker is about to look at one or at its
\* file: their other steps can wait until then, nobody sees the difference.
SnapshotsMoveWhenSeen ==
  snapshotVars' # snapshotVars =>
    \E t \in Workers : Busy(t) /\ thread[t].pc \in {"snapshot", "lookup", "restore"}

=============================================================================
