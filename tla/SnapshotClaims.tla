---------------------------- MODULE SnapshotClaims ----------------------------
(***************************************************************************)
(* What the repository's documents say of Snapshots and the code does not  *)
(* keep, checked by a run that expects the violation and reported as a     *)
(* finding.                                                                *)
(***************************************************************************)
EXTENDS SnapshotController

\* "Completed | Snapshot done and available for restore": a Completed
\* Snapshot has a file. The deletion of an earlier Snapshot of the same name
\* is handled late and by name, and removes the file of the new one.
CompletedIsAvailable ==
  \A n \in Names :
    Exists(n) /\ snaps[n].phase = "Completed" => objects[snaps[n].config][n] # NoObject

===============================================================================
