----------------------------- MODULE SyncerClaims -----------------------------
(***************************************************************************)
(* What a comment says of the object syncer and the code does not keep,    *)
(* checked by a run that expects the violation and reported as a finding.  *)
(***************************************************************************)
EXTENDS ObjectSyncer

\* "Update snapshot as 'Completed'": a Snapshot restored from its file is kept
\* as it is. Only such a Snapshot has an expiration before it has ended (see
\* UntilOnlyWhenEnded). The lister has seldom seen it when the syncer looks it
\* up, so it stays just created, and the workers take it again.
RestoredIsNotTaken ==
  \A n \in Names :
    Exists(n) /\ snaps[n].until # 0 => snaps[n].phase \notin {"InQueue", "InProgress"}

===============================================================================
