--------------------------- MODULE SnapshotLifecycle ---------------------------
(***************************************************************************)
(* What the controller promises for each Snapshot name, without lister,    *)
(* queue, versions or time: a Snapshot waits, is taken by one thread at a  *)
(* time, and ends Completed or Failed. "Completed" is reached only by the  *)
(* thread that moved the resource from InQueue to InProgress, and nothing  *)
(* that has ended is taken again.                                          *)
(*                                                                         *)
(* With Audited the object syncer also runs, which may turn Completed into *)
(* Failed and back when the file in the object store is missing, wrong, or *)
(* right again, and makes Snapshots from files that have none.             *)
(***************************************************************************)
CONSTANTS Names, Audited

VARIABLES
  phase,   \* name -> phase of the Snapshot, or "absent"
  taking   \* names some thread is making a snapshot of

lifeVars == <<phase, taking>>

States == {"absent", "", "InQueue", "InProgress", "Completed", "Failed"}

LifeInit == phase = [n \in Names |-> "absent"] /\ taking = {}

Move(n, from, to) ==
  /\ phase[n] \in from
  /\ phase' = [phase EXCEPT ![n] = to]

Make(n)   == Move(n, {"absent"}, "") /\ UNCHANGED taking
Remove(n) == Move(n, States \ {"absent"}, "absent") /\ UNCHANGED taking
Accept(n) == Move(n, {""}, "InQueue") /\ UNCHANGED taking
Reject(n) == Move(n, {""}, "Failed") /\ UNCHANGED taking

\* A thread starts; it may stop at once, when it does not hear that it has.
Begin(n) ==
  /\ n \notin taking
  /\ Move(n, {"InQueue"}, "InProgress")
  /\ taking' = taking \cup {n} \/ UNCHANGED taking

\* The thread ends, and its result is recorded unless the resource changed
\* or went away meanwhile.
End(n) ==
  /\ n \in taking
  /\ taking' = taking \ {n}
  /\ \/ Move(n, {"InProgress"}, "Completed")
     \/ Move(n, {"InProgress"}, "Failed")
     \/ UNCHANGED phase

\* Nobody is making the snapshot any more.
Abandon(n) == n \notin taking /\ Move(n, {"InProgress"}, "Failed") /\ UNCHANGED taking

\* An expired Snapshot could not be deleted. One made from a file may have
\* expired before it is taken.
Condemn(n) ==
  /\ Move(n, {"Completed"} \cup {p \in {"InQueue"} : Audited}, "Failed")
  /\ UNCHANGED taking

Revalidate(n) == Audited /\ Move(n, {"Failed"}, "Completed") /\ UNCHANGED taking

\* A Snapshot made from the file in the object store is Completed at once.
Recover(n) == Audited /\ Move(n, {""}, "Completed") /\ UNCHANGED taking

Die == taking' = {} /\ UNCHANGED phase

LifeNext ==
  \/ Die
  \/ \E n \in Names :
       \/ Make(n) \/ Remove(n) \/ Accept(n) \/ Reject(n)
       \/ Begin(n) \/ End(n) \/ Abandon(n) \/ Condemn(n) \/ Revalidate(n)
       \/ Recover(n)

LifeSpec == LifeInit /\ [][LifeNext]_lifeVars

=============================================================================
