--------------------------- MODULE RestoreLifecycle ---------------------------
(***************************************************************************)
(* What the controller promises for each Restore name, without lister,     *)
(* queue, versions or time: a Restore waits, one worker takes it out of    *)
(* InQueue, that worker and no other ends it, and it ends Completed only   *)
(* after the worker has fetched the archive, which it does once. Unlike a  *)
(* Snapshot (SnapshotLifecycle) nobody ends it when its worker is gone.    *)
(***************************************************************************)
CONSTANT Names

VARIABLES
  phase,   \* name -> phase of the Restore, or "absent"
  stage    \* name -> what some worker is doing with the name

lifeVars == <<phase, stage>>

States == {"absent", "", "InQueue", "InProgress", "Completed", "Failed"}

\* Nobody works on it; a worker looks things up; it has fetched the archive.
Stages == {"none", "checking", "restoring"}

LifeInit ==
  /\ phase = [n \in Names |-> "absent"]
  /\ stage = [n \in Names |-> "none"]

Move(n, from, to) ==
  /\ phase[n] \in from
  /\ phase' = [phase EXCEPT ![n] = to]

Turn(n, from, to) ==
  /\ stage[n] \in from
  /\ stage' = [stage EXCEPT ![n] = to]

Make(n)    == Move(n, {"absent"}, "") /\ UNCHANGED stage
Remove(n)  == Move(n, States \ {"absent"}, "absent") /\ UNCHANGED stage
Accept(n)  == Move(n, {""}, "InQueue") /\ UNCHANGED stage
Reject(n)  == Move(n, {""}, "Failed") /\ UNCHANGED stage

\* A worker starts; without an answer from the API server it stops at once,
\* and the Restore stays InProgress.
Begin(n) ==
  /\ Move(n, {"InQueue"}, "InProgress")
  /\ Turn(n, {"none"}, "checking") \/ UNCHANGED stage

Fetch(n) == Turn(n, {"checking"}, "restoring") /\ UNCHANGED phase

\* The result is recorded, unless the resource changed or went away
\* meanwhile, or the call that records it failed.
Complete(n) == Turn(n, {"restoring"}, "none") /\ Move(n, {"InProgress"}, "Completed")
Fail(n)     == Turn(n, Stages \ {"none"}, "none") /\ Move(n, {"InProgress"}, "Failed")
Lose(n)     == Turn(n, Stages \ {"none"}, "none") /\ UNCHANGED phase

\* An expired Restore could not be deleted.
Condemn(n) == Move(n, {"Completed"}, "Failed") /\ UNCHANGED stage

Die == stage' = [n \in Names |-> "none"] /\ UNCHANGED phase

LifeNext ==
  \/ Die
  \/ \E n \in Names :
       \/ Make(n) \/ Remove(n) \/ Accept(n) \/ Reject(n) \/ Begin(n) \/ Fetch(n)
       \/ Complete(n) \/ Fail(n) \/ Lose(n) \/ Condemn(n)

LifeSpec == LifeInit /\ [][LifeNext]_lifeVars

=============================================================================
