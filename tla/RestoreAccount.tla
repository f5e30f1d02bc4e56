---------------------------- MODULE RestoreAccount ----------------------------
(***************************************************************************)
(* What a call of Restore promises, without directories, passes, files or  *)
(* the target cluster: it tries what its preference selects of the         *)
(* archive, one item at a time and each once, and a claim only after its   *)
(* volume was made. It succeeds when there is nothing left to try, and     *)
(* adds nothing to its account after it has returned. Calls never touch    *)
(* each other's accounts.                                                  *)
(***************************************************************************)
CONSTANTS
  Restores,       \* calls of Restore
  Archives,       \* sets of items
  Prefs,          \* RestorePreferences
  Selected(_, _)  \* the items of an archive that a preference selects

VARIABLES
  archive,  \* the items in the archive
  pref,     \* call -> its RestorePreference
  stage,    \* call -> "open", "done" or "failed"
  tried,    \* call -> items it has tried to create
  made      \* call -> those it has created

accountVars == <<archive, pref, stage, tried, made>>

AccountInit ==
  /\ archive \in Archives
  /\ pref  \in [Restores -> Prefs]
  /\ stage = [r \in Restores |-> "open"]
  /\ tried = [r \in Restores |-> {}]
  /\ made  = [r \in Restores |-> {}]

IsVolume(i) == i.kind = "PersistentVolume"
IsClaim(i)  == i.kind = "PersistentVolumeClaim"

\* The volume of a claim has been made.
Backed(r, c) == \E v \in made[r] : IsVolume(v) /\ v.name = c.volume

\* Claims may share a volume, and it is tried for each of them. (What is
\* selected takes longest to find, and comes last.)
Try(r, i) ==
  /\ stage[r] = "open"
  /\ i \notin tried[r] \/ IsVolume(i)
  /\ IsClaim(i) => Backed(r, i)
  /\ tried' = [tried EXCEPT ![r] = @ \cup {i}]
  /\ made' = [made EXCEPT ![r] = @ \cup {i}] \/ UNCHANGED made
  /\ UNCHANGED <<archive, pref, stage>>
  /\ i \in Selected(pref[r], archive)

\* What is not tried are claims whose volume was, and was there or failed.
Succeed(r) ==
  /\ stage[r] = "open"
  /\ stage' = [stage EXCEPT ![r] = "done"]
  /\ \A i \in Selected(pref[r], archive) \ tried[r] :
       IsClaim(i) /\ \E v \in tried[r] : IsVolume(v) /\ v.name = i.volume
  /\ UNCHANGED <<archive, pref, tried, made>>

GiveUp(r) ==
  /\ stage[r] = "open"
  /\ stage' = [stage EXCEPT ![r] = "failed"]
  /\ UNCHANGED <<archive, pref, tried, made>>

AccountNext ==
  \E r \in Restores :
    \/ \E i \in archive : Try(r, i)
    \/ Succeed(r) \/ GiveUp(r)

AccountSpec == AccountInit /\ [][AccountNext]_accountVars

=============================================================================
