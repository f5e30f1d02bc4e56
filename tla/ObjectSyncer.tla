----------------------------- MODULE ObjectSyncer -----------------------------
(***************************************************************************)
(* The object syncer (backup_syncer.go) beside the controller: it compares *)
(* the files in the object store with the Snapshot resources, once before  *)
(* the workers start and then every 300 seconds. It removes files without  *)
(* a Snapshot or makes Snapshots from them, and moves Snapshots that have  *)
(* ended between Completed and Failed.                                     *)
(*                                                                         *)
(* A sweep reads the files, then the resources, then acts on what it read: *)
(* everything else goes on meanwhile.                                      *)
(***************************************************************************)
EXTENDS SnapshotController

CONSTANTS
  Housekeep,         \* -housekeepstore
  RestoreSnapshots,  \* -restoresnapshots
  Validate,          \* -validatefileinfo
  BucketOrder,       \* the order the ObjectstoreConfigs are listed in; there is one
  NoSweep

ASSUME SyncerAssumption ==
  /\ {Housekeep, RestoreSnapshots, Validate} \subseteq BOOLEAN
  /\ BucketOrder \in Seq(Buckets) \ {<<>>}
  /\ \A b \in Buckets : \E i \in DOMAIN BucketOrder : BucketOrder[i] = b

VARIABLES
  started,  \* the workers run: the initial sync is over
  sweep     \* the sweep going on, or NoSweep

syncVars == <<vars, started, sweep>>

Files == [Buckets -> [Names -> Object \cup {NoObject}]]

NoFiles == [b \in Buckets |-> [n \in Names |-> NoObject]]

\* A file no listed Snapshot has the name of.
Orphan == [bucket : Buckets, key : Names, file : Object]

\* An update the sweep will make, in this order of reasons: the file is in
\* another bucket; the file does not match; matching is not asked for; there
\* is no file; the file is right.
WriteOrder == <<{"moved"}, {"notMatched", "trusted"}, {"notFound"}, {"valid"}>>
Fix == [why : UNION {WriteOrder[i] : i \in DOMAIN WriteOrder}, key : Names, snap : Snapshot]

\* remove and recover are syncObjects's first two parameters; left are the
\* buckets still to be listed and files what the others listed; restoring is
\* the Snapshot recovered from a file, after its creation.
Sweep ==
  [call : {"objects", "snapshots", "fix", "create", "get", "complete"},
   remove : BOOLEAN, recover : BOOLEAN,
   left : Seq(Buckets), files : Files, orphans : SUBSET Orphan, fixes : SUBSET Fix,
   restoring : [orphan : Orphan, snap : Snapshot \cup {NoSnap}] \cup {NoSnap}]

SyncTypeOK ==
  /\ TypeOK
  /\ started \in BOOLEAN
  /\ sweep \in Sweep \cup {NoSweep}

NewSweep(remove, recover) ==
  IF remove \/ recover \/ Validate
  THEN [call |-> "objects", remove |-> remove, recover |-> recover,
        left |-> BucketOrder, files |-> NoFiles, orphans |-> {}, fixes |-> {},
        restoring |-> NoSnap]
  ELSE NoSweep

\* Run: the caches are synced, the initial sync comes before the workers.
Boot ==
  /\ sweep' = NewSweep(FALSE, RestoreSnapshots)
  /\ started' = (sweep' = NoSweep)

SyncInit ==
  /\ Init
  /\ sweep = NewSweep(FALSE, RestoreSnapshots)
  /\ started = (sweep = NoSweep)

Calling(call) == sweep # NoSweep /\ sweep.call = call

\* The sweep is over, with an error or without: after the first one the
\* workers start.
Finish == sweep' = NoSweep /\ started' = TRUE

Continue(next) == sweep' = next /\ UNCHANGED started

\* Mutant: only the initial sync.
StartSweepNever == FALSE

\* runObjectSyncer, every 300 seconds.
StartSweep ==
  /\ started
  /\ sweep = NoSweep
  /\ NewSweep(Housekeep, FALSE) # NoSweep
  /\ Continue(NewSweep(Housekeep, FALSE))
  /\ UNCHANGED vars

-----------------------------------------------------------------------------
(* Reading.                                                                *)

\* getObjectList: one call for each bucket.
ListBucket ==
  /\ Calling("objects")
  /\ LET b == Head(sweep.left)
         rest == Tail(sweep.left)
     IN Continue([sweep EXCEPT
          !.files[b] = objects[b], !.left = rest,
          !.call = IF rest = <<>> THEN "snapshots" ELSE "objects"])
  /\ UNCHANGED vars

Holding(files, n) == {i \in DOMAIN BucketOrder : files[BucketOrder[i]][n] # NoObject}

\* The file looked at for name n: the first in the list with its name.
FirstHolding(files, n) ==
  BucketOrder[CHOOSE i \in Holding(files, n) : \A j \in Holding(files, n) : i <= j]

\* Mutants: a Snapshot counts once it is Completed; files that are not there
\* are orphans.
OrphansNotCompleted(files) ==
  LET lone == {p \in Buckets \X Names : /\ Exists(p[2]) => snaps[p[2]].phase # "Completed"
                                        /\ files[p[1]][p[2]] # NoObject}
  IN {[bucket |-> p[1], key |-> p[2], file |-> files[p[1]][p[2]]] : p \in lone}

OrphansUnseen(files) ==
  LET lone == {p \in Buckets \X Names : ~Exists(p[2])}
  IN {[bucket |-> p[1], key |-> p[2], file |-> files[p[1]][p[2]]] : p \in lone}

Orphans(files) ==
  LET lone == {p \in Buckets \X Names : ~Exists(p[2]) /\ files[p[1]][p[2]] # NoObject}
  IN {[bucket |-> p[1], key |-> p[2], file |-> files[p[1]][p[2]]] : p \in lone}

\* Mutant: the bucket is not compared.
JudgedAnywhere(files, n) ==
  LET s == snaps[n]
  IN [key |-> n, snap |-> s, why |->
        CASE Holding(files, n) = {} -> "notFound"
          [] OTHER -> IF files[FirstHolding(files, n)][n].stamp = s.stored THEN "valid"
                      ELSE IF Validate THEN "notMatched" ELSE "trusted"]

\* What the comparison says of the Snapshot n, which has ended, and the copy
\* it goes on with.
Judged(files, n) ==
  LET s == snaps[n]
      b == FirstHolding(files, n)
  IN CASE Holding(files, n) = {} -> [why |-> "notFound", key |-> n, snap |-> s]
       [] OTHER ->
          IF files[b][n].stamp # s.stored
          THEN [why |-> IF Validate THEN "notMatched" ELSE "trusted", key |-> n, snap |-> s]
          ELSE IF b # s.config
          THEN [why |-> "moved", key |-> n, snap |-> [s EXCEPT !.config = b]]
          ELSE [why |-> "valid", key |-> n, snap |-> s]

\* The phase a verdict gives, or the present one.
Verdict(f) ==
  CASE f.why \in {"notMatched", "notFound"} -> Marked(f.snap, "Failed", f.why)
    [] f.why \in {"trusted", "valid"}       -> Marked(f.snap, "Completed", "")
    [] f.why = "moved"                      -> f.snap

\* Mutant: a missing file counts only when Snapshots are restored.
NeededOnRestore(f) ==
  \/ f.why = "moved"
  \/ Verdict(f).phase # f.snap.phase /\ (f.why = "notFound" => sweep.recover)

\* An update is made only where the phase changes; a missing file counts only
\* when orphan files are removed.
Needed(f) ==
  \/ f.why = "moved"
  \/ Verdict(f).phase # f.snap.phase /\ (f.why = "notFound" => sweep.remove)

\* Mutant: Snapshots that wait or are being taken are compared too.
ComparedAll == {n \in Names : Exists(n)}

\* The Snapshots that are compared with the files (222-226).
Compared == {n \in Names : Exists(n) /\ Ended(n)}

\* Snapshots.List, and the comparison.
ListSnapshots ==
  /\ Calling("snapshots")
  /\ Continue([sweep EXCEPT
       !.call = "fix", !.files = NoFiles,
       !.orphans = IF sweep.remove \/ sweep.recover THEN Orphans(sweep.files) ELSE {},
       !.fixes = {f \in {Judged(sweep.files, n) : n \in Compared} : Needed(f)}])
  /\ UNCHANGED vars

-----------------------------------------------------------------------------
(* Acting.                                                                 *)

\* The updates that come next: those of the other bucket before the orphans,
\* the rest after them.
Pending(why) == \E f \in sweep.fixes : f.why \in why
Due ==
  IF Pending(WriteOrder[1]) THEN {f \in sweep.fixes : f.why \in WriteOrder[1]}
  ELSE IF sweep.orphans # {} THEN {}
  ELSE IF Pending(WriteOrder[2]) THEN {f \in sweep.fixes : f.why \in WriteOrder[2]}
  ELSE IF Pending(WriteOrder[3]) THEN {f \in sweep.fixes : f.why \in WriteOrder[3]}
  ELSE sweep.fixes

\* The update is accepted. A Snapshot whose file was in another bucket goes
\* on as a valid one, with the updated resource.
FixAccepted ==
  /\ Calling("fix")
  /\ \E f \in Due :
       /\ Fresh(f.key, f.snap.rv)
       /\ Update(f.key, Verdict(f))
       /\ LET after == [why |-> "valid", key |-> f.key, snap |-> Returned(f.key, Verdict(f))]
          IN Continue([sweep EXCEPT
               !.fixes = (@ \ {f}) \cup
                 {x \in {after} : f.why = "moved" /\ x.snap.phase # "Completed"}])
  /\ UNCHANGED <<lister, queueVars, fileVars, now, budget, thread>>

\* Conflict or NotFound ends the sweep.
FixRefused ==
  /\ Calling("fix")
  /\ \E f \in Due : ~Fresh(f.key, f.snap.rv)
  /\ Finish
  /\ UNCHANGED vars

\* The update was stored and its reply lost: the sweep ends.
FixUnanswered ==
  /\ Calling("fix")
  /\ Spend("fault")
  /\ \E f \in Due : Fresh(f.key, f.snap.rv) /\ Update(f.key, Verdict(f))
  /\ Finish
  /\ UNCHANGED <<lister, queueVars, fileVars, now, thread>>

\* A list, a bucket or an update failed: the sweep ends.
SweepFailed ==
  /\ \/ Calling("objects") \/ Calling("snapshots")
     \/ Calling("fix") /\ (Due # {} \/ (sweep.remove /\ sweep.orphans # {}))
  /\ Spend("fault")
  /\ Finish
  /\ UNCHANGED <<apiVars, lister, queueVars, fileVars, now, thread>>

OrphansAreNext == Calling("fix") /\ ~Pending(WriteOrder[1]) /\ sweep.orphans # {}

\* Delete an orphan file. An error is only logged.
RemoveOrphan ==
  /\ OrphansAreNext /\ sweep.remove
  /\ \E o \in sweep.orphans :
       /\ Continue([sweep EXCEPT !.orphans = @ \ {o}])
       /\ \/ /\ objects' = [objects EXCEPT ![o.bucket][o.key] = NoObject]
             /\ UNCHANGED budget
          \/ Spend("fault") /\ UNCHANGED objects
  /\ UNCHANGED <<apiVars, lister, queueVars, uploads, now, thread>>

\* restoreSnapshotFromObject: download the file. Without it, or when the call
\* fails, the orphan is left.
DownloadOrphan ==
  /\ OrphansAreNext /\ sweep.recover
  /\ \E o \in sweep.orphans :
       \/ /\ objects[o.bucket][o.key] # NoObject
          /\ Continue([sweep EXCEPT !.orphans = @ \ {o}, !.call = "create",
               !.restoring = [orphan |-> [o EXCEPT !.file.json = objects[o.bucket][o.key].json],
                              snap |-> NoSnap]])
          /\ UNCHANGED budget
       \/ /\ objects[o.bucket][o.key] = NoObject
          /\ Continue([sweep EXCEPT !.orphans = @ \ {o}])
          /\ UNCHANGED budget
       \/ Spend("fault") /\ Continue([sweep EXCEPT !.orphans = @ \ {o}])
  /\ UNCHANGED <<apiVars, lister, queueVars, fileVars, now, thread>>

\* Go on with the next orphan.
NextOrphan == Continue([sweep EXCEPT !.call = "fix", !.restoring = NoSnap])

\* restoreSnapshotFromObjectFile: create the Snapshot that snapshot.json
\* describes. One of that name may exist by now, or the call may fail.
CreateRestored ==
  /\ Calling("create")
  /\ LET o == sweep.restoring.orphan IN
       \/ /\ Create(o.key, o.file.json)
          /\ Continue([sweep EXCEPT !.call = "get"])
          /\ UNCHANGED budget
       \/ Exists(o.key) /\ NextOrphan /\ UNCHANGED <<apiVars, budget>>
       \/ Spend("fault") /\ NextOrphan /\ (Create(o.key, o.file.json) \/ UNCHANGED apiVars)
  /\ UNCHANGED <<lister, queueVars, fileVars, now, thread>>

Later(a, b) == IF a < b THEN b ELSE a

\* Mutant: the cached copy is set to Completed before the update.
RestoredInPlace(s, file) ==
  [s EXCEPT !.stored = file.stamp, !.until = Later(@, now + DefaultTTL), !.phase = "Completed"]

\* The copy with what the file says, available for 30 days at least.
Restored(s, file) == [s EXCEPT !.stored = file.stamp, !.until = Later(@, now + DefaultTTL)]

\* Look the new Snapshot up in the lister, which may not have it yet; what is
\* set on the copy is set in the cache.
GetRestored ==
  /\ Calling("get")
  /\ LET o == sweep.restoring.orphan
         s == lister[o.key]
         x == Restored(s, o.file)
     IN \/ s = NoSnap /\ NextOrphan /\ UNCHANGED lister
        \/ /\ s # NoSnap
           /\ lister' = [lister EXCEPT ![o.key] = x]
           /\ Continue([sweep EXCEPT !.call = "complete", !.restoring.snap = x])
  /\ UNCHANGED <<apiVars, queueVars, fileVars, now, budget, thread>>

\* Update it as Completed; a refusal or a failure is only logged.
CompleteRestored ==
  /\ Calling("complete")
  /\ LET k == sweep.restoring.orphan.key
         s == sweep.restoring.snap
         x == Marked(s, "Completed", "")
     IN \/ Fresh(k, s.rv) /\ Update(k, x) /\ UNCHANGED budget
        \/ ~Fresh(k, s.rv) /\ UNCHANGED <<apiVars, budget>>
        \/ Spend("fault") /\ UNCHANGED apiVars
        \/ Spend("fault") /\ Fresh(k, s.rv) /\ Update(k, x)
  /\ NextOrphan
  /\ UNCHANGED <<lister, queueVars, fileVars, now, thread>>

EndSweep ==
  /\ Calling("fix") /\ sweep.fixes = {} /\ sweep.orphans = {}
  /\ Finish
  /\ UNCHANGED vars

-----------------------------------------------------------------------------
(* What happens to files outside the controller.                           *)

\* Somebody removes a file, or recreates the ObjectstoreConfig of its bucket
\* under another name.
LoseObject ==
  /\ Spend("loss")
  /\ \E b \in Buckets, n \in Names :
       /\ objects[b][n] # NoObject
       /\ \/ objects' = [objects EXCEPT ![b][n] = NoObject]
          \/ \E c \in Buckets \ {b} :
               objects' = [objects EXCEPT ![b][n] = NoObject, ![c][n] = objects[b][n]]
  /\ UNCHANGED <<apiVars, lister, queueVars, uploads, now, thread, started, sweep>>

-----------------------------------------------------------------------------
SyncerStep ==
  \/ StartSweep \/ ListBucket \/ ListSnapshots
  \/ FixAccepted \/ FixRefused \/ RemoveOrphan \/ DownloadOrphan
  \/ CreateRestored \/ GetRestored \/ CompleteRestored \/ EndSweep

SyncerFault == FixUnanswered \/ SweepFailed

\* The threads run once the initial sync is over.
ControllerStep ==
  /\ \/ \E n \in Names : Informer(n)
     \/ started /\ \E t \in Threads : ThreadNext(t)
  /\ UNCHANGED <<started, sweep>>

SyncNext ==
  \/ Environment /\ UNCHANGED <<started, sweep>>
  \/ ControllerStep
  \/ SyncerStep
  \/ SyncerFault
  \/ LoseObject
  \/ Restart /\ Boot

SyncSpec == SyncInit /\ [][SyncNext]_syncVars

-----------------------------------------------------------------------------
(* Properties. With CompletedIsStored (SnapshotController): a sweep never  *)
(* takes the file of a Snapshot whose name was not used before, because it *)
(* reads the files before the resources.                                   *)

\* What SnapshotLifecycle promises holds with the syncer beside the handlers:
\* it moves only Snapshots that have ended, and no sweep, however old what it
\* read, disturbs one that waits or is being taken.
AuditedLifecycle == INSTANCE SnapshotLifecycle WITH
  Audited <- TRUE,
  phase   <- [n \in Names |-> IF Exists(n) THEN snaps[n].phase ELSE "absent"],
  taking  <- {n \in Names : \E t \in Threads : TakerOf(t, n)}

ImplementsAudited == AuditedLifecycle!LifeSpec

\* The sweep is one goroutine that is started every 300 seconds; its calls
\* return.
FairSync == SyncSpec /\ WF_syncVars(SyncerStep)

HasFile(b, n) == objects[b][n] # NoObject
NowhereStored(n) == \A b \in Buckets : ~HasFile(b, n)

\* A Snapshot whose file is gone does not stay Completed (with -housekeepstore).
LostIsFailed ==
  \A n \in Names :
    Exists(n) /\ snaps[n].phase = "Completed" /\ NowhereStored(n)
      ~> (~Exists(n) \/ snaps[n].phase # "Completed" \/ ~NowhereStored(n))

\* A file without a Snapshot is removed or gets its Snapshot back: also when
\* the deletion handler failed, or the process was down when its Snapshot was
\* deleted.
OrphanIsSettled ==
  \A b \in Buckets, n \in Names :
    HasFile(b, n) /\ ~Exists(n) ~> (~HasFile(b, n) \/ Exists(n))

StoredIn(b, n) == HasFile(b, n) /\ objects[b][n].stamp = snaps[n].stored

\* A Completed Snapshot whose file is in another bucket than it says comes to
\* name that bucket, which is where a restore looks for the file.
MovedIsFollowed ==
  \A n \in Names, b \in Buckets :
    Exists(n) /\ snaps[n].phase = "Completed" /\ StoredIn(b, n)
      ~> (~Exists(n) \/ snaps[n].phase # "Completed" \/ ~StoredIn(b, n) \/ snaps[n].config = b)

=============================================================================
