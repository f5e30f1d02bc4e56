------------------------ MODULE SyncerLifecycle_proofs ------------------------
(***************************************************************************)
(* The controller with its object syncer implements SnapshotLifecycle, for *)
(* every set of names, buckets and workers, every choice of flags and      *)
(* every bound.                                                            *)
(***************************************************************************)
EXTENDS ObjectSyncer_proofs

-----------------------------------------------------------------------------
(* The inductive invariant.                                                *)

\* A Snapshot made from a file waits: no file says that its Snapshot did not.
FilesWait ==
  \A b \in Buckets, n \in Names :
    objects[b][n] # NoObject => objects[b][n].json.phase = ""

\* So does the one a sweep is recovering.
RecoveredWaits ==
  sweep # NoSweep =>
    /\ sweep.call = "create" => sweep.restoring.orphan.file.json.phase = ""
    /\ sweep.call \in {"get", "complete"} /\ Exists(sweep.restoring.orphan.key) =>
         snaps[sweep.restoring.orphan.key].phase = ""

AuditInv ==
  /\ SyncInv
  /\ CallsFit
  /\ FilesWait
  /\ RecoveredWaits

LEMMA AuditFacts ==
  ASSUME AuditInv
  PROVE  /\ SyncTypeOK /\ TypeOK /\ SweepFits /\ SweepAgrees /\ CopiesAgree
         /\ OneThreadPerKey /\ TakerOwnsResource /\ CallsFit /\ FilesWait /\ RecoveredWaits
         /\ LifeBase /\ Base
  BY DEF AuditInv, SyncInv, SyncTypeOK, LifeBase, Base

-----------------------------------------------------------------------------
(* A thread's call fits its copy. Other than in SnapshotController_proofs  *)
(* a copy that waits may have an expiration, and be deleted for it.        *)

\* The handler from line 172 on.
LEMMA NextCallFits ==
  ASSUME Constants, NEW s \in Snapshot, NEW at \in Nat
  PROVE  CallFits(NextCall(s, at).pc, NextCall(s, at).snap)
<1> DEFINE next == NextCall(s, at)
<1>1. next.snap.phase = s.phase
  BY NextCallType
<1>2. \/ next.pc \in {"past", "queue"} /\ s.phase = ""
      \/ next.pc \in {"expire", "edit", "return"}
      \/ next.pc = "delete" /\ s.phase # ""
  <2> DEFINE call(pc, x) == [pc |-> pc, snap |-> x, at |-> at]
             unset == s.phase = "Failed" /\ s.until = 0
             edited == /\ s.phase \in {"Completed", "Failed"} /\ ~unset
                       /\ s.specUntil \notin {0, s.until}
  <2>1. \/ s.phase = "" /\ next = call("past", s)
        \/ s.phase = "" /\ next = call("queue", WithTTL(s))
        \/ next = call("expire", [s EXCEPT !.until = FailedUntil(s)])
        \/ next = call("edit", [s EXCEPT !.until = s.specUntil])
        \/ next = call("return", s)
        \/ s.phase # "" /\ next = call("delete", s)
    BY DEF NextCall
  <2>2. \A pc, x : call(pc, x).pc = pc
    OBVIOUS
  <2> HIDE DEF call, next
  <2> QED
    BY <2>1, <2>2
<1> HIDE DEF next
<1>3. CallFits(next.pc, next.snap)
  BY <1>1, <1>2 DEF CallFits, TakingSteps
<1> QED
  BY <1>3 DEF next

\* The handler from its start.
LEMMA FirstCallFits ==
  ASSUME Constants, now \in Nat, NEW t, NEW s \in Snapshot
  PROVE  CallFits(FirstCall(t, s).pc, FirstCall(t, s).snap)
<1>1. CASE TimedOut(s)
  <2>1. FirstCall(t, s) = [pc |-> "stop", snap |-> s, at |-> 0]
    BY <1>1 DEF FirstCall
  <2> QED
    BY <1>1, <2>1 DEF CallFits, TimedOut, TakingSteps
<1>2. CASE ~TimedOut(s) /\ t \in Workers /\ s.phase = "InQueue"
  <2>1. FirstCall(t, s) = [pc |-> "start", snap |-> s, at |-> 0]
    BY <1>2 DEF FirstCall
  <2> QED
    BY <1>2, <2>1 DEF CallFits, TakingSteps
<1>3. CASE ~TimedOut(s) /\ ~(t \in Workers /\ s.phase = "InQueue")
  <2>1. FirstCall(t, s) = NextCall(s, now)
    BY <1>3 DEF FirstCall
  <2> QED
    BY <2>1, NextCallFits
<1> QED
  BY <1>1, <1>2, <1>3

\* The handler after an update.
LEMMA AfterWriteFits ==
  ASSUME Constants, now \in Nat, NEW k \in Task, k.pc \in WriteSteps, NEW x \in Snapshot,
         k.pc = "start" => x.phase = "InProgress"
  PROVE  CallFits(AfterWrite(k, x).pc, AfterWrite(k, x).snap)
<1>1. k.at \in Nat
  BY DEF Task
<1>2. CASE k.pc = "start"
  <2>1. AfterWrite(k, x) = [pc |-> "bucket", snap |-> x, at |-> 0]
    BY <1>2 DEF AfterWrite
  <2> QED
    BY <1>2, <2>1 DEF CallFits
<1>3. CASE k.pc \in {"fail", "past", "deletefail"}
  <2>1. AfterWrite(k, x) = [pc |-> "return", snap |-> x, at |-> k.at]
    BY <1>3 DEF AfterWrite
  <2> QED
    BY <2>1 DEF CallFits, TakingSteps
<1>4. CASE k.pc \in {"stop", "complete"}
  <2>1. AfterWrite(k, x) = NextCall(x, now)
    BY <1>4 DEF AfterWrite
  <2> QED
    BY <2>1, NextCallFits
<1>5. CASE k.pc \in {"queue", "expire", "edit"}
  <2>1. AfterWrite(k, x) = NextCall(x, k.at)
    BY <1>5 DEF AfterWrite
  <2> QED
    BY <1>1, <2>1, NextCallFits
<1> QED
  BY <1>2, <1>3, <1>4, <1>5 DEF WriteSteps

\* Threads that do nothing, or stop.
LEMMA CallsQuiet ==
  ASSUME CallsFit, \A t \in Threads : thread'[t] = thread[t] \/ thread'[t] = Idle
  PROVE  CallsFit'
  BY DEF CallsFit, Busy

\* One thread takes a key, or goes on with one.
LEMMA CallsProceed ==
  ASSUME TypeOK, CallsFit, NEW t \in Threads, NEW n, NEW next, Proceed(t, n, next),
         CallFits(next.pc, next.snap)
  PROVE  CallsFit'
<1> DEFINE k == [pc |-> next.pc, key |-> n, snap |-> next.snap, at |-> next.at]
<1>1. k.pc = next.pc /\ k.snap = next.snap
  OBVIOUS
<1>2. /\ thread'[t] = Idle \/ thread'[t] = k
      /\ \A u \in Threads \ {t} : thread'[u] = thread[u]
  BY DEF Proceed, TypeOK
<1> HIDE DEF k
<1> QED
  BY <1>1, <1>2 DEF CallsFit, Busy

\* Or goes on with its copy.
LEMMA CallsGoto ==
  ASSUME TypeOK, CallsFit, NEW t \in Threads, Busy(t), NEW pc, NEW x, Goto(t, pc, x),
         CallFits(pc, x)
  PROVE  CallsFit'
<1>1. thread \in [Threads -> Task \cup {Idle}] /\ thread[t] \in Task
  BY DEF TypeOK, Busy
<1>2. /\ thread'[t] = [thread[t] EXCEPT !.pc = pc, !.snap = x]
      /\ \A u \in Threads \ {t} : thread'[u] = thread[u]
  BY <1>1 DEF Goto
<1>3. thread'[t].pc = pc /\ thread'[t].snap = x
  BY <1>1, <1>2 DEF Task
<1> QED
  BY <1>2, <1>3 DEF CallsFit, Busy

\* Every step of a thread leaves calls that fit.
LEMMA ThreadCalls ==
  ASSUME Constants, LifeBase, NEW t \in Threads, ThreadNext(t)
  PROVE  CallsFit'
<1>0. TypeOK /\ CallsFit /\ now \in Nat
  BY DEF LifeBase, TypeOK, StoreTypeOK
<1>1. Busy(t) => /\ thread[t] \in Task /\ thread[t].key \in Names /\ thread[t].snap \in Snapshot
                 /\ CallFits(thread[t].pc, thread[t].snap)
  BY BusyFacts
<1>2. ASSUME thread' = [thread EXCEPT ![t] = Idle] PROVE CallsFit'
  BY <1>0, <1>2, CallsQuiet DEF TypeOK
<1>3. ASSUME NEW n \in Names, StartSync(t, n) PROVE CallsFit'
  <2>1. CASE UNCHANGED thread
    BY <1>0, <2>1, CallsQuiet
  <2>2. CASE lister[n] # NoSnap /\ Proceed(t, n, FirstCall(t, lister[n]))
    <3>1. lister[n] \in Snapshot
      BY <1>0, <2>2 DEF TypeOK, StoreTypeOK
    <3> QED
      BY <1>0, <2>2, <3>1, FirstCallFits, CallsProceed
  <2> QED
    BY <1>3, <2>1, <2>2 DEF StartSync
<1>4. CASE UpdateAccepted(t)
  <2> DEFINE x == Returned(thread[t].key, Target(t))
             next == AfterWrite(thread[t], x)
  <2>1. /\ Busy(t) /\ thread[t].pc \in WriteSteps /\ Fresh(thread[t].key, thread[t].snap.rv)
        /\ Proceed(t, thread[t].key, next)
    BY <1>4 DEF UpdateAccepted, Writing
  <2>2. Target(t) \in Snapshot
    BY <1>0, <2>1, TargetType DEF Writing
  <2>3. x \in Snapshot /\ x.phase = Target(t).phase
    BY <1>0, <1>1, <2>1, <2>2, ReturnedType, ReturnedPhase DEF TypeOK, Fresh
  <2> HIDE DEF x
  <2>4. thread[t].pc = "start" => x.phase = "InProgress"
    BY <1>1, <2>1, <2>3, WrittenPhase DEF Target
  <2>5. CallFits(next.pc, next.snap)
    BY <1>0, <1>1, <2>1, <2>3, <2>4, AfterWriteFits
  <2> HIDE DEF next
  <2> QED
    BY <1>0, <2>1, <2>5, CallsProceed
<1>5. CASE \/ UpdateRefused(t) \/ UpdateFailed(t) \/ UpdateUnanswered(t) \/ DeleteExpired(t)
  BY <1>2, <1>5 DEF UpdateRefused, UpdateFailed, UpdateUnanswered, DeleteExpired, Requeue
<1>6. CASE DeleteRefused(t) \/ DeleteFailed(t)
  <2>1. Busy(t) /\ thread[t].pc = "delete" /\ Goto(t, "deletefail", thread[t].snap)
    BY <1>6 DEF DeleteRefused, DeleteFailed, At
  <2>2. CallFits("deletefail", thread[t].snap)
    BY <1>1, <2>1 DEF CallFits, TakingSteps
  <2> QED
    BY <1>0, <2>1, <2>2, CallsGoto
<1>7. CASE \/ GetBucket(t) \/ TakeSnapshot(t) \/ Upload(t) \/ ObjectInfo(t)
           \/ ObjectInfoFailed(t) \/ GiveUp(t)
  <2> DEFINE s == thread[t].snap
  <2>1. Busy(t) /\ thread[t].pc \in TakingSteps
    BY <1>7 DEF GetBucket, TakeSnapshot, Upload, ObjectInfo, ObjectInfoFailed, GiveUp, At,
                TakingSteps
  <2>2. s \in Snapshot /\ s.phase = "InProgress"
    BY <1>1, <2>1 DEF CallFits
  <2>3. ASSUME NEW pc \in TakingSteps, NEW x, x.phase = "InProgress", Goto(t, pc, x)
        PROVE  CallsFit'
    <3>1. CallFits(pc, x)
      BY <2>3 DEF CallFits, TakingSteps
    <3> QED
      BY <1>0, <2>1, <2>3, <3>1, CallsGoto
  <2>4. \/ \E pc \in TakingSteps : Goto(t, pc, s)
        \/ \E u : Goto(t, "upload", [s EXCEPT !.until = u])
        \/ \E u : Goto(t, "complete", [s EXCEPT !.stored = u])
    <3>1. CASE GetBucket(t) \/ Upload(t) \/ ObjectInfoFailed(t) \/ GiveUp(t)
      BY <3>1 DEF GetBucket, Upload, ObjectInfoFailed, GiveUp, TakingSteps
    <3>2. CASE TakeSnapshot(t)
      BY <3>2 DEF TakeSnapshot
    <3>3. CASE ObjectInfo(t)
      BY <3>3 DEF ObjectInfo, TakingSteps
    <3> QED
      BY <1>7, <3>1, <3>2, <3>3
  <2>5. \A u : /\ [s EXCEPT !.until = u].phase = "InProgress"
               /\ [s EXCEPT !.stored = u].phase = "InProgress"
    BY <2>2 DEF Snapshot
  <2>6. "upload" \in TakingSteps /\ "complete" \in TakingSteps
    BY DEF TakingSteps
  <2> HIDE DEF s
  <2> QED
    BY <2>2, <2>3, <2>4, <2>5, <2>6
<1> QED
  BY <1>3, <1>4, <1>5, <1>6, <1>7 DEF ThreadNext, Advance, Fault

-----------------------------------------------------------------------------
(* What waits: the files, and the Snapshot a sweep recovers.               *)

\* Files are left, removed, moved, or written as Upload does.
LEMMA FilesLater ==
  ASSUME FilesWait,
         \A b \in Buckets, n \in Names :
           \/ objects'[b][n] = NoObject
           \/ objects'[b][n].json.phase = ""
           \/ \E c \in Buckets : objects'[b][n] = objects[c][n]
  PROVE  FilesWait'
<1> SUFFICES ASSUME NEW b \in Buckets, NEW n \in Names, objects'[b][n] # NoObject
             PROVE  objects'[b][n].json.phase = ""
  BY DEF FilesWait
<1>1. CASE \E c \in Buckets : objects'[b][n] = objects[c][n]
  <2>1. PICK c \in Buckets : objects'[b][n] = objects[c][n]
    BY <1>1
  <2> QED
    BY <2>1 DEF FilesWait
<1> QED
  BY <1>1

\* One file is removed or written.
LEMMA FileLater ==
  ASSUME TypeOK, FilesWait, NEW b \in Buckets, NEW n \in Names, NEW x,
         objects' = [objects EXCEPT ![b][n] = x], x = NoObject \/ x.json.phase = ""
  PROVE  FilesWait'
<1>1. /\ objects \in [Buckets -> [Names -> Object \cup {NoObject}]]
  BY DEF TypeOK, StoreTypeOK
<1>2. ASSUME NEW c \in Buckets, NEW m \in Names
      PROVE  objects'[c][m] = IF c = b /\ m = n THEN x ELSE objects[c][m]
  BY <1>1
<1>3. ASSUME NEW c \in Buckets, NEW m \in Names
      PROVE  \/ objects'[c][m] = NoObject
             \/ objects'[c][m].json.phase = ""
             \/ \E d \in Buckets : objects'[c][m] = objects[d][m]
  <2>1. CASE c = b /\ m = n
    <3>1. objects'[c][m] = x
      BY <1>2, <2>1
    <3> QED
      BY <3>1
  <2>2. CASE ~(c = b /\ m = n)
    <3>1. objects'[c][m] = objects[c][m]
      BY <1>2, <2>2
    <3> QED
      BY <3>1
  <2> QED
    BY <2>1, <2>2
<1> QED
  BY <1>3, FilesLater

\* No step has a file say otherwise.
LEMMA FilesNext ==
  ASSUME AuditInv, SyncNext
  PROVE  FilesWait'
<1>0. TypeOK /\ FilesWait /\ SyncTypeOK
  BY AuditFacts
<1>1. CASE UNCHANGED objects
  BY <1>0, <1>1 DEF FilesWait
<1>2. ASSUME NEW n \in Names, DeleteSnapshot(n) PROVE FilesWait'
  <2>1. notes[n] \in Seq(Note) /\ notes[n] # <<>> /\ Head(notes[n]).op = "delete"
    BY <1>0, <1>2 DEF DeleteSnapshot, TypeOK, StoreTypeOK
  <2>2. Head(notes[n]) \in Note
    BY <2>1
  <2>3. PICK b : b = Head(notes[n]).config
    OBVIOUS
  <2>4. b \in Buckets
    BY <2>1, <2>2, <2>3 DEF Note
  <2>5. objects' = [objects EXCEPT ![b][n] = NoObject] \/ UNCHANGED objects
    BY <1>2, <2>3 DEF DeleteSnapshot
  <2> QED
    BY <1>0, <1>1, <2>4, <2>5, FileLater
<1>3. ASSUME NEW t \in Threads, Upload(t) PROVE FilesWait'
  <2> DEFINE s == thread[t].snap
             x == [stamp |-> uploads[thread[t].key] + 1, json |-> Json(s)]
  <2>1. s \in Snapshot /\ thread[t].key \in Names
    BY <1>0, <1>3 DEF Upload, At, Busy, TypeOK, Task
  <2>2. s.config \in Buckets /\ x.json.phase = ""
    BY <2>1 DEF Json, Snapshot
  <2>3. objects' = [objects EXCEPT ![s.config][thread[t].key] = x]
    BY <1>3 DEF Upload
  <2> HIDE DEF x
  <2> QED
    BY <1>0, <2>1, <2>2, <2>3, FileLater
<1>4. CASE RemoveOrphan
  <2>1. PICK o \in sweep.orphans :
          objects' = [objects EXCEPT ![o.bucket][o.key] = NoObject] \/ UNCHANGED objects
    BY <1>4 DEF RemoveOrphan
  <2>2. o.bucket \in Buckets /\ o.key \in Names
    BY <1>0, <1>4 DEF RemoveOrphan, OrphansAreNext, Calling, SyncTypeOK, Sweep, Orphan
  <2> QED
    BY <1>0, <1>1, <2>1, <2>2, FileLater
<1>5. CASE LoseObject
  <2>1. PICK b \in Buckets, n \in Names :
          \/ objects' = [objects EXCEPT ![b][n] = NoObject]
          \/ \E c \in Buckets \ {b} :
               objects' = [objects EXCEPT ![b][n] = NoObject, ![c][n] = objects[b][n]]
    BY <1>5 DEF LoseObject
  <2>2. CASE objects' = [objects EXCEPT ![b][n] = NoObject]
    BY <1>0, <2>2, FileLater
  <2>3. ASSUME NEW c \in Buckets \ {b},
               objects' = [objects EXCEPT ![b][n] = NoObject, ![c][n] = objects[b][n]]
        PROVE  FilesWait'
    <3>1. objects \in [Buckets -> [Names -> Object \cup {NoObject}]]
      BY <1>0 DEF TypeOK, StoreTypeOK
    <3>2. ASSUME NEW d \in Buckets, NEW m \in Names
          PROVE  \/ objects'[d][m] = NoObject
                 \/ objects'[d][m] = objects[b][m]
                 \/ objects'[d][m] = objects[d][m]
      <4>1. CASE d = c
        BY <2>3, <3>1, <4>1
      <4>2. CASE d = b
        BY <2>3, <3>1, <4>2
      <4>3. CASE d # b /\ d # c
        BY <2>3, <3>1, <4>3
      <4> QED
        BY <4>1, <4>2, <4>3
    <3> QED
      BY <1>0, <3>2, FilesLater
  <2> QED
    BY <2>1, <2>2, <2>3
<1>6. CASE \/ Environment
           \/ SyncerStep /\ ~RemoveOrphan
           \/ SyncerFault
           \/ Restart
  <2>1. UNCHANGED objects
    BY <1>6 DEF Environment, User, UserCreate, UserEdit, UserDelete, Tick, Restart, SyncerStep,
       SyncerFault, StartSweep, ListBucket, ListSnapshots, FixAccepted, FixRefused,
       FixUnanswered, SweepFailed, DownloadOrphan, CreateRestored, GetRestored,
       CompleteRestored, EndSweep, vars, storeVars, fileVars
  <2> QED
    BY <1>1, <2>1
<1>7. ASSUME NEW n \in Names, Informer(n) PROVE FilesWait'
  BY <1>1, <1>2, <1>7
     DEF Informer, Deliver, Relist, Resync, EnqueueSnapshot, Ready, fileVars
<1>8. ASSUME NEW t \in Threads, ThreadNext(t) PROVE FilesWait'
  BY <1>1, <1>3, <1>8
     DEF ThreadNext, StartSync, Advance, Fault, UpdateAccepted, UpdateRefused, UpdateFailed,
         UpdateUnanswered, GetBucket, TakeSnapshot, ObjectInfo, DeleteExpired, DeleteRefused,
         ObjectInfoFailed, GiveUp, DeleteFailed, storeVars, fileVars
<1> QED
  BY <1>4, <1>5, <1>6, <1>7, <1>8 DEF SyncNext, ControllerStep

\* The time and the next version are naturals.
LEMMA ClockFacts ==
  ASSUME TypeOK, NEW n \in Names
  PROVE  now \in Nat /\ ver[n] + 1 \in Nat
  BY DEF TypeOK, StoreTypeOK

\* A Snapshot the users have made or edited waits if it did.
LEMMA EnvironmentWaits ==
  ASSUME TypeOK, Environment, NEW n \in Names, Exists(n) => snaps[n].phase = "",
         snaps'[n] # NoSnap
  PROVE  snaps'[n].phase = ""
<1>1. CASE UNCHANGED snaps
  BY <1>1 DEF Exists
<1>2. ASSUME NEW m \in Names, UserCreate(m) PROVE snaps'[n].phase = ""
  <2>1. PICK x \in Snapshot : Create(m, x) /\ x.phase = ""
    BY <1>2, UserCreateFacts
  <2>2. now \in Nat /\ ver[m] + 1 \in Nat
    BY ClockFacts
  <2> DEFINE y == [x EXCEPT !.uid = ver[m] + 1, !.created = now]
  <2>3. y \in Snapshot /\ y.phase = "" /\ Put(m, y)
    BY <2>1, <2>2 DEF Snapshot, Create
  <2> HIDE DEF y
  <2>4. /\ \A k \in Names \ {m} : snaps'[k] = snaps[k]
        /\ snaps'[m] = [y EXCEPT !.rv = ver[m] + 1]
    BY <2>3, PutFacts
  <2>5. snaps'[m].phase = ""
    BY <2>3, <2>4 DEF Snapshot
  <2> QED
    BY <2>4, <2>5 DEF Exists
<1>3. ASSUME NEW m \in Names, UserEdit(m) PROVE snaps'[n].phase = ""
  <2>1. PICK u \in Untils : Put(m, [snaps[m] EXCEPT !.specUntil = u])
    BY <1>3 DEF UserEdit
  <2> DEFINE y == [snaps[m] EXCEPT !.specUntil = u]
  <2>2. u \in Nat /\ snaps[m] \in Snapshot /\ Exists(m)
    BY <1>3, StoreAssumption DEF StoreAssumption, UserEdit, Exists, TypeOK, StoreTypeOK
  <2>3. y \in Snapshot /\ y.phase = snaps[m].phase /\ Put(m, y)
    BY <2>1, <2>2 DEF Snapshot
  <2> HIDE DEF y
  <2>4. /\ \A k \in Names \ {m} : snaps'[k] = snaps[k]
        /\ snaps'[m] = [y EXCEPT !.rv = ver[m] + 1]
    BY <2>3, PutFacts
  <2>5. snaps'[m].phase = snaps[m].phase
    BY <2>3, <2>4 DEF Snapshot
  <2> QED
    BY <2>2, <2>4, <2>5 DEF Exists
<1>4. ASSUME NEW m \in Names, UserDelete(m) PROVE snaps'[n].phase = ""
  <2>1. /\ \A k \in Names \ {m} : snaps'[k] = snaps[k]
        /\ snaps'[m] = NoSnap
    BY <1>4, DeleteFacts DEF UserDelete
  <2> QED
    BY <2>1 DEF Exists
<1> QED
  BY <1>1, <1>2, <1>3, <1>4 DEF Environment, User, Tick, apiVars

\* The Snapshot a sweep recovers waits until the sweep completes it: the
\* threads do not run yet.
LEMMA RecoveredNext ==
  ASSUME AuditInv, SyncNext
  PROVE  RecoveredWaits'
<1>0. TypeOK /\ FilesWait /\ SyncTypeOK /\ SweepFits /\ RecoveredWaits
  BY AuditFacts
<1>1. ASSUME sweep' = sweep,
             sweep # NoSweep /\ sweep.call \in {"get", "complete"} =>
               \A n \in Names : snaps'[n] # NoSnap /\ (Exists(n) => snaps[n].phase = "") =>
                 snaps'[n].phase = ""
      PROVE  RecoveredWaits'
  <2>1. sweep # NoSweep /\ sweep.call \in {"get", "complete"} =>
          sweep.restoring.orphan.key \in Names
    BY <1>0 DEF SweepFits, Restoring, Orphan
  <2> QED
    BY <1>0, <1>1, <2>1 DEF RecoveredWaits, Exists
<1>2. ASSUME sweep' # NoSweep => sweep'.call \notin {"create", "get", "complete"}
      PROVE  RecoveredWaits'
  BY <1>2 DEF RecoveredWaits
<1>3. CASE Environment /\ UNCHANGED <<started, sweep>>
  BY <1>0, <1>1, <1>3, EnvironmentWaits
<1>4. CASE ControllerStep
  <2>1. UNCHANGED snaps \/ started
    BY <1>0, <1>4, InformerFacts DEF ControllerStep
  <2>2. sweep # NoSweep /\ sweep.call \in {"get", "complete"} => ~started
    BY <1>0 DEF SweepFits
  <2> QED
    BY <1>1, <1>4, <2>1, <2>2 DEF ControllerStep, Exists
<1>5. CASE LoseObject
  BY <1>1, <1>5 DEF LoseObject, apiVars, Exists
<1>6. CASE \/ Restart /\ Boot
           \/ StartSweep
  <2>1. \E remove, recover \in BOOLEAN : sweep' = NewSweep(remove, recover)
    BY <1>6, SyncerAssumption DEF SyncerAssumption, Boot, StartSweep, Continue
  <2>2. sweep' # NoSweep => sweep'.call = "objects"
    BY <2>1, StoreAssumption, ThreadAssumption, SyncerAssumption, NewSweepFacts
       DEF SyncConstants, Constants
  <2> QED
    BY <1>2, <2>2
<1>7. CASE FixRefused \/ FixUnanswered \/ SweepFailed \/ EndSweep
  BY <1>2, <1>7 DEF FixRefused, FixUnanswered, SweepFailed, EndSweep, Finish
<1>8. ASSUME sweep \in Sweep, sweep # NoSweep,
             NEW call \in {"objects", "snapshots", "fix"},
             sweep'.call = call
      PROVE  RecoveredWaits'
  BY <1>2, <1>8
<1>9. CASE ListBucket
  <2>1. sweep \in Sweep /\ sweep # NoSweep
    BY <1>0, <1>9 DEF ListBucket, Calling, SyncTypeOK
  <2> DEFINE b == Head(sweep.left)
             rest == Tail(sweep.left)
             call == IF rest = <<>> THEN "snapshots" ELSE "objects"
  <2>2. sweep' = [sweep EXCEPT !.files[b] = objects[b], !.left = rest, !.call = call]
    BY <1>9 DEF ListBucket, Continue
  <2>3. call \in {"objects", "snapshots", "fix"}
    OBVIOUS
  <2> HIDE DEF b, rest, call
  <2>4. sweep'.call = call
    BY <2>1, <2>2 DEF Sweep
  <2> QED
    BY <1>8, <2>1, <2>3, <2>4
<1>10. CASE ListSnapshots
  <2>1. sweep \in Sweep /\ sweep # NoSweep
    BY <1>0, <1>10 DEF ListSnapshots, Calling, SyncTypeOK
  <2>2. PICK orphans, fixes : sweep' = [sweep EXCEPT !.call = "fix", !.files = NoFiles,
                                          !.orphans = orphans, !.fixes = fixes]
    BY <1>10 DEF ListSnapshots, Continue
  <2>3. sweep'.call = "fix"
    BY <2>1, <2>2 DEF Sweep
  <2> QED
    BY <1>8, <2>1, <2>3
<1>11. CASE FixAccepted
  <2>1. sweep \in Sweep /\ sweep # NoSweep /\ sweep.call = "fix"
    BY <1>0, <1>11 DEF FixAccepted, Calling, SyncTypeOK
  <2>2. PICK fixes : sweep' = [sweep EXCEPT !.fixes = fixes]
    BY <1>11 DEF FixAccepted, Continue
  <2>3. sweep'.call = "fix"
    BY <2>1, <2>2 DEF Sweep
  <2> QED
    BY <1>8, <2>1, <2>3
<1>12. ASSUME sweep \in Sweep, sweep # NoSweep, NEW orphans, sweep.call = "fix",
              sweep' = [sweep EXCEPT !.orphans = orphans]
       PROVE  RecoveredWaits'
  <2>1. sweep'.call = "fix"
    BY <1>12 DEF Sweep
  <2> QED
    BY <1>8, <1>12, <2>1
<1>13. CASE RemoveOrphan
  <2>1. sweep \in Sweep /\ sweep # NoSweep /\ sweep.call = "fix"
    BY <1>0, <1>13 DEF RemoveOrphan, OrphansAreNext, Calling, SyncTypeOK
  <2>2. PICK orphans : sweep' = [sweep EXCEPT !.orphans = orphans]
    BY <1>13 DEF RemoveOrphan, Continue
  <2> QED
    BY <1>12, <2>1, <2>2
<1>14. CASE DownloadOrphan
  <2>1. sweep \in Sweep /\ sweep # NoSweep /\ sweep.call = "fix"
    BY <1>0, <1>14 DEF DownloadOrphan, OrphansAreNext, Calling, SyncTypeOK
  <2>2. PICK o \in sweep.orphans :
          \/ sweep' = [sweep EXCEPT !.orphans = @ \ {o}]
          \/ /\ objects[o.bucket][o.key] # NoObject
             /\ sweep' = [sweep EXCEPT !.orphans = @ \ {o}, !.call = "create",
                  !.restoring = [orphan |-> [o EXCEPT !.file.json = objects[o.bucket][o.key].json],
                                 snap |-> NoSnap]]
    BY <1>14 DEF DownloadOrphan, Continue
  <2>3. CASE sweep' = [sweep EXCEPT !.orphans = @ \ {o}]
    BY <1>12, <2>1, <2>3
  <2>4. CASE /\ objects[o.bucket][o.key] # NoObject
             /\ sweep' # [sweep EXCEPT !.orphans = @ \ {o}]
    <3> DEFINE json == objects[o.bucket][o.key].json
               p == [o EXCEPT !.file.json = json]
               r == [orphan |-> p, snap |-> NoSnap]
               w == [sweep EXCEPT !.orphans = @ \ {o}, !.call = "create", !.restoring = r]
    <3>1. o \in Orphan
      BY <2>1 DEF Sweep
    <3>2. json.phase = ""
      BY <1>0, <2>4, <3>1 DEF Orphan, FilesWait
    <3> HIDE DEF json
    <3>3. p.file.json = json
      BY <3>1 DEF Orphan, Object
    <3>4. r.orphan = p
      OBVIOUS
    <3>5. sweep' = w
      BY <2>2, <2>4 DEF json
    <3> HIDE DEF p, r
    <3>6. w.call = "create" /\ w.restoring = r
      BY <2>1 DEF Sweep
    <3>7. sweep'.call = "create" /\ sweep'.restoring.orphan.file.json.phase = ""
      BY <3>2, <3>3, <3>4, <3>5, <3>6
    <3> QED
      BY <3>7 DEF RecoveredWaits
  <2> QED
    BY <2>2, <2>3, <2>4
<1>15. CASE NextOrphan /\ (CreateRestored \/ GetRestored \/ CompleteRestored)
  <2>1. sweep \in Sweep /\ sweep # NoSweep
    BY <1>0, <1>15 DEF CreateRestored, GetRestored, CompleteRestored, Calling, SyncTypeOK
  <2>2. sweep'.call = "fix"
    BY <1>15, <2>1 DEF NextOrphan, Continue, Sweep
  <2> QED
    BY <1>8, <2>1, <2>2
<1>16. CASE CreateRestored /\ ~NextOrphan
  <2>1. /\ sweep \in Sweep /\ sweep # NoSweep /\ sweep.call = "create"
        /\ Create(sweep.restoring.orphan.key, sweep.restoring.orphan.file.json)
        /\ sweep' = [sweep EXCEPT !.call = "get"]
    BY <1>0, <1>16 DEF CreateRestored, Calling, SyncTypeOK, Continue
  <2>2. /\ sweep.restoring.orphan.key \in Names
        /\ sweep.restoring.orphan.file.json \in Snapshot
    BY <1>0, <2>1 DEF SweepFits, Restoring, Orphan, Object
  <2>3. PICK n \in Names, j \in Snapshot :
          n = sweep.restoring.orphan.key /\ j = sweep.restoring.orphan.file.json
    BY <2>2
  <2> DEFINE y == [j EXCEPT !.uid = ver[n] + 1, !.created = now]
  <2>4. ver[n] + 1 \in Nat /\ now \in Nat
    BY <1>0 DEF TypeOK, StoreTypeOK
  <2>5. j.phase = ""
    BY <1>0, <2>1, <2>3 DEF RecoveredWaits
  <2>6. y \in Snapshot /\ y.phase = "" /\ Put(n, y)
    BY <2>1, <2>3, <2>4, <2>5 DEF Snapshot, Create
  <2>7. sweep'.call = "get" /\ sweep'.restoring.orphan.key = n
    BY <2>1, <2>3 DEF Sweep
  <2> HIDE DEF y
  <2>8. snaps'[n] = [y EXCEPT !.rv = ver[n] + 1]
    BY <1>0, <2>6, PutFacts
  <2>9. snaps'[n].phase = ""
    BY <2>6, <2>8 DEF Snapshot
  <2> QED
    BY <2>7, <2>9 DEF RecoveredWaits
<1>17. CASE GetRestored /\ ~NextOrphan
  <2>1. /\ sweep \in Sweep /\ sweep # NoSweep /\ sweep.call = "get" /\ UNCHANGED snaps
        /\ sweep.restoring \in Restoring
    BY <1>0, <1>17 DEF GetRestored, Calling, SyncTypeOK, SweepFits, apiVars
  <2>2. PICK x : sweep' = [sweep EXCEPT !.call = "complete", !.restoring.snap = x]
    BY <1>17 DEF GetRestored, Continue
  <2>3. sweep'.call = "complete" /\ sweep'.restoring.orphan = sweep.restoring.orphan
    BY <2>1, <2>2 DEF Sweep, Restoring
  <2> QED
    BY <1>0, <2>1, <2>3 DEF RecoveredWaits, Exists
<1>18. CompleteRestored => NextOrphan
  BY DEF CompleteRestored
<1> QED
  BY <1>3, <1>4, <1>5, <1>6, <1>7, <1>9, <1>10, <1>11, <1>13, <1>14, <1>15, <1>16, <1>17,
     <1>18 DEF SyncNext, SyncerStep, SyncerFault

-----------------------------------------------------------------------------
(* Every step is one of the lifecycle, or none.                            *)

\* What is a step without the syncer is one with it.
LEMMA AuditedStep ==
  ASSUME [Lifecycle!LifeNext]_Lifecycle!lifeVars
  PROVE  [AuditedLifecycle!LifeNext]_AuditedLifecycle!lifeVars
<1>0. UNCHANGED Lifecycle!lifeVars => UNCHANGED AuditedLifecycle!lifeVars
  BY DEF Lifecycle!lifeVars, AuditedLifecycle!lifeVars
<1>1. \A n, from, to : Lifecycle!Move(n, from, to) => AuditedLifecycle!Move(n, from, to)
  BY DEF Lifecycle!Move, AuditedLifecycle!Move
<1>2. Lifecycle!Die => AuditedLifecycle!Die
  BY DEF Lifecycle!Die, AuditedLifecycle!Die
<1>3. Lifecycle!States = AuditedLifecycle!States
  BY DEF Lifecycle!States, AuditedLifecycle!States
<1>4. ASSUME NEW n \in Names
      PROVE  /\ Lifecycle!Make(n) => AuditedLifecycle!Make(n)
             /\ Lifecycle!Remove(n) => AuditedLifecycle!Remove(n)
             /\ Lifecycle!Accept(n) => AuditedLifecycle!Accept(n)
             /\ Lifecycle!Reject(n) => AuditedLifecycle!Reject(n)
  BY <1>1, <1>3
     DEF Lifecycle!Make, Lifecycle!Remove, Lifecycle!Accept, Lifecycle!Reject,
         AuditedLifecycle!Make, AuditedLifecycle!Remove, AuditedLifecycle!Accept,
         AuditedLifecycle!Reject
<1>5. ASSUME NEW n \in Names
      PROVE  /\ Lifecycle!Begin(n) => AuditedLifecycle!Begin(n)
             /\ Lifecycle!End(n) => AuditedLifecycle!End(n)
             /\ Lifecycle!Abandon(n) => AuditedLifecycle!Abandon(n)
  BY <1>1
     DEF Lifecycle!Begin, Lifecycle!End, Lifecycle!Abandon,
         AuditedLifecycle!Begin, AuditedLifecycle!End, AuditedLifecycle!Abandon
<1>6. ASSUME NEW n \in Names, Lifecycle!Condemn(n)
      PROVE  AuditedLifecycle!Condemn(n)
  BY <1>6 DEF Lifecycle!Condemn, Lifecycle!Move, AuditedLifecycle!Condemn, AuditedLifecycle!Move
<1>7. ASSUME NEW n \in Names
      PROVE  ~Lifecycle!Revalidate(n) /\ ~Lifecycle!Recover(n)
  BY DEF Lifecycle!Revalidate, Lifecycle!Recover
<1> QED
  BY <1>0, <1>2, <1>4, <1>5, <1>6, <1>7 DEF Lifecycle!LifeNext, AuditedLifecycle!LifeNext

\* A step of the syncer that the lifecycle does not see.
LEMMA QuietAudit ==
  ASSUME UNCHANGED <<snaps, thread>>
  PROVE  [AuditedLifecycle!LifeNext]_AuditedLifecycle!lifeVars
  BY QuietLife, AuditedStep

\* Only the phase of n moves.
LEMMA AuditedMove ==
  ASSUME NEW n \in Names, NEW from, NEW to, PhaseOf(n) \in from, PhaseOf(n)' = to,
         \A m \in Names \ {n} : snaps'[m] = snaps[m]
  PROVE  AuditedLifecycle!Move(n, from, to)
<1>1. \A m \in Names \ {n} : PhaseOf(m)' = PhaseOf(m)
  BY DEF PhaseOf, Exists
<1> QED
  BY <1>1, LifeMove DEF Lifecycle!Move, AuditedLifecycle!Move

\* An update of the sweep moves a Snapshot that has ended between Completed and
\* Failed.
LEMMA FixLife ==
  ASSUME AuditInv, SyncConstants, FixAccepted \/ FixUnanswered
  PROVE  [AuditedLifecycle!LifeNext]_AuditedLifecycle!lifeVars
<1>0. /\ TypeOK /\ SyncTypeOK /\ SweepAgrees /\ sweep # NoSweep /\ UNCHANGED thread
  BY AuditFacts DEF FixAccepted, FixUnanswered, Calling
<1>1. PICK f \in sweep.fixes :
        f \in Fix /\ Fresh(f.key, f.snap.rv) /\ Update(f.key, Verdict(f))
  BY <1>0, FixWrites
<1>2. PICK n \in Names, x \in Snapshot : n = f.key /\ x = Verdict(f) /\ HasEnded(x)
  BY <1>0, <1>1, VerdictFacts DEF SweepAgrees
<1>3. Exists(n) /\ HasEnded(snaps[n])
  BY <1>0, <1>1, <1>2 DEF SweepAgrees, Agrees, Fresh, HasEnded
<1>4. /\ \A m \in Names \ {n} : snaps'[m] = snaps[m]
      /\ snaps'[n] # NoSnap /\ snaps'[n] = Returned(n, x)
  BY <1>0, <1>1, <1>2, <1>3, UpdateFacts
<1>5. /\ PhaseOf(n) = snaps[n].phase /\ PhaseOf(n)' = x.phase
  BY <1>2, <1>3, <1>4, ReturnedPhase DEF PhaseOf, Exists
<1>6. Taking' = Taking
  BY <1>0 DEF Taking, TakerOf, Busy
<1>7. CASE PhaseOf(n)' = PhaseOf(n)
  <2>1. \A m \in Names : PhaseOf(m)' = PhaseOf(m)
    BY <1>4, <1>7 DEF PhaseOf, Exists
  <2> QED
    BY <1>6, <2>1, LifeStutter, AuditedStep
<1>8. CASE PhaseOf(n) = "Completed" /\ PhaseOf(n)' = "Failed"
  <2>1. AuditedLifecycle!Move(n, {"Completed"} \cup {p \in {"InQueue"} : TRUE}, "Failed")
    BY <1>4, <1>8, AuditedMove
  <2>2. AuditedLifecycle!Condemn(n)
    BY <1>6, <2>1 DEF AuditedLifecycle!Condemn, Taking
  <2> QED
    BY <2>2 DEF AuditedLifecycle!LifeNext
<1>9. CASE PhaseOf(n) = "Failed" /\ PhaseOf(n)' = "Completed"
  <2>1. AuditedLifecycle!Move(n, {"Failed"}, "Completed")
    BY <1>4, <1>9, AuditedMove
  <2>2. AuditedLifecycle!Revalidate(n)
    BY <1>6, <2>1 DEF AuditedLifecycle!Revalidate, Taking
  <2> QED
    BY <2>2 DEF AuditedLifecycle!LifeNext
<1> QED
  BY <1>2, <1>3, <1>5, <1>7, <1>8, <1>9 DEF HasEnded

\* Recovering a Snapshot makes one that waits, and then is Completed.
LEMMA RecoverLife ==
  ASSUME AuditInv, CreateRestored \/ CompleteRestored
  PROVE  [AuditedLifecycle!LifeNext]_AuditedLifecycle!lifeVars
<1>0. /\ TypeOK /\ SweepFits /\ SweepAgrees /\ RecoveredWaits /\ sweep # NoSweep
      /\ sweep.call \in {"create", "complete"} /\ UNCHANGED thread
  BY AuditFacts DEF CreateRestored, CompleteRestored, Calling
<1>1. /\ sweep.restoring.orphan.key \in Names
      /\ sweep.restoring.orphan.file.json \in Snapshot
  BY <1>0 DEF SweepFits, Restoring, Orphan, Object
<1>2. PICK n \in Names, j \in Snapshot :
        n = sweep.restoring.orphan.key /\ j = sweep.restoring.orphan.file.json
  BY <1>1
<1>3. Taking' = Taking
  BY <1>0 DEF Taking, TakerOf, Busy
<1>4. CASE UNCHANGED apiVars
  BY <1>0, <1>4, QuietAudit DEF apiVars
<1>5. CASE sweep.call = "create" /\ Create(n, j)
  <2> DEFINE y == [j EXCEPT !.uid = ver[n] + 1, !.created = now]
  <2>1. j.phase = ""
    BY <1>0, <1>2, <1>5 DEF RecoveredWaits
  <2>2. ver[n] + 1 \in Nat /\ now \in Nat
    BY <1>0 DEF TypeOK, StoreTypeOK
  <2>3. y \in Snapshot /\ y.phase = "" /\ Put(n, y) /\ ~Exists(n)
    BY <1>5, <2>1, <2>2 DEF Snapshot, Create
  <2> HIDE DEF y
  <2>4. /\ \A m \in Names \ {n} : snaps'[m] = snaps[m]
        /\ snaps'[n] # NoSnap /\ snaps'[n] = [y EXCEPT !.rv = ver[n] + 1]
    BY <1>0, <2>3, PutFacts
  <2>5. PhaseOf(n) = "absent" /\ PhaseOf(n)' = ""
    <3>1. snaps'[n].phase = ""
      BY <2>3, <2>4 DEF Snapshot
    <3> QED
      BY <2>3, <2>4, <3>1 DEF PhaseOf, Exists
  <2>6. PICK e : e = ""
    OBVIOUS
  <2>7. PhaseOf(n) \in {"absent"} /\ PhaseOf(n)' = e
    BY <2>5, <2>6
  <2>8. AuditedLifecycle!Move(n, {"absent"}, e)
    BY <2>4, <2>7, AuditedMove
  <2>9. AuditedLifecycle!Make(n)
    BY <1>3, <2>6, <2>8 DEF AuditedLifecycle!Make, Taking
  <2> QED
    BY <2>9 DEF AuditedLifecycle!LifeNext
<1>6. CASE /\ sweep.call = "complete" /\ Fresh(n, sweep.restoring.snap.rv)
           /\ Update(n, Marked(sweep.restoring.snap, "Completed", ""))
  <2>1. PICK x \in Snapshot :
          x = Marked(sweep.restoring.snap, "Completed", "") /\ x.phase = "Completed"
    <3>1. sweep.restoring.snap \in Snapshot
      BY <1>0, <1>6 DEF SweepFits
    <3>2. PICK r \in Reasons : r = ""
      BY DEF Reasons
    <3>3. /\ Marked(sweep.restoring.snap, "Completed", r) \in Snapshot
          /\ Marked(sweep.restoring.snap, "Completed", r).phase = "Completed"
      BY <3>1, <3>2 DEF Marked, Snapshot, Phases
    <3> QED
      BY <3>2, <3>3
  <2>2. Exists(n) /\ snaps[n].phase = ""
    BY <1>0, <1>2, <1>6 DEF Fresh, RecoveredWaits
  <2>3. /\ \A m \in Names \ {n} : snaps'[m] = snaps[m]
        /\ snaps'[n] # NoSnap /\ snaps'[n] = Returned(n, x)
    BY <1>0, <1>6, <2>1, <2>2, UpdateFacts
  <2>4. PhaseOf(n) = "" /\ PhaseOf(n)' = "Completed"
    <3>1. Returned(n, x).phase = "Completed"
      BY <2>1, ReturnedPhase
    <3> QED
      BY <2>2, <2>3, <3>1 DEF PhaseOf, Exists
  <2>5. PICK e : e = ""
    OBVIOUS
  <2>6. PhaseOf(n) \in {e} /\ PhaseOf(n)' = "Completed"
    BY <2>4, <2>5
  <2>7. AuditedLifecycle!Move(n, {e}, "Completed")
    BY <2>3, <2>6, AuditedMove
  <2>8. AuditedLifecycle!Recover(n)
    BY <1>3, <2>5, <2>7 DEF AuditedLifecycle!Recover, Taking
  <2> QED
    BY <2>8 DEF AuditedLifecycle!LifeNext
<1> QED
  BY <1>2, <1>4, <1>5, <1>6 DEF CreateRestored, CompleteRestored, Calling

\* The deletion of an expired Snapshot failed, and it had not ended: one made
\* from a file may have expired before it is taken, or be left in the making.
LEMMA CondemnLife ==
  ASSUME Constants, LifeBase, NEW t \in Threads, UpdateAccepted(t) \/ UpdateUnanswered(t),
         thread[t].pc = "deletefail"
  PROVE  [AuditedLifecycle!LifeNext]_AuditedLifecycle!lifeVars
<1>0. /\ TypeOK /\ CopiesAgree /\ Busy(t) /\ Writing(t)
      /\ Fresh(thread[t].key, thread[t].snap.rv) /\ Update(thread[t].key, Target(t))
  BY DEF LifeBase, UpdateAccepted, UpdateUnanswered, Writing
<1>1. /\ thread[t] \in Task /\ thread[t].key \in Names /\ thread[t].snap \in Snapshot
      /\ thread[t].snap.phase # ""
  BY <1>0, BusyFacts DEF CallFits
<1>2. PICK n \in Names, x \in Snapshot :
        /\ n = thread[t].key /\ x = Target(t) /\ x.phase = "Failed"
  <2>1. Target(t) \in Snapshot
    BY <1>0, TargetType
  <2>2. Target(t).phase = "Failed"
    <3>1. Target(t) = Written("deletefail", thread[t].snap)
      BY DEF Target
    <3>2. Written("deletefail", thread[t].snap).phase = "Failed"
      BY <1>1, WrittenPhase
    <3> QED
      BY <3>1, <3>2
  <2> QED
    BY <1>1, <2>1, <2>2
<1>3. thread'[t] = Idle /\ \A u \in Threads \ {t} : thread'[u] = thread[u]
  <2>1. AfterWrite(thread[t], Returned(n, x)) =
          [pc |-> "return", snap |-> Returned(n, x), at |-> thread[t].at]
    BY DEF AfterWrite
  <2>2. AfterWrite(thread[t], Returned(n, x)).pc = "return"
    BY <2>1
  <2>3. thread' = [thread EXCEPT ![t] = Idle]
    BY <1>2, <2>2 DEF UpdateAccepted, UpdateUnanswered, Requeue, Proceed
  <2> QED
    BY <1>0, <2>3 DEF TypeOK
<1>4. n \notin Taking /\ Taking' = Taking
  <2>1. ~IsTaking(thread[t]) /\ ~IsTaking(thread'[t])
    BY <1>3 DEF IsTaking, TakingSteps
  <2>2. /\ n \in Taking <=> IsTaking(thread[t])
        /\ Taking' = Taking \ {n}
    BY <1>0, <1>2, <1>3, <2>1, TakingMoves
  <2> QED
    BY <2>1, <2>2
<1>5. Exists(n) /\ snaps[n].phase = thread[t].snap.phase
  BY <1>0, <1>2 DEF CopiesAgree, Agrees, Fresh
<1>6. /\ \A m \in Names \ {n} : snaps'[m] = snaps[m]
      /\ snaps'[n] # NoSnap /\ snaps'[n] = Returned(n, x)
  BY <1>0, <1>2, <1>5, UpdateFacts
<1>7. PhaseOf(n) = thread[t].snap.phase /\ PhaseOf(n)' = "Failed"
  BY <1>2, <1>5, <1>6, ReturnedPhase DEF PhaseOf, Exists
<1>8. CASE PhaseOf(n) = "InProgress"
  <2>1. AuditedLifecycle!Move(n, {"InProgress"}, "Failed")
    BY <1>6, <1>7, <1>8, AuditedMove
  <2>2. AuditedLifecycle!Abandon(n)
    BY <1>4, <2>1 DEF AuditedLifecycle!Abandon, Taking
  <2> QED
    BY <2>2 DEF AuditedLifecycle!LifeNext
<1>9. CASE PhaseOf(n) \in {"InQueue", "Completed"}
  <2>1. AuditedLifecycle!Move(n, {"Completed"} \cup {p \in {"InQueue"} : TRUE}, "Failed")
    BY <1>6, <1>7, <1>9, AuditedMove
  <2>2. AuditedLifecycle!Condemn(n)
    BY <1>4, <2>1 DEF AuditedLifecycle!Condemn, Taking
  <2> QED
    BY <2>2 DEF AuditedLifecycle!LifeNext
<1>10. CASE PhaseOf(n) = "Failed"
  <2>1. \A m \in Names : PhaseOf(m)' = PhaseOf(m)
    BY <1>6, <1>7, <1>10 DEF PhaseOf, Exists
  <2> QED
    BY <1>4, <2>1, LifeStutter, AuditedStep
<1> QED
  BY <1>1, <1>7, <1>8, <1>9, <1>10 DEF Snapshot, Phases

\* The threads.
LEMMA ThreadAudit ==
  ASSUME Constants, LifeBase, NEW t \in Threads, ThreadNext(t)
  PROVE  [AuditedLifecycle!LifeNext]_AuditedLifecycle!lifeVars
<1>1. CASE UpdateAccepted(t) \/ UpdateUnanswered(t) \/ UpdateRefused(t) \/ UpdateFailed(t)
  <2>1. CASE /\ thread[t].pc = "deletefail"
             /\ UpdateAccepted(t) \/ UpdateUnanswered(t)
    BY <2>1, CondemnLife
  <2>2. CASE thread[t].pc # "deletefail"
    BY <1>1, <2>2, UpdateLife, AuditedStep
  <2>3. CASE UpdateRefused(t) \/ UpdateFailed(t)
    <3>1. Busy(t) /\ thread' = [thread EXCEPT ![t] = Idle] /\ snaps' = snaps
      BY <2>3 DEF UpdateRefused, UpdateFailed, Requeue, Writing, apiVars
    <3> QED
      BY <3>1, StopLife, AuditedStep
  <2> QED
    BY <1>1, <2>1, <2>2, <2>3
<1> QED
  BY <1>1, StartSyncLife, TakingLife, ExpiredLife, AuditedStep DEF ThreadNext, Advance, Fault

\* Every step.
LEMMA SyncNextLife ==
  ASSUME SyncConstants, AuditInv, [SyncNext]_syncVars
  PROVE  [AuditedLifecycle!LifeNext]_AuditedLifecycle!lifeVars
<1>0. LifeBase /\ Constants
  BY AuditFacts DEF SyncConstants
<1>1. CASE UNCHANGED syncVars
  BY <1>1, QuietAudit DEF syncVars, vars, storeVars, apiVars
<1>2. CASE Environment
  BY <1>0, <1>2, EnvironmentLife, AuditedStep
<1>3. CASE ControllerStep
  BY <1>0, <1>3, InformerLife, ThreadAudit, AuditedStep DEF ControllerStep
<1>4. CASE Restart
  BY <1>4, RestartLife, AuditedStep
<1>5. CASE FixAccepted \/ FixUnanswered \/ CreateRestored \/ CompleteRestored
  BY <1>5, FixLife, RecoverLife
<1>6. CASE \/ StartSweep \/ ListBucket \/ ListSnapshots \/ FixRefused \/ SweepFailed
           \/ RemoveOrphan \/ DownloadOrphan \/ GetRestored \/ EndSweep \/ LoseObject
  <2>1. UNCHANGED <<snaps, thread>>
    BY <1>6 DEF StartSweep, ListBucket, ListSnapshots, FixRefused, SweepFailed, RemoveOrphan,
       DownloadOrphan, GetRestored, EndSweep, LoseObject, vars, storeVars, apiVars
  <2> QED
    BY <2>1, QuietAudit
<1> QED
  BY <1>1, <1>2, <1>3, <1>4, <1>5, <1>6 DEF SyncNext, SyncerStep, SyncerFault

-----------------------------------------------------------------------------
(* The invariant, and the refinement.                                      *)

\* Every step keeps the invariant.
LEMMA AuditNext ==
  ASSUME SyncConstants, AuditInv, [SyncNext]_syncVars
  PROVE  AuditInv'
<1>0. /\ Constants /\ SyncInv /\ CallsFit /\ FilesWait /\ RecoveredWaits /\ LifeBase /\ TypeOK
  BY AuditFacts DEF SyncConstants, AuditInv
<1>1. SyncInv'
  BY <1>0, SyncNextInv
<1>2. CASE UNCHANGED syncVars
  <2>1. UNCHANGED <<snaps, objects, thread, sweep>>
    BY <1>2 DEF syncVars, vars, storeVars, apiVars, fileVars
  <2> QED
    BY <1>0, <1>1, <2>1 DEF AuditInv, CallsFit, Busy, FilesWait, RecoveredWaits, Exists
<1>3. CASE SyncNext
  <2>1. FilesWait' /\ RecoveredWaits'
    BY <1>3, FilesNext, RecoveredNext
  <2>2. CallsFit'
    <3>1. CASE UNCHANGED thread
      BY <1>0, <3>1, CallsQuiet
    <3>2. CASE ControllerStep
      <4>1. ASSUME NEW n \in Names, Informer(n) PROVE CallsFit'
        BY <1>0, <3>1, <4>1, InformerFacts
      <4> QED
        BY <1>0, <3>2, <4>1, ThreadCalls DEF ControllerStep
    <3>3. CASE Restart
      BY <1>0, <3>3, CallsQuiet DEF Restart
    <3>4. CASE Environment \/ SyncerStep \/ SyncerFault \/ LoseObject
      <4>1. UNCHANGED thread
        BY <3>4 DEF Environment, SyncerStep, SyncerFault, StartSweep, ListBucket,
           ListSnapshots, FixAccepted, FixRefused, FixUnanswered, SweepFailed, RemoveOrphan,
           DownloadOrphan, CreateRestored, GetRestored, CompleteRestored, EndSweep,
           LoseObject, vars
      <4> QED
        BY <3>1, <4>1
    <3> QED
      BY <1>3, <3>2, <3>3, <3>4 DEF SyncNext
  <2> QED
    BY <1>1, <2>1, <2>2 DEF AuditInv
<1> QED
  BY <1>2, <1>3

\* It holds at the start.
LEMMA AuditInit ==
  ASSUME SyncConstants, SyncInit
  PROVE  AuditInv
<1>1. SyncInv
  BY SyncInitInv
<1>2. CallsFit /\ FilesWait
  BY DEF SyncInit, Init, StoreInit, CallsFit, Busy, FilesWait
<1>3. FALSE \in BOOLEAN /\ RestoreSnapshots \in BOOLEAN
  BY DEF SyncConstants, SyncerAssumption
<1>4. sweep # NoSweep => sweep.call = "objects"
  BY <1>3, NewSweepFacts DEF SyncInit
<1>5. RecoveredWaits
  BY <1>4 DEF RecoveredWaits
<1> QED
  BY <1>1, <1>2, <1>5 DEF AuditInv

\* The controller and its syncer implement SnapshotLifecycle: a sweep moves
\* only what has ended, or was just made from a file, and Completed is else
\* reached only by the thread that took the Snapshot out of the queue.
THEOREM SyncRefinement == SyncSpec => ImplementsAudited
<1>0. SyncConstants
  BY StoreAssumption, ThreadAssumption, SyncerAssumption DEF Constants, SyncConstants
<1>1. SyncInit => AuditInv /\ AuditedLifecycle!LifeInit
  <2> SUFFICES ASSUME SyncInit PROVE AuditInv /\ AuditedLifecycle!LifeInit
    OBVIOUS
  <2>1. AuditInv
    BY <1>0, AuditInit
  <2>2. ASSUME NEW n \in Names PROVE ~Exists(n) /\ \A t \in Threads : ~TakerOf(t, n)
    BY DEF SyncInit, Init, StoreInit, Exists, TakerOf, Busy
  <2> QED
    BY <2>1, <2>2 DEF AuditedLifecycle!LifeInit
<1>2. AuditInv /\ [SyncNext]_syncVars =>
        AuditInv' /\ [AuditedLifecycle!LifeNext]_AuditedLifecycle!lifeVars
  BY <1>0, AuditNext, SyncNextLife
<1> QED
  BY <1>1, <1>2, PTL DEF SyncSpec, ImplementsAudited, AuditedLifecycle!LifeSpec

=============================================================================
