------------------------- MODULE SyncerStored_proofs -------------------------
(***************************************************************************)
(* Proof about ObjectSyncer that a Completed Snapshot whose name was not   *)
(* used before has the file its status describes, with the sweeps beside   *)
(* the handlers, as long as nobody else touches the files and file infos   *)
(* are validated (-validatefileinfo, the default).                         *)
(***************************************************************************)
EXTENDS SyncerLifecycle_proofs, SnapshotStored_proofs

-----------------------------------------------------------------------------
(* The inductive invariant: that of SnapshotStored_proofs, and what a      *)
(* sweep has read and decided.                                             *)

\* For an untouched name a sweep does not follow the file to another bucket,
\* and finds nothing right but a file the status describes.
FixFits(f) ==
  Untouched(f.key) => /\ f.why \notin {"moved", "trusted"}
                      /\ f.why = "valid" => f.snap.stored # 0

FixStored(f) == OfTheFirst(f.key, f.snap) /\ SameFile(f.key, f.snap) /\ FixFits(f)

\* A file without a Snapshot has a name that was used before: the files are
\* read first.
SweepStored ==
  sweep # NoSweep =>
    /\ InTheirBuckets(sweep.files)
    /\ \A o \in sweep.orphans : ~Untouched(o.key)
    /\ \A f \in sweep.fixes : FixStored(f)
    /\ sweep.call \in {"create", "get", "complete"} => ~Untouched(sweep.restoring.orphan.key)

\* Nobody but the controller has touched the files.
NothingLost == budget["loss"] = Budget["loss"]

SyncStoredInv ==
  /\ AuditInv
  /\ budget["loss"] <= Budget["loss"]
  /\ NothingLost => StoredInv /\ SweepStored

LEMMA AuditStored == AuditInv => StoredBase
  BY AuditFacts DEF StoredBase

-----------------------------------------------------------------------------
(* What a step does to the sweep, in terms of the state before.            *)

SweepDescribed ==
  sweep' # NoSweep =>
    /\ InTheirBuckets(sweep'.files)
    /\ \A o \in sweep'.orphans : ~Untouched(o.key)
    /\ \A f \in sweep'.fixes : FixStored(f) /\ (Untouched(f.key) => Agrees(f.key, f.snap))
    /\ sweep'.call \in {"create", "get", "complete"} => ~Untouched(sweep'.restoring.orphan.key)

\* What it has read stays true.
LEMMA SweepKept ==
  ASSUME StoredBase, SyncTypeOK', SweepFits', StoredInv, Described, SweepDescribed
  PROVE  SweepStored'
<1>0. TypeOK /\ TypeOK' /\ NothingGone
  BY StoredBaseFacts DEF StoredInv, SyncTypeOK
<1> SUFFICES ASSUME sweep' # NoSweep
             PROVE  /\ InTheirBuckets(sweep.files)'
                    /\ \A o \in sweep'.orphans : ~Untouched(o.key)'
                    /\ \A f \in sweep'.fixes : FixStored(f)'
                    /\ sweep'.call \in {"create", "get", "complete"} =>
                         ~Untouched(sweep.restoring.orphan.key)'
  BY DEF SweepStored
<1>1. sweep' \in Sweep
  BY DEF SyncTypeOK
<1>2. ASSUME NEW n \in Names PROVE StoreMove(n) /\ ConfigStep(n)
  BY DEF Described, StoreDescribed
<1>3. ASSUME NEW n \in Names, ~Untouched(n) PROVE ~Untouched(n)'
  BY <1>0, <1>2, <1>3, UntouchedBefore
<1>4. InTheirBuckets(sweep.files)'
  <2> SUFFICES ASSUME NEW b \in Buckets, NEW n \in Names, sweep'.files[b][n] # NoObject
               PROVE  InItsBucket(b, n)'
    BY DEF InTheirBuckets
  <2>1. InItsBucket(b, n)
    BY DEF SweepDescribed, InTheirBuckets
  <2> QED
    BY <1>0, <1>2, <2>1, InItsBucketLater
<1>5. ASSUME NEW o \in sweep'.orphans PROVE ~Untouched(o.key)'
  <2>1. PICK n \in Names : n = o.key
    BY <1>1 DEF Sweep, Orphan
  <2>2. ~Untouched(n)
    BY <2>1 DEF SweepDescribed
  <2> QED
    BY <1>3, <2>1, <2>2
<1>6. ASSUME NEW f \in sweep'.fixes PROVE FixStored(f)'
  <2>1. f \in Fix
    BY <1>1 DEF Sweep
  <2>2. PICK n \in Names, s \in Snapshot : n = f.key /\ s = f.snap
    BY <2>1, VerdictFacts
  <2>3. FixStored(f) /\ (Untouched(n) => Agrees(n, s))
    BY <2>2 DEF SweepDescribed
  <2>4. CASE ~Untouched(n)
    <3>1. ~Untouched(n)'
      BY <1>3, <2>4
    <3>2. OfTheFirst(n, s)' /\ SameFile(n, s)' /\ (Untouched(f.key)' => FALSE)
      BY <2>2, <3>1 DEF OfTheFirst, SameFile
    <3> QED
      BY <2>2, <3>2 DEF FixStored, FixFits
  <2>5. CASE Untouched(n)
    <3>1. Agrees(n, s) /\ OfTheFirst(n, s) /\ SameFile(n, s) /\ Twin(s, s)
      BY <2>2, <2>3, <2>5 DEF FixStored, Twin, Like
    <3>2. OfTheFirst(n, s)' /\ SameFile(n, s)'
      BY <1>0, <1>2, <3>1, NamesLater
    <3>3. /\ f.why \notin {"moved", "trusted"}
          /\ f.why = "valid" => f.snap.stored # 0
      BY <2>2, <2>3, <2>5 DEF FixStored, FixFits
    <3> QED
      BY <2>2, <3>2, <3>3 DEF FixStored, FixFits
  <2> QED
    BY <2>4, <2>5
<1>7. ASSUME sweep'.call \in {"create", "get", "complete"}
      PROVE  ~Untouched(sweep.restoring.orphan.key)'
  <2>1. PICK n \in Names : n = sweep'.restoring.orphan.key
    BY <1>7 DEF SweepFits, Restoring, Orphan
  <2>2. ~Untouched(n)
    BY <1>7, <2>1 DEF SweepDescribed
  <2> QED
    BY <1>3, <2>1, <2>2
<1> QED
  BY <1>4, <1>5, <1>6, <1>7

\* A sweep that goes on with what it had, or ends.
LEMMA SameSweepDescribed ==
  ASSUME SweepStored, SweepAgrees,
         \/ sweep' = sweep
         \/ sweep' = NoSweep
         \/ /\ sweep # NoSweep /\ sweep'.files = sweep.files
            /\ sweep'.orphans \subseteq sweep.orphans
            /\ sweep'.fixes = sweep.fixes
            /\ sweep'.call \in {"create", "get", "complete"} =>
                 ~Untouched(sweep'.restoring.orphan.key)
  PROVE  SweepDescribed
  BY DEF SweepStored, SweepAgrees, SweepDescribed

\* A new sweep has read nothing.
LEMMA NewSweepDescribed ==
  ASSUME SyncConstants, NEW remove \in BOOLEAN, NEW recover \in BOOLEAN,
         sweep' = NewSweep(remove, recover)
  PROVE  SweepDescribed
<1>1. sweep' # NoSweep =>
        /\ sweep'.call = "objects" /\ sweep'.files = NoFiles
        /\ sweep'.orphans = {} /\ sweep'.fixes = {}
  BY NewSweepFacts
<1>2. InTheirBuckets(NoFiles)
  BY DEF InTheirBuckets, NoFiles
<1> QED
  BY <1>1, <1>2 DEF SweepDescribed

-----------------------------------------------------------------------------
(* Reading.                                                                *)

\* The files of another bucket.
LEMMA ListBucketDescribed ==
  ASSUME SyncTypeOK, SweepFits, SweepAgrees, StoredInv, SweepStored, ListBucket
  PROVE  SweepDescribed
<1>1. sweep \in Sweep /\ sweep # NoSweep /\ sweep.left # <<>>
  BY DEF ListBucket, Calling, SyncTypeOK, SweepFits
<1> DEFINE b == Head(sweep.left)
           rest == Tail(sweep.left)
           call == IF rest = <<>> THEN "snapshots" ELSE "objects"
<1>2. sweep' = [sweep EXCEPT !.files[b] = objects[b], !.left = rest, !.call = call]
  BY DEF ListBucket, Continue
<1>3. call \in {"snapshots", "objects"}
  OBVIOUS
<1> HIDE DEF b, rest, call
<1>4. /\ sweep'.files = [sweep.files EXCEPT ![b] = objects[b]]
      /\ sweep'.fixes = sweep.fixes /\ sweep'.orphans = sweep.orphans
      /\ sweep'.call \in {"snapshots", "objects"}
  BY <1>1, <1>2, <1>3 DEF Sweep
<1>5. InTheirBuckets(sweep.files) /\ InTheirBuckets(objects) /\ sweep.files \in Files
  BY <1>1 DEF SweepStored, StoredInv, Sweep
<1>6. InTheirBuckets(sweep'.files)
  <2> SUFFICES ASSUME NEW c \in Buckets, NEW n \in Names, sweep'.files[c][n] # NoObject
               PROVE  InItsBucket(c, n)
    BY DEF InTheirBuckets
  <2>1. sweep'.files[c] = sweep.files[c] \/ sweep'.files[c] = objects[c]
    BY <1>4, <1>5 DEF Files
  <2> QED
    BY <1>5, <2>1 DEF InTheirBuckets
<1> QED
  BY <1>1, <1>4, <1>6 DEF SweepStored, SweepAgrees, SweepDescribed

\* The comparison of a Snapshot with the files.
LEMMA JudgedStored ==
  ASSUME SyncConstants, Validate, TypeOK, CopiesAgree, NothingGone,
         NEW files \in Files, InTheirBuckets(files), NEW n \in Names, Exists(n)
  PROVE  FixStored(Judged(files, n)) /\ Agrees(n, Judged(files, n).snap)
<1> DEFINE s == snaps[n]
           b == FirstHolding(files, n)
           m == [s EXCEPT !.config = b]
           fix(why, x) == [why |-> why, key |-> n, snap |-> x]
<1>1. s \in Snapshot /\ (Untouched(n) => s.uid = 1)
  BY DEF TypeOK, StoreTypeOK, Exists, Untouched, NothingGone
<1>2. Agrees(n, Judged(files, n).snap)
  BY <1>1, JudgedFacts, StoredCurrent
<1>3. ASSUME NEW why \in {"notFound", "notMatched", "valid"}, why = "valid" => s.stored # 0
      PROVE  FixStored(fix(why, s))
  <2>1. fix(why, s).why = why /\ fix(why, s).key = n /\ fix(why, s).snap = s
    OBVIOUS
  <2> HIDE DEF fix
  <2> QED
    BY <1>1, <1>3, <2>1 DEF FixStored, FixFits, OfTheFirst, SameFile
<1>4. ASSUME ~Untouched(n) PROVE FixStored(fix("moved", m))
  <2>1. fix("moved", m).key = n
    OBVIOUS
  <2> HIDE DEF fix
  <2> QED
    BY <1>4, <2>1 DEF FixStored, FixFits, OfTheFirst, SameFile
<1>5. ASSUME Holding(files, n) # {}
      PROVE  /\ files[b][n].stamp = s.stored => s.stored # 0
             /\ b # s.config => ~Untouched(n)
  <2>1. b \in Buckets /\ files[b][n] # NoObject
    BY <1>5, FirstHoldingFacts
  <2>2. files[b][n] \in Object
    BY <2>1 DEF Files
  <2>3. InItsBucket(b, n)
    BY <2>1 DEF InTheirBuckets
  <2> QED
    BY <2>2, <2>3 DEF Object, InItsBucket
<1>6. \/ Judged(files, n) = fix("notFound", s)
      \/ Judged(files, n) = fix("notMatched", s)
      \/ /\ Holding(files, n) # {} /\ b # s.config
         /\ Judged(files, n) = fix("moved", m)
      \/ /\ Holding(files, n) # {} /\ files[b][n].stamp = s.stored
         /\ Judged(files, n) = fix("valid", s)
  BY DEF Judged
<1> HIDE DEF b, m, fix
<1>7. FixStored(Judged(files, n))
  BY <1>3, <1>4, <1>5, <1>6
<1> QED
  BY <1>2, <1>7

\* The files are compared with the Snapshots there are now.
LEMMA ListSnapshotsDescribed ==
  ASSUME SyncConstants, Validate, SyncTypeOK, CopiesAgree, StoredInv, SweepStored, ListSnapshots
  PROVE  SweepDescribed
<1>1. /\ sweep \in Sweep /\ sweep # NoSweep /\ TypeOK /\ NothingGone
      /\ sweep.files \in Files /\ InTheirBuckets(sweep.files)
  BY DEF ListSnapshots, Calling, SyncTypeOK, StoredInv, SweepStored, Sweep
<1> DEFINE fixes == {f \in {Judged(sweep.files, n) : n \in Compared} : Needed(f)}
           orphans == IF sweep.remove \/ sweep.recover THEN Orphans(sweep.files) ELSE {}
<1>2. sweep' = [sweep EXCEPT !.call = "fix", !.files = NoFiles,
                  !.orphans = orphans, !.fixes = fixes]
  BY DEF ListSnapshots, Continue
<1>3. ASSUME NEW f \in fixes PROVE FixStored(f) /\ Agrees(f.key, f.snap)
  <2>1. PICK n \in Compared : f = Judged(sweep.files, n)
    OBVIOUS
  <2>2. n \in Names /\ Exists(n) /\ snaps[n] \in Snapshot
    BY <1>1 DEF Compared, Exists, TypeOK, StoreTypeOK
  <2>3. f.key = n
    BY <2>1, <2>2, JudgedFacts
  <2> QED
    BY <1>1, <2>1, <2>2, <2>3, JudgedStored
<1>4. ASSUME NEW o \in orphans PROVE ~Untouched(o.key)
  <2>1. o \in Orphans(sweep.files)
    OBVIOUS
  <2>2. PICK b \in Buckets, n \in Names :
          /\ ~Exists(n) /\ sweep.files[b][n] # NoObject
          /\ o = [bucket |-> b, key |-> n, file |-> sweep.files[b][n]]
    BY <2>1 DEF Orphans
  <2>3. InItsBucket(b, n)
    BY <1>1, <2>2 DEF InTheirBuckets
  <2> QED
    BY <2>2, <2>3 DEF InItsBucket, Untouched
<1> HIDE DEF fixes, orphans
<1>5. /\ sweep'.call = "fix" /\ sweep'.files = NoFiles
      /\ sweep'.orphans = orphans /\ sweep'.fixes = fixes
  BY <1>1, <1>2 DEF Sweep
<1>6. InTheirBuckets(NoFiles)
  BY DEF InTheirBuckets, NoFiles
<1> QED
  BY <1>3, <1>4, <1>5, <1>6 DEF SweepDescribed

-----------------------------------------------------------------------------
(* Updates.                                                                *)

\* A verdict keeps bucket and file, and is Completed for what was found right.
LEMMA VerdictKeeps ==
  ASSUME NEW f \in Fix
  PROVE  /\ Verdict(f).config = f.snap.config /\ Verdict(f).stored = f.snap.stored
         /\ Verdict(f).phase = "Completed" => f.why \in {"moved", "trusted", "valid"}
<1>1. /\ f.snap \in Snapshot
      /\ f.why \in {"moved", "notMatched", "trusted", "notFound", "valid"}
  BY Whys DEF Fix
<1>2. ASSUME NEW phase, NEW reason
      PROVE  /\ Marked(f.snap, phase, reason).config = f.snap.config
             /\ Marked(f.snap, phase, reason).stored = f.snap.stored
             /\ Marked(f.snap, phase, reason).phase = phase
  BY <1>1 DEF Marked, Snapshot
<1>3. CASE f.why \in {"notMatched", "notFound"}
  <2>1. Verdict(f) = Marked(f.snap, "Failed", f.why)
    BY <1>3 DEF Verdict
  <2> QED
    BY <1>2, <2>1
<1>4. CASE f.why \in {"trusted", "valid"}
  <2>1. Verdict(f) = Marked(f.snap, "Completed", "")
    BY <1>4 DEF Verdict
  <2>2. PICK e : e = ""
    OBVIOUS
  <2>3. Verdict(f) = Marked(f.snap, "Completed", e)
    BY <2>1, <2>2
  <2> QED
    BY <1>2, <1>4, <2>3
<1>5. CASE f.why = "moved"
  BY <1>5 DEF Verdict
<1> QED
  BY <1>1, <1>3, <1>4, <1>5

\* An update of the sweep keeps what the status describes.
LEMMA FixDescribed ==
  ASSUME SyncConstants, AuditInv, StoredInv, SweepStored, FixAccepted \/ FixUnanswered
  PROVE  Described /\ SweepDescribed
<1>0. /\ SyncTypeOK /\ TypeOK /\ CopiesAgree /\ SweepAgrees /\ RecordIsStored /\ sweep # NoSweep
      /\ UNCHANGED <<lister, notes, objects, thread>>
  BY AuditFacts DEF FixAccepted, FixUnanswered, Calling, StoredInv, queueVars, fileVars
<1>1. PICK f \in sweep.fixes :
        /\ f \in Fix /\ Fresh(f.key, f.snap.rv) /\ Update(f.key, Verdict(f))
        /\ sweep' # NoSweep =>
             /\ sweep'.fixes \subseteq sweep.fixes \cup
                  {[why |-> "valid", key |-> f.key, snap |-> Returned(f.key, Verdict(f))]}
             /\ f.why # "moved" => sweep'.fixes \subseteq sweep.fixes
             /\ sweep'.files = sweep.files /\ sweep'.orphans = sweep.orphans
             /\ sweep'.call = "fix"
  BY <1>0, FixWrites
<1>2. PICK n \in Names, s \in Snapshot, x \in Snapshot :
        /\ n = f.key /\ s = f.snap /\ x = Verdict(f)
        /\ x.uid = s.uid /\ x.config = s.config /\ x.stored = s.stored
        /\ HasEnded(s) => HasEnded(x)
        /\ x.phase = "Completed" => f.why \in {"moved", "trusted", "valid"}
  BY <1>1, VerdictFacts, VerdictKeeps
<1>3. /\ Exists(n) /\ Fresh(n, s.rv) /\ snaps[n].uid = s.uid /\ HasEnded(x) /\ Update(n, x)
      /\ s.phase = snaps[n].phase /\ OfTheFirst(n, s) /\ SameFile(n, s) /\ FixFits(f)
  BY <1>0, <1>1, <1>2
     DEF SweepAgrees, Agrees, Fresh, SameResource, HasEnded, SweepStored, FixStored
<1>4. /\ \A m \in Names : StoreMove(m) /\ WatchStep(m) /\ EventsStep(m)
      /\ \A m \in Names \ {n} : snaps'[m] = snaps[m]
      /\ snaps'[n] # NoSnap /\ snaps'[n] = Returned(n, x)
  BY <1>0, <1>2, <1>3, UpdateMove, UpdateEvents
<1>5. /\ snaps'[n].config = x.config /\ snaps'[n].stored = x.stored
      /\ snaps'[n].phase = x.phase /\ snaps'[n].uid = x.uid
  BY <1>4, UpdateKeeps
<1>6. ASSUME snaps[n].uid = 1
      PROVE  /\ s.config = snaps[n].config /\ s.stored = snaps[n].stored
             /\ f.why \notin {"moved", "trusted"} /\ (f.why = "valid" => s.stored # 0)
  <2>1. Untouched(n)
    BY <1>3, <1>6 DEF Untouched
  <2> QED
    BY <1>2, <1>3, <2>1 DEF OfTheFirst, SameFile, FixFits
<1>7. ConfigStep(n)
  BY <1>2, <1>5, <1>6 DEF ConfigStep
<1>8. RecordingStep(n)
  <2> SUFFICES ASSUME snaps'[n].uid = 1 PROVE RecordingStep(n)
    BY DEF RecordingStep
  <2>1. snaps[n].uid = 1
    BY <1>2, <1>3, <1>5
  <2>2. CASE snaps[n].stored = 0 /\ snaps[n].phase # "Completed"
    <3>1. x.phase # "Completed"
      BY <1>2, <1>6, <2>1, <2>2
    <3>2. x.stored = 0
      BY <1>2, <1>6, <2>1, <2>2
    <3> QED
      BY <1>5, <3>1, <3>2 DEF RecordingStep
  <2>3. CASE snaps[n].stored # 0
    BY <1>2, <1>3, <1>5, <1>6, <2>1, <2>3 DEF RecordingStep, HasEnded
  <2> QED
    BY <1>0, <1>3, <2>1, <2>2, <2>3 DEF RecordIsStored
<1>9. \A m \in Names \ {n} : ConfigStep(m) /\ RecordingStep(m)
  BY <1>0, <1>4, QuietRecording DEF ConfigStep
<1>10. Described
  BY <1>0, <1>4, <1>7, <1>8, <1>9, QuietNotes, QuietLister, QuietFiles, QuietThread
     DEF Described, StoreDescribed
<1>11. ASSUME sweep' # NoSweep, NEW g \in sweep'.fixes
       PROVE  FixStored(g) /\ (Untouched(g.key) => Agrees(g.key, g.snap))
  <2>1. CASE g \in sweep.fixes
    BY <1>0, <2>1 DEF SweepStored, SweepAgrees
  <2>2. CASE g \notin sweep.fixes
    <3>1. f.why = "moved" /\ g.key = n
      BY <1>1, <1>2, <1>11, <2>2
    <3>2. ~Untouched(n)
      BY <1>2, <1>3, <3>1 DEF FixFits
    <3> QED
      BY <3>1, <3>2 DEF FixStored, FixFits, OfTheFirst, SameFile
  <2> QED
    BY <2>1, <2>2
<1>12. SweepDescribed
  BY <1>0, <1>1, <1>11 DEF SweepDescribed, SweepStored
<1> QED
  BY <1>10, <1>12

-----------------------------------------------------------------------------
(* Orphans.                                                                *)

\* The sweep goes on with the next orphan.
LEMMA NextOrphanDescribed ==
  ASSUME SyncTypeOK, SweepAgrees, SweepStored, sweep # NoSweep, NextOrphan
  PROVE  SweepDescribed
<1>1. /\ sweep'.files = sweep.files /\ sweep'.orphans = sweep.orphans
      /\ sweep'.fixes = sweep.fixes /\ sweep'.call = "fix"
  BY DEF NextOrphan, Continue, SyncTypeOK, Sweep
<1> QED
  BY <1>1, SameSweepDescribed

\* Only a file whose name was used before is removed.
LEMMA RemoveOrphanDescribed ==
  ASSUME AuditInv, StoredInv, SweepStored, RemoveOrphan
  PROVE  Described /\ SweepDescribed
<1>0. /\ SyncTypeOK /\ TypeOK /\ StoredBase /\ RecordIsStored /\ SweepAgrees
      /\ sweep \in Sweep /\ sweep # NoSweep /\ sweep.call = "fix"
      /\ UNCHANGED apiVars /\ UNCHANGED <<lister, notes, thread>>
  BY AuditFacts, AuditStored
     DEF StoredInv, RemoveOrphan, OrphansAreNext, Calling, SyncTypeOK, queueVars
<1>1. PICK o \in sweep.orphans :
        /\ sweep' = [sweep EXCEPT !.orphans = @ \ {o}]
        /\ \/ objects' = [objects EXCEPT ![o.bucket][o.key] = NoObject]
           \/ UNCHANGED objects
  BY DEF RemoveOrphan, Continue
<1>2. o.bucket \in Buckets /\ o.key \in Names /\ ~Untouched(o.key)
  BY <1>0 DEF Sweep, Orphan, SweepStored
<1>3. ASSUME NEW n \in Names PROVE FileStep(n)
  <2>1. ASSUME NEW b \in Buckets
        PROVE  \/ objects'[b][n] = objects[b][n]
               \/ n = o.key /\ objects'[b][n] = NoObject
    <3>1. /\ objects[b] \in [Names -> Object \cup {NoObject}]
          /\ objects \in [Buckets -> [Names -> Object \cup {NoObject}]]
      BY <1>0 DEF TypeOK, StoreTypeOK
    <3>2. CASE objects' = [objects EXCEPT ![o.bucket][o.key] = NoObject]
      <4>1. objects'[b] = objects[b] \/ objects'[b] = [objects[b] EXCEPT ![o.key] = NoObject]
        BY <3>1, <3>2
      <4> QED
        BY <3>1, <4>1
    <3> QED
      BY <1>1, <3>2
  <2> QED
    BY <1>2, <2>1 DEF FileStep
<1>4. Described
  BY <1>0, <1>3, QuietApi, QuietNotes, QuietLister, QuietThread DEF Described
<1>5. /\ sweep'.files = sweep.files /\ sweep'.orphans \subseteq sweep.orphans
      /\ sweep'.fixes = sweep.fixes /\ sweep'.call = "fix"
  BY <1>0, <1>1 DEF Sweep
<1>6. SweepDescribed
  BY <1>0, <1>5, SameSweepDescribed
<1> QED
  BY <1>4, <1>6

\* What is recovered is such a file too.
LEMMA DownloadOrphanDescribed ==
  ASSUME AuditInv, StoredInv, SweepStored, DownloadOrphan
  PROVE  Described /\ SweepDescribed
<1>0. /\ StoredBase /\ RecordIsStored /\ SweepAgrees
      /\ sweep \in Sweep /\ sweep # NoSweep /\ sweep.call = "fix"
      /\ UNCHANGED apiVars /\ UNCHANGED <<lister, notes, objects, thread>>
  BY AuditFacts, AuditStored
     DEF StoredInv, DownloadOrphan, OrphansAreNext, Calling, SyncTypeOK, queueVars, fileVars
<1>1. Described
  BY <1>0, QuietDescribed
<1>2. PICK o \in sweep.orphans :
        \/ Continue([sweep EXCEPT !.orphans = @ \ {o}, !.call = "create",
             !.restoring = [orphan |-> [o EXCEPT !.file.json = objects[o.bucket][o.key].json],
                            snap |-> NoSnap]])
        \/ Continue([sweep EXCEPT !.orphans = @ \ {o}])
  BY DEF DownloadOrphan
<1>3. CASE sweep' = [sweep EXCEPT !.orphans = @ \ {o}]
  <2>1. /\ sweep'.files = sweep.files /\ sweep'.orphans \subseteq sweep.orphans
        /\ sweep'.fixes = sweep.fixes /\ sweep'.call = "fix"
    BY <1>0, <1>3 DEF Sweep
  <2>2. SweepDescribed
    BY <1>0, <2>1, SameSweepDescribed
  <2> QED
    BY <1>1, <2>2
<1>4. CASE sweep' = [sweep EXCEPT !.orphans = @ \ {o}, !.call = "create",
             !.restoring = [orphan |-> [o EXCEPT !.file.json = objects[o.bucket][o.key].json],
                            snap |-> NoSnap]]
  <2> DEFINE p == [o EXCEPT !.file.json = objects[o.bucket][o.key].json]
             r == [orphan |-> p, snap |-> NoSnap]
  <2>1. o \in Orphan /\ ~Untouched(o.key)
    BY <1>0 DEF Sweep, SweepStored
  <2>2. p.key = o.key
    BY <2>1 DEF Orphan
  <2> HIDE DEF p
  <2>3. r.orphan = p
    OBVIOUS
  <2>4. sweep' = [sweep EXCEPT !.orphans = @ \ {o}, !.call = "create", !.restoring = r]
    BY <1>4 DEF p
  <2> HIDE DEF r
  <2>5. /\ sweep'.files = sweep.files /\ sweep'.orphans \subseteq sweep.orphans
        /\ sweep'.fixes = sweep.fixes /\ sweep'.restoring = r
    BY <1>0, <2>4 DEF Sweep
  <2>6. SweepDescribed
    BY <1>0, <2>1, <2>2, <2>3, <2>5, SameSweepDescribed
  <2> QED
    BY <1>1, <2>6
<1> QED
  BY <1>2, <1>3, <1>4 DEF Continue

\* A Snapshot made from a file is not the first of its name.
LEMMA CreateRestoredDescribed ==
  ASSUME AuditInv, StoredInv, SweepStored, CreateRestored
  PROVE  Described /\ SweepDescribed
<1>0. /\ SyncTypeOK /\ TypeOK /\ CopiesAgree /\ StoredBase /\ RecordIsStored /\ SweepAgrees
      /\ sweep \in Sweep /\ sweep # NoSweep /\ sweep.call = "create"
      /\ sweep.restoring \in Restoring
      /\ UNCHANGED <<lister, notes, objects, thread>>
  BY AuditFacts, AuditStored
     DEF StoredInv, CreateRestored, Calling, SyncTypeOK, SweepFits, queueVars, fileVars
<1>1. PICK n \in Names, j \in Snapshot :
        n = sweep.restoring.orphan.key /\ j = sweep.restoring.orphan.file.json
  BY <1>0 DEF Restoring, Orphan, Object
<1>2. ~Untouched(n)
  BY <1>0, <1>1 DEF SweepStored
<1>3. UNCHANGED apiVars \/ Create(n, j)
  BY <1>1 DEF CreateRestored
<1>4. NextOrphan \/ sweep' = [sweep EXCEPT !.call = "get"]
  BY DEF CreateRestored, Continue
<1>5. ASSUME Create(n, j) PROVE StoreDescribed
  <2> DEFINE y == [j EXCEPT !.uid = ver[n] + 1, !.created = now]
  <2>1. ver[n] \in Nat /\ ver[n] # 0 /\ ver[n] + 1 \in Nat /\ now \in Nat
    BY <1>0, <1>2 DEF TypeOK, StoreTypeOK, Untouched
  <2>2. y \in Snapshot /\ y.uid = ver[n] + 1
    BY <2>1 DEF Snapshot
  <2>3. Put(n, y) /\ ~Exists(n)
    BY <1>5 DEF Create
  <2> HIDE DEF y
  <2>4. /\ \A m \in Names : StoreMove(m) /\ WatchStep(m)
        /\ \A m \in Names \ {n} : snaps'[m] = snaps[m]
        /\ snaps'[n] = [y EXCEPT !.rv = ver[n] + 1]
    BY <1>0, <2>2, <2>3, PutMove
  <2>5. snaps'[n].uid # 1
    BY <2>1, <2>2, <2>4 DEF Snapshot
  <2>6. \A m \in Names : EventsStep(m)
    BY <1>0, <2>3, PutEvents
  <2>7. ConfigStep(n) /\ RecordingStep(n)
    BY <2>3, <2>5 DEF ConfigStep, RecordingStep
  <2>8. \A m \in Names \ {n} : ConfigStep(m) /\ RecordingStep(m)
    BY <1>0, <2>4, QuietRecording DEF ConfigStep
  <2> QED
    BY <2>4, <2>6, <2>7, <2>8 DEF StoreDescribed
<1>6. StoreDescribed
  BY <1>0, <1>3, <1>5, QuietApi
<1>7. Described
  BY <1>0, <1>6, QuietNotes, QuietLister, QuietFiles, QuietThread DEF Described
<1>8. CASE NextOrphan
  BY <1>0, <1>7, <1>8, NextOrphanDescribed
<1>9. CASE sweep' = [sweep EXCEPT !.call = "get"]
  <2>1. /\ sweep'.files = sweep.files /\ sweep'.orphans = sweep.orphans
        /\ sweep'.fixes = sweep.fixes /\ sweep'.restoring = sweep.restoring
    BY <1>0, <1>9 DEF Sweep
  <2>2. SweepDescribed
    BY <1>0, <1>1, <1>2, <2>1, SameSweepDescribed
  <2> QED
    BY <1>7, <2>2
<1> QED
  BY <1>4, <1>8, <1>9

\* What is set in the cache is of such a name.
LEMMA GetRestoredDescribed ==
  ASSUME AuditInv, StoredInv, SweepStored, GetRestored
  PROVE  Described /\ SweepDescribed
<1>0. /\ SyncTypeOK /\ StoreTypeOK /\ StoredBase /\ RecordIsStored /\ SweepAgrees
      /\ sweep \in Sweep /\ sweep # NoSweep /\ sweep.call = "get"
      /\ sweep.restoring \in Restoring
      /\ UNCHANGED apiVars /\ UNCHANGED <<notes, objects, thread>>
  BY AuditFacts, AuditStored
     DEF StoredInv, GetRestored, Calling, SyncTypeOK, TypeOK, SweepFits, queueVars, fileVars
<1>1. PICK k \in Names : k = sweep.restoring.orphan.key
  BY <1>0 DEF Restoring, Orphan
<1>2. PICK x : x = Restored(lister[k], sweep.restoring.orphan.file)
  OBVIOUS
<1>3. ~Untouched(k)
  BY <1>0, <1>1 DEF SweepStored
<1>4. \/ NextOrphan /\ UNCHANGED lister
      \/ /\ lister' = [lister EXCEPT ![k] = x]
         /\ sweep' = [sweep EXCEPT !.call = "complete", !.restoring.snap = x]
  BY <1>1, <1>2 DEF GetRestored, Continue
<1>5. ASSUME NEW n \in Names PROVE ListerTwin(n)
  <2>1. n = k \/ lister'[n] = lister[n]
    BY <1>0, <1>4 DEF StoreTypeOK
  <2> QED
    BY <1>3, <2>1 DEF ListerTwin, Twin, Like
<1>6. Described
  BY <1>0, <1>5, QuietApi, QuietNotes, QuietFiles, QuietThread DEF Described
<1>7. CASE NextOrphan
  BY <1>0, <1>6, <1>7, NextOrphanDescribed
<1>8. CASE sweep' = [sweep EXCEPT !.call = "complete", !.restoring.snap = x]
  <2>1. /\ sweep'.files = sweep.files /\ sweep'.orphans = sweep.orphans
        /\ sweep'.fixes = sweep.fixes /\ sweep'.restoring.orphan = sweep.restoring.orphan
    BY <1>0, <1>8 DEF Sweep, Restoring
  <2>2. SweepDescribed
    BY <1>0, <1>1, <1>3, <2>1, SameSweepDescribed
  <2> QED
    BY <1>6, <2>2
<1> QED
  BY <1>4, <1>7, <1>8

\* And so is the Snapshot that is Completed without having been taken.
LEMMA CompleteRestoredDescribed ==
  ASSUME AuditInv, StoredInv, SweepStored, CompleteRestored
  PROVE  Described /\ SweepDescribed
<1>0. /\ SyncTypeOK /\ TypeOK /\ CopiesAgree /\ StoredBase /\ RecordIsStored /\ SweepAgrees
      /\ sweep # NoSweep /\ sweep.call = "complete"
      /\ sweep.restoring \in Restoring /\ sweep.restoring.snap \in Snapshot
      /\ UNCHANGED <<lister, notes, objects, thread>>
  BY AuditFacts, AuditStored
     DEF StoredInv, CompleteRestored, Calling, SyncTypeOK, SweepFits, queueVars, fileVars
<1>1. PICK n \in Names, s \in Snapshot :
        n = sweep.restoring.orphan.key /\ s = sweep.restoring.snap
  BY <1>0 DEF Restoring, Orphan
<1>2. PICK x : x = Marked(s, "Completed", "")
  OBVIOUS
<1>3. ~Untouched(n) /\ Agrees(n, s)
  BY <1>0, <1>1 DEF SweepStored, SweepAgrees
<1>4. UNCHANGED apiVars \/ (Fresh(n, s.rv) /\ Update(n, x))
  BY <1>1, <1>2 DEF CompleteRestored
<1>5. x \in Snapshot /\ x.uid = s.uid
  BY <1>2 DEF Marked, Snapshot, Phases, Reasons
<1>6. ASSUME Fresh(n, s.rv), Update(n, x) PROVE StoreDescribed
  <2>1. Exists(n) /\ x.uid = snaps[n].uid /\ snaps[n].uid # 1
    BY <1>3, <1>5, <1>6 DEF Agrees, Fresh, SameResource, Untouched
  <2>2. /\ \A m \in Names : StoreMove(m) /\ WatchStep(m) /\ EventsStep(m)
        /\ \A m \in Names \ {n} : snaps'[m] = snaps[m]
        /\ snaps'[n] = Returned(n, x)
    BY <1>0, <1>5, <1>6, <2>1, UpdateMove, UpdateEvents
  <2>3. snaps'[n].uid # 1
    BY <1>5, <2>1, <2>2, UpdateKeeps
  <2>4. ConfigStep(n) /\ RecordingStep(n)
    BY <2>1, <2>3 DEF ConfigStep, RecordingStep
  <2>5. \A m \in Names \ {n} : ConfigStep(m) /\ RecordingStep(m)
    BY <1>0, <2>2, QuietRecording DEF ConfigStep
  <2> QED
    BY <2>2, <2>4, <2>5 DEF StoreDescribed
<1>7. StoreDescribed
  BY <1>0, <1>4, <1>6, QuietApi
<1>8. Described
  BY <1>0, <1>7, QuietNotes, QuietLister, QuietFiles, QuietThread DEF Described
<1>9. SweepDescribed
  BY <1>0, NextOrphanDescribed DEF CompleteRestored
<1> QED
  BY <1>8, <1>9

\* The steps of the sweep.
LEMMA SyncerDescribed ==
  ASSUME SyncConstants, Validate, AuditInv, StoredInv, SweepStored, SyncerStep \/ SyncerFault
  PROVE  Described /\ SweepDescribed
<1>0. /\ SyncTypeOK /\ CopiesAgree /\ SweepFits /\ SweepAgrees /\ StoredBase /\ RecordIsStored
  BY AuditFacts, AuditStored DEF StoredInv
<1>1. CASE StartSweep \/ ListBucket \/ ListSnapshots \/ FixRefused \/ SweepFailed \/ EndSweep
  <2>1. UNCHANGED apiVars /\ UNCHANGED <<lister, notes, objects, thread>>
    BY <1>1 DEF StartSweep, ListBucket, ListSnapshots, FixRefused, SweepFailed, EndSweep,
                vars, storeVars, queueVars, fileVars
  <2>2. Described
    BY <1>0, <2>1, QuietDescribed
  <2>3. CASE StartSweep
    <3>1. Housekeep \in BOOLEAN /\ FALSE \in BOOLEAN
      BY DEF SyncConstants, SyncerAssumption
    <3>2. sweep' = NewSweep(Housekeep, FALSE)
      BY <2>3 DEF StartSweep, Continue
    <3> QED
      BY <2>2, <3>1, <3>2, NewSweepDescribed
  <2>4. CASE FixRefused \/ SweepFailed \/ EndSweep
    <3>1. sweep' = NoSweep
      BY <2>4 DEF FixRefused, SweepFailed, EndSweep, Finish
    <3> QED
      BY <2>2, <3>1 DEF SweepDescribed
  <2> QED
    BY <1>0, <1>1, <2>2, <2>3, <2>4, ListBucketDescribed, ListSnapshotsDescribed
<1> QED
  BY <1>1, FixDescribed, RemoveOrphanDescribed, DownloadOrphanDescribed,
     CreateRestoredDescribed, GetRestoredDescribed, CompleteRestoredDescribed
     DEF SyncerStep, SyncerFault

-----------------------------------------------------------------------------
(* The invariant.                                                          *)

\* What is spent on something else leaves what may be lost.
LEMMA SpendKeeps ==
  ASSUME TypeOK, NEW kind \in BudgetKinds \ {"loss"}, Spend(kind)
  PROVE  budget'["loss"] = budget["loss"]
  BY DEF TypeOK, StoreTypeOK, Spend

\* Only LoseObject spends that.
LEMMA LossKept ==
  ASSUME SyncTypeOK,
         \/ UNCHANGED syncVars
         \/ Environment
         \/ ControllerStep
         \/ SyncerStep
         \/ SyncerFault
         \/ Restart
  PROVE  budget'["loss"] = budget["loss"]
<1>0. TypeOK
  BY DEF SyncTypeOK
<1>1. {"create", "edit", "remove", "fault", "relist", "crash"} = BudgetKinds \ {"loss"}
  BY DEF BudgetKinds
<1>2. \/ UNCHANGED budget
      \/ \E kind \in {"create", "edit", "remove", "fault", "relist", "crash"} : Spend(kind)
  <2>1. CASE UNCHANGED syncVars
    BY <2>1 DEF syncVars, vars, storeVars
  <2>2. CASE Environment
    BY <2>2 DEF Environment, User, UserCreate, UserEdit, UserDelete, Tick
  <2>3. CASE Restart
    BY <2>3 DEF Restart
  <2>4. ASSUME NEW n \in Names, Informer(n)
        PROVE  UNCHANGED budget \/ Spend("relist") \/ Spend("fault")
    BY <2>4 DEF Informer, Deliver, Relist, Resync, EnqueueSnapshot, DeleteSnapshot, Ready
  <2>5. ASSUME NEW t \in Threads, ThreadNext(t) PROVE UNCHANGED budget \/ Spend("fault")
    <3>1. CASE \E n \in Names : StartSync(t, n)
      BY <3>1 DEF StartSync
    <3>2. CASE Advance(t)
      BY <3>2 DEF Advance, UpdateAccepted, UpdateRefused, GetBucket, TakeSnapshot, Upload,
                  ObjectInfo, DeleteExpired, DeleteRefused, storeVars
    <3>3. CASE Fault(t)
      BY <3>3 DEF Fault, UpdateFailed, UpdateUnanswered, ObjectInfoFailed, GiveUp, DeleteFailed
    <3> QED
      BY <2>5, <3>1, <3>2, <3>3 DEF ThreadNext
  <2>6. CASE ControllerStep
    BY <2>4, <2>5, <2>6 DEF ControllerStep
  <2>7. CASE SyncerStep
    BY <2>7 DEF SyncerStep, StartSweep, ListBucket, ListSnapshots, FixAccepted, FixRefused,
                RemoveOrphan, DownloadOrphan, CreateRestored, GetRestored, CompleteRestored,
                EndSweep, vars, storeVars
  <2>8. CASE SyncerFault
    BY <2>8 DEF SyncerFault, FixUnanswered, SweepFailed
  <2> QED
    BY <2>1, <2>2, <2>3, <2>6, <2>7, <2>8
<1> QED
  BY <1>0, <1>1, <1>2, SpendKeeps

\* Every step keeps the invariant, or loses a file.
LEMMA SyncStoredNext ==
  ASSUME SyncConstants, Validate, SyncStoredInv, [SyncNext]_syncVars
  PROVE  SyncStoredInv'
<1>0. /\ AuditInv /\ SyncTypeOK /\ TypeOK /\ SweepFits /\ SweepAgrees /\ StoredBase /\ Constants
      /\ budget["loss"] <= Budget["loss"]
      /\ budget["loss"] \in Nat /\ budget'["loss"] \in Nat /\ Budget["loss"] \in Nat
  <2>1. AuditInv /\ AuditInv'
    BY AuditNext DEF SyncStoredInv
  <2>2. TypeOK /\ TypeOK'
    BY <2>1, AuditFacts DEF AuditInv, SyncInv, SyncTypeOK
  <2> QED
    BY <2>1, <2>2, AuditFacts, AuditStored, StoreAssumption
       DEF SyncStoredInv, SyncConstants, TypeOK, StoreTypeOK, BudgetKinds
<1>1. AuditInv' /\ SyncTypeOK' /\ TypeOK' /\ SweepFits'
  BY <1>0, AuditNext DEF AuditInv, SyncInv, SyncTypeOK
<1>2. CASE LoseObject
  <2>1. budget'["loss"] = budget["loss"] - 1 /\ budget["loss"] > 0
    BY <1>0, <1>2 DEF LoseObject, Spend, TypeOK, StoreTypeOK, BudgetKinds
  <2>2. budget'["loss"] <= Budget["loss"] /\ budget'["loss"] # Budget["loss"]
    BY <1>0, <2>1
  <2> QED
    BY <1>1, <2>2 DEF SyncStoredInv, NothingLost
<1>3. CASE \/ UNCHANGED syncVars
           \/ Environment /\ UNCHANGED <<started, sweep>>
           \/ ControllerStep
           \/ SyncerStep
           \/ SyncerFault
           \/ Restart /\ Boot
  <2>1. budget'["loss"] = budget["loss"]
    BY <1>0, <1>3, LossKept
  <2> SUFFICES ASSUME NothingLost
               PROVE  StoredInv' /\ SweepStored'
    BY <1>0, <1>1, <2>1 DEF SyncStoredInv, NothingLost
  <2>2. StoredInv /\ SweepStored /\ RecordIsStored
    BY DEF SyncStoredInv, StoredInv
  <2>3. sweep' = sweep => SweepDescribed
    BY <1>0, <2>2, SameSweepDescribed
  <2>4. Described /\ SweepDescribed
    <3>1. CASE UNCHANGED syncVars
      BY <1>0, <2>2, <2>3, <3>1, QuietDescribed
         DEF syncVars, vars, storeVars, queueVars, fileVars
    <3>2. CASE Environment /\ UNCHANGED <<started, sweep>>
      BY <1>0, <2>2, <2>3, <3>2, EnvironmentDescribed
    <3>3. CASE ControllerStep
      BY <1>0, <1>1, <2>2, <2>3, <3>3, InformerDescribed, ThreadDescribed DEF ControllerStep
    <3>4. CASE SyncerStep \/ SyncerFault
      BY <1>0, <2>2, <3>4, SyncerDescribed
    <3>5. CASE Restart /\ Boot
      <4>1. FALSE \in BOOLEAN /\ RestoreSnapshots \in BOOLEAN
        BY DEF SyncConstants, SyncerAssumption
      <4>2. SweepDescribed
        BY <3>5, <4>1, NewSweepDescribed DEF Boot
      <4> QED
        BY <1>0, <2>2, <3>5, <4>2, RestartDescribed
    <3> QED
      BY <1>3, <3>1, <3>2, <3>3, <3>4, <3>5
  <2>5. StoredInv'
    BY <1>0, <1>1, <2>2, <2>4, DescribedKeeps
  <2>6. SweepStored'
    BY <1>0, <1>1, <2>2, <2>4, SweepKept
  <2> QED
    BY <2>5, <2>6
<1> QED
  BY <1>2, <1>3 DEF SyncNext

\* It holds at the start.
LEMMA SyncStoredInit ==
  ASSUME SyncConstants, SyncInit
  PROVE  SyncStoredInv
<1>1. AuditInv
  BY AuditInit
<1>2. StoredInv
  BY InitStored DEF SyncInit
<1>3. budget = Budget /\ Budget["loss"] \in Nat
  BY StoreAssumption DEF SyncInit, Init, StoreInit, BudgetKinds
<1>4. FALSE \in BOOLEAN /\ RestoreSnapshots \in BOOLEAN
  BY DEF SyncConstants, SyncerAssumption
<1>5. sweep # NoSweep =>
        /\ sweep.call = "objects" /\ sweep.files = NoFiles
        /\ sweep.orphans = {} /\ sweep.fixes = {}
  BY <1>4, NewSweepFacts DEF SyncInit
<1>6. InTheirBuckets(NoFiles)
  BY DEF InTheirBuckets, NoFiles
<1>7. SweepStored
  BY <1>5, <1>6 DEF SweepStored
<1> QED
  BY <1>1, <1>2, <1>3, <1>7 DEF SyncStoredInv

-----------------------------------------------------------------------------
(* The theorem.                                                            *)

\* While file infos are validated and nobody but the controller touches the
\* files, a Completed Snapshot whose name was not used before has the file its
\* status describes: no sweep removes it, or finds right what is not there,
\* however old what it read.
THEOREM SyncStored == Validate => (SyncSpec => [](NothingLost => CompletedIsStored))
<1>0. SyncConstants
  BY StoreAssumption, ThreadAssumption, SyncerAssumption DEF Constants, SyncConstants
<1> SUFFICES ASSUME Validate
             PROVE  SyncSpec => [](NothingLost => CompletedIsStored)
  OBVIOUS
<1>1. SyncInit => SyncStoredInv
  BY <1>0, SyncStoredInit
<1>2. SyncStoredInv /\ [SyncNext]_syncVars => SyncStoredInv'
  BY <1>0, SyncStoredNext
<1>3. SyncStoredInv => (NothingLost => CompletedIsStored)
  BY CompletedStored DEF SyncStoredInv
<1> QED
  BY <1>1, <1>2, <1>3, PTL DEF SyncSpec

=============================================================================
