------------------------ MODULE SnapshotStored_proofs ------------------------
(***************************************************************************)
(* Proof about SnapshotController that a Completed Snapshot has the file   *)
(* its status describes, if its name was not used before: from the         *)
(* inductive invariant of SnapshotController_proofs and the history of     *)
(* the name. What is said of a step holds beside the object syncer too     *)
(* (SyncerStored_proofs).                                                  *)
(***************************************************************************)
EXTENDS SnapshotController_proofs

-----------------------------------------------------------------------------
(* The inductive invariant.                                                *)

\* No Snapshot of this name was ever deleted.
Untouched(n) == ver[n] = 0 \/ (Exists(n) /\ snaps[n].uid = 1)

\* Then nobody is told to remove its file.
NothingGone ==
  \A n \in Names :
    /\ ver[n] = 0 => ~Exists(n)
    /\ Untouched(n) => /\ \A i \in DOMAIN watch[n] : watch[n][i].type = "set"
                       /\ \A i \in DOMAIN notes[n] : notes[n][i].op = "enqueue"

\* A copy is of the only Snapshot there has been of this name, which keeps its
\* bucket.
OfTheFirst(n, s) == Untouched(n) => s.uid = 1 /\ s.config = snaps[n].config

\* A copy of the stored version names the stored file.
SameFile(n, s) == Untouched(n) /\ Fresh(n, s.rv) => s.stored = snaps[n].stored

\* Every copy is such a copy, but for a thread that has uploaded a file and
\* not recorded it.
CopiesName ==
  /\ \A n \in Names : lister[n] # NoSnap => OfTheFirst(n, lister[n]) /\ SameFile(n, lister[n])
  /\ \A n \in Names : \A i \in DOMAIN watch[n] :
       OfTheFirst(n, watch[n][i].snap) /\ SameFile(n, watch[n][i].snap)
  /\ \A t \in Threads : Busy(t) =>
       /\ OfTheFirst(thread[t].key, thread[t].snap)
       /\ thread[t].pc # "complete" => SameFile(thread[t].key, thread[t].snap)

\* The file of n is the one s describes.
StoredAs(n, s) ==
  objects[s.config][n] # NoObject /\ objects[s.config][n].stamp = s.stored

\* What a thread is about to record is still there.
ReadyToComplete ==
  \A t \in Threads :
    At(t, "complete") /\ thread[t].snap.uid = 1 /\ SameResource(thread[t].key, thread[t].snap) =>
      StoredAs(thread[t].key, thread[t].snap)

\* What a status describes is there, and it describes a file only once the
\* Snapshot has been Completed.
RecordIsStored ==
  \A n \in Names : Exists(n) /\ snaps[n].uid = 1 =>
    \/ snaps[n].stored = 0 /\ snaps[n].phase # "Completed"
    \/ /\ snaps[n].stored # 0 /\ snaps[n].phase \in {"Completed", "Failed"}
       /\ StoredAs(n, snaps[n])

\* A file has the name of a Snapshot there is or was, and is in the bucket of
\* the only one there has been.
InItsBucket(b, n) == ver[n] # 0 /\ (Untouched(n) => b = snaps[n].config)

InTheirBuckets(files) ==
  \A b \in Buckets, n \in Names : files[b][n] # NoObject => InItsBucket(b, n)

StoredInv ==
  NothingGone /\ CopiesName /\ ReadyToComplete /\ RecordIsStored /\ InTheirBuckets(objects)

\* What is needed of the other invariants.
StoredBase == LifeBase /\ TakerOwnsResource

LEMMA IndStored == IndInv => StoredBase
  BY IndLife DEF StoredBase, IndInv

LEMMA StoredBaseFacts ==
  ASSUME StoredBase
  PROVE  TypeOK /\ CopiesAgree /\ OneThreadPerKey /\ CallsFit /\ TakerOwnsResource /\ LifeBase
BY DEF StoredBase, LifeBase

\* The file a status describes is there, in particular when the Snapshot is
\* Completed.
LEMMA CompletedStored == StoredInv => CompletedIsStored
  BY DEF StoredInv, RecordIsStored, CompletedIsStored, StoredAs

-----------------------------------------------------------------------------
(* Descriptions of a step, beside those of SnapshotController_proofs.      *)

\* s and r are copies of the same version that name the same file.
Twin(s, r) == Like(s, r) /\ s.config = r.config /\ s.stored = r.stored

\* A new event is a "set", or comes with a deletion.
EventsStep(n) ==
  \A i \in DOMAIN watch'[n] :
    \/ \E j \in DOMAIN watch[n] : watch'[n][i] = watch[n][j]
    \/ watch'[n][i].type = "set"
    \/ Exists(n) /\ snaps'[n] = NoSnap

\* A new notification to delete comes from such an event.
NotesStep(n) ==
  \A i \in DOMAIN notes'[n] :
    \/ \E j \in DOMAIN notes[n] : notes'[n][i] = notes[n][j]
    \/ notes'[n][i].op = "enqueue"
    \/ \E j \in DOMAIN watch[n] : watch[n][j].type = "gone"

\* The lister gets what an event or the store has, or keeps version and file.
ListerTwin(n) ==
  lister'[n] # NoSnap =>
    \/ lister[n] # NoSnap /\ Twin(lister'[n], lister[n])
    \/ \E j \in DOMAIN watch[n] : lister'[n] = watch[n][j].snap
    \/ lister'[n] = snaps'[n]
    \/ ~Untouched(n)

\* A thread keeps its copy, or goes on with what it uploaded, with what its
\* update stored, or with what the lister has.
ThreadTwin(t) ==
  thread'[t] # Idle =>
    \/ /\ Busy(t) /\ thread'[t].key = thread[t].key
       /\ Like(thread'[t].snap, thread[t].snap) /\ thread'[t].snap.config = thread[t].snap.config
       /\ \/ thread'[t].pc = "complete"
          \/ Twin(thread'[t].snap, thread[t].snap) /\ thread[t].pc # "complete"
    \/ snaps'[thread'[t].key] # NoSnap /\ Twin(thread'[t].snap, snaps'[thread'[t].key])
    \/ lister[thread'[t].key] # NoSnap /\ Twin(thread'[t].snap, lister[thread'[t].key])

\* A thread comes to record the file that is there.
RecordStep(t) ==
  thread'[t] # Idle /\ thread'[t].pc = "complete" =>
    thread'[t] = thread[t] \/ StoredAs(thread[t].key, thread[t].snap)'

\* A Snapshot keeps its bucket.
ConfigStep(n) ==
  Exists(n) /\ snaps[n].uid = 1 /\ snaps'[n] # NoSnap => snaps'[n].config = snaps[n].config

\* The status describes no file, or the file it did, or comes to describe one
\* by the thread that uploaded it.
RecordingStep(n) ==
  snaps'[n] # NoSnap /\ snaps'[n].uid = 1 =>
    \/ snaps'[n].stored = 0 /\ snaps'[n].phase # "Completed"
    \/ /\ Exists(n) /\ snaps[n].uid = 1 /\ snaps[n].stored # 0
       /\ snaps'[n].config = snaps[n].config /\ snaps'[n].stored = snaps[n].stored
       /\ snaps'[n].phase \in {"Completed", "Failed"}
    \/ \E t \in Threads :
         /\ At(t, "complete") /\ thread[t].key = n
         /\ thread[t].snap.uid = 1 /\ SameResource(n, thread[t].snap)
         /\ snaps'[n].config = thread[t].snap.config /\ snaps'[n].stored = thread[t].snap.stored
         /\ snaps'[n].phase = "Completed"

\* A file changes by an upload, or is removed when its name is not untouched.
FileStep(n) ==
  \/ \A b \in Buckets : objects'[b][n] = objects[b][n]
  \/ \E t \in Threads :
       /\ At(t, "upload") /\ thread[t].key = n
       /\ \A b \in Buckets \ {thread[t].snap.config} : objects'[b][n] = objects[b][n]
  \/ ~Untouched(n) /\ \A b \in Buckets : objects'[b][n] \in {objects[b][n], NoObject}

StoreDescribed ==
  \A n \in Names : StoreMove(n) /\ WatchStep(n) /\ EventsStep(n) /\ ConfigStep(n)
                   /\ RecordingStep(n)

Described ==
  /\ StoreDescribed
  /\ \A n \in Names : ListerTwin(n) /\ NotesStep(n) /\ FileStep(n)
  /\ \A t \in Threads : ThreadTwin(t) /\ RecordStep(t)

-----------------------------------------------------------------------------
(* The invariant follows from the descriptions of a step.                  *)

\* No name becomes untouched.
LEMMA UntouchedBefore ==
  ASSUME TypeOK, TypeOK', NothingGone, NEW n \in Names, StoreMove(n), Untouched(n)'
  PROVE  /\ Untouched(n)
         /\ snaps'[n] # NoSnap => snaps'[n].uid = 1
         /\ Exists(n) => snaps[n].uid = 1 /\ snaps'[n] # NoSnap
         /\ ver'[n] = 0 => snaps'[n] = NoSnap
<1>1. ver[n] \in Nat /\ ver'[n] \in Nat /\ ver[n] <= ver'[n]
  BY DEF TypeOK, StoreTypeOK, StoreMove
<1>2. ver[n] = 0 => ~Exists(n)
  BY DEF NothingGone
<1>3. CASE ver'[n] = 0
  <2>1. ver[n] = 0
    BY <1>1, <1>3
  <2>2. snaps'[n] = NoSnap
    BY <1>2, <1>3, <2>1 DEF StoreMove
  <2> QED
    BY <1>2, <2>1, <2>2 DEF Untouched
<1>4. CASE ver'[n] # 0
  <2>1. snaps'[n] # NoSnap /\ snaps'[n].uid = 1
    BY <1>4 DEF Untouched, Exists
  <2>2. (Exists(n) /\ snaps[n].uid = 1) \/ ver[n] + 1 = 1
    BY <2>1 DEF StoreMove
  <2>3. (Exists(n) /\ snaps[n].uid = 1) \/ ver[n] = 0
    BY <1>1, <2>2
  <2> QED
    BY <1>2, <1>4, <2>1, <2>3 DEF Untouched
<1> QED
  BY <1>3, <1>4

\* There are no copies of a Snapshot that was never created.
LEMMA CopyOfNothing ==
  ASSUME TypeOK, NEW n \in Names, NEW s \in Snapshot, Agrees(n, s), OfTheFirst(n, s)
  PROVE  ver[n] # 0
<1>1. ver[n] \in Nat /\ s.rv \in Nat /\ s.uid \in Nat /\ s.uid <= s.rv /\ s.rv <= ver[n]
  BY DEF TypeOK, StoreTypeOK, Snapshot, Agrees
<1>2. ver[n] = 0 => s.uid = 1
  BY DEF OfTheFirst, Untouched
<1> QED
  BY <1>1, <1>2

\* An untouched name that has a copy has its Snapshot, which keeps its bucket.
LEMMA BucketKept ==
  ASSUME TypeOK, TypeOK', NothingGone, NEW n \in Names, StoreMove(n), ConfigStep(n),
         ver[n] # 0, Untouched(n)'
  PROVE  /\ Untouched(n) /\ Exists(n) /\ snaps[n].uid = 1
         /\ snaps'[n] # NoSnap /\ snaps'[n].config = snaps[n].config
<1>1. Untouched(n) /\ (Exists(n) => snaps[n].uid = 1 /\ snaps'[n] # NoSnap)
  BY UntouchedBefore
<1>2. Exists(n)
  BY <1>1 DEF Untouched
<1> QED
  BY <1>1, <1>2 DEF ConfigStep

\* A copy is still of the only Snapshot there has been.
LEMMA FirstLater ==
  ASSUME TypeOK, TypeOK', NothingGone, NEW n \in Names, StoreMove(n), ConfigStep(n),
         NEW s \in Snapshot, NEW x \in Snapshot, Agrees(n, s), OfTheFirst(n, s),
         x.uid = s.uid, x.config = s.config
  PROVE  OfTheFirst(n, x)'
<1> SUFFICES ASSUME Untouched(n)' PROVE x.uid = 1 /\ x.config = snaps'[n].config
  BY DEF OfTheFirst
<1>1. ver[n] # 0
  BY CopyOfNothing
<1>2. Untouched(n) /\ snaps'[n].config = snaps[n].config
  BY <1>1, BucketKept
<1> QED
  BY <1>2 DEF OfTheFirst

\* A copy that names the stored file still does after a step of the store.
LEMMA NamesLater ==
  ASSUME TypeOK, TypeOK', NothingGone, NEW n \in Names, StoreMove(n), ConfigStep(n),
         NEW s \in Snapshot, NEW x \in Snapshot, Twin(x, s),
         Agrees(n, s), OfTheFirst(n, s), SameFile(n, s)
  PROVE  OfTheFirst(n, x)' /\ SameFile(n, x)'
<1>1. ver[n] \in Nat /\ s.rv \in Nat /\ s.rv <= ver[n]
  BY DEF TypeOK, StoreTypeOK, Agrees, Snapshot
<1>2. OfTheFirst(n, x)'
  BY FirstLater DEF Twin, Like
<1>3. ASSUME Untouched(n)', snaps'[n] # NoSnap, snaps'[n].rv = x.rv
      PROVE  x.stored = snaps'[n].stored
  <2>1. snaps'[n] = snaps[n]
    BY <1>1, <1>3 DEF StoreMove, Twin, Like
  <2>2. Untouched(n)
    BY <1>3, UntouchedBefore
  <2> QED
    BY <1>3, <2>1, <2>2 DEF SameFile, Fresh, Exists, Twin, Like
<1> QED
  BY <1>2, <1>3 DEF SameFile, Fresh, Exists

\* A file stays that of its name and its bucket.
LEMMA InItsBucketLater ==
  ASSUME TypeOK, TypeOK', NothingGone, NEW n \in Names, StoreMove(n), ConfigStep(n),
         NEW b, InItsBucket(b, n)
  PROVE  InItsBucket(b, n)'
<1>1. ver[n] \in Nat /\ ver'[n] \in Nat /\ ver[n] <= ver'[n] /\ ver[n] # 0
  BY DEF TypeOK, StoreTypeOK, StoreMove, InItsBucket
<1>2. Untouched(n)' => Untouched(n) /\ snaps'[n].config = snaps[n].config
  BY <1>1, BucketKept
<1> QED
  BY <1>1, <1>2 DEF InItsBucket

\* The history of the names.
LEMMA HistoryKept ==
  ASSUME StoredBase, TypeOK', StoredInv, Described
  PROVE  NothingGone'
<1>0. TypeOK /\ NothingGone
  BY StoredBaseFacts DEF StoredInv
<1> SUFFICES ASSUME NEW n \in Names
             PROVE  /\ ver'[n] = 0 => snaps'[n] = NoSnap
                    /\ Untouched(n)' =>
                         /\ \A i \in DOMAIN watch'[n] : watch'[n][i].type = "set"
                         /\ \A i \in DOMAIN notes'[n] : notes'[n][i].op = "enqueue"
  BY DEF NothingGone, Exists
<1>1. StoreMove(n) /\ EventsStep(n) /\ NotesStep(n)
  BY DEF Described, StoreDescribed
<1>2. ASSUME ver'[n] = 0 PROVE snaps'[n] = NoSnap
  <2>1. Untouched(n)'
    BY <1>2 DEF Untouched
  <2> QED
    BY <1>0, <1>1, <1>2, <2>1, UntouchedBefore
<1>3. ASSUME Untouched(n)'
      PROVE  /\ \A i \in DOMAIN watch'[n] : watch'[n][i].type = "set"
             /\ \A i \in DOMAIN notes'[n] : notes'[n][i].op = "enqueue"
  <2>1. Untouched(n) /\ (Exists(n) => snaps'[n] # NoSnap)
    BY <1>0, <1>1, <1>3, UntouchedBefore
  <2>2. /\ \A i \in DOMAIN watch[n] : watch[n][i].type = "set"
        /\ \A i \in DOMAIN notes[n] : notes[n][i].op = "enqueue"
    BY <1>0, <2>1 DEF NothingGone
  <2> QED
    BY <1>1, <2>1, <2>2 DEF EventsStep, NotesStep
<1> QED
  BY <1>2, <1>3

\* The copies.
LEMMA CopiesKept ==
  ASSUME StoredBase, TypeOK', StoredInv, Described
  PROVE  CopiesName'
<1>0. TypeOK /\ CopiesAgree /\ NothingGone /\ CopiesName
  BY StoredBaseFacts DEF StoredInv
<1>1. ASSUME NEW n \in Names
      PROVE  StoreMove(n) /\ WatchStep(n) /\ ListerTwin(n) /\ ConfigStep(n)
  BY DEF Described, StoreDescribed
<1>3. ASSUME NEW n \in Names, snaps'[n] # NoSnap, NEW x \in Snapshot, Twin(x, snaps'[n])
      PROVE  OfTheFirst(n, x)' /\ SameFile(n, x)'
  <2>1. Untouched(n)' => snaps'[n].uid = 1
    BY <1>0, <1>1, <1>3, UntouchedBefore
  <2> QED
    BY <1>3, <2>1 DEF Twin, Like, OfTheFirst, SameFile
<1>4. ASSUME NEW n \in Names, NEW s \in Snapshot, NEW x \in Snapshot, Twin(x, s),
             Agrees(n, s), OfTheFirst(n, s), SameFile(n, s)
      PROVE  OfTheFirst(n, x)' /\ SameFile(n, x)'
  BY <1>0, <1>1, <1>4, NamesLater
<1>5. \A s : Twin(s, s)
  BY DEF Twin, Like
<1>6. ASSUME NEW n \in Names, Exists(n)
      PROVE  /\ snaps[n] \in Snapshot /\ Agrees(n, snaps[n])
             /\ OfTheFirst(n, snaps[n]) /\ SameFile(n, snaps[n])
  <2>1. /\ snaps[n] \in Snapshot /\ ver[n] \in Nat
        /\ snaps[n].uid <= snaps[n].rv /\ snaps[n].rv = ver[n]
    BY <1>0, <1>6 DEF TypeOK, StoreTypeOK, CopiesAgree, Exists
  <2>2. Agrees(n, snaps[n])
    BY <1>6, <2>1 DEF Agrees, SameResource, Snapshot
  <2>3. Untouched(n) => snaps[n].uid = 1
    BY <1>0, <1>6 DEF Untouched, NothingGone
  <2> QED
    BY <2>1, <2>2, <2>3 DEF OfTheFirst, SameFile
<1>7. ASSUME NEW n \in Names, NEW i \in DOMAIN watch[n]
      PROVE  /\ watch[n][i].snap \in Snapshot /\ Agrees(n, watch[n][i].snap)
             /\ OfTheFirst(n, watch[n][i].snap) /\ SameFile(n, watch[n][i].snap)
  <2>1. watch[n] \in Seq(Event)
    BY <1>0 DEF TypeOK, StoreTypeOK
  <2>2. watch[n][i] \in Event
    BY <1>7, <2>1
  <2> QED
    BY <1>0, <2>2 DEF Event, CopiesAgree, CopiesName
<1>8. ASSUME NEW n \in Names, lister[n] # NoSnap
      PROVE  /\ lister[n] \in Snapshot /\ Agrees(n, lister[n])
             /\ OfTheFirst(n, lister[n]) /\ SameFile(n, lister[n])
  BY <1>0, <1>8 DEF TypeOK, StoreTypeOK, CopiesAgree, CopiesName
<1>9. ASSUME NEW n \in Names, NEW i \in DOMAIN watch'[n]
      PROVE  OfTheFirst(n, watch[n][i].snap)' /\ SameFile(n, watch[n][i].snap)'
  <2>1. watch'[n] \in Seq(Event)
    BY DEF TypeOK, StoreTypeOK
  <2>2. watch'[n][i] \in Event
    BY <1>9, <2>1
  <2>3. PICK x \in Snapshot : x = watch'[n][i].snap
    BY <2>2 DEF Event
  <2>4. CASE \E j \in DOMAIN watch[n] : watch'[n][i] = watch[n][j]
    BY <1>4, <1>5, <1>7, <2>3, <2>4
  <2>5. CASE snaps'[n] # NoSnap /\ watch'[n][i].snap = snaps'[n]
    BY <1>3, <1>5, <2>3, <2>5
  <2>6. CASE Exists(n) /\ watch'[n][i].snap = snaps[n]
    BY <1>4, <1>5, <1>6, <2>3, <2>6
  <2> QED
    BY <1>1, <2>4, <2>5, <2>6 DEF WatchStep
<1>10. ASSUME NEW n \in Names, lister'[n] # NoSnap
       PROVE  OfTheFirst(n, lister[n])' /\ SameFile(n, lister[n])'
  <2>1. PICK x \in Snapshot : x = lister'[n]
    BY <1>10 DEF TypeOK, StoreTypeOK
  <2>2. CASE lister[n] # NoSnap /\ Twin(lister'[n], lister[n])
    BY <1>4, <1>8, <2>1, <2>2
  <2>3. CASE \E j \in DOMAIN watch[n] : lister'[n] = watch[n][j].snap
    BY <1>4, <1>5, <1>7, <2>1, <2>3
  <2>4. CASE lister'[n] = snaps'[n]
    BY <1>3, <1>5, <1>10, <2>1, <2>4
  <2>5. CASE ~Untouched(n)
    <3>1. ~Untouched(n)'
      BY <1>0, <1>1, <2>5, UntouchedBefore
    <3> QED
      BY <3>1 DEF OfTheFirst, SameFile
  <2> QED
    BY <1>1, <1>10, <2>2, <2>3, <2>4, <2>5 DEF ListerTwin
<1>11. ASSUME NEW t \in Threads, thread'[t] # Idle
       PROVE  /\ OfTheFirst(thread[t].key, thread[t].snap)'
              /\ thread'[t].pc # "complete" => SameFile(thread[t].key, thread[t].snap)'
  <2>1. PICK n \in Names, x \in Snapshot : n = thread'[t].key /\ x = thread'[t].snap
    BY <1>11 DEF TypeOK, Task
  <2>2. CASE /\ Busy(t) /\ n = thread[t].key /\ Like(x, thread[t].snap)
             /\ x.config = thread[t].snap.config
             /\ \/ thread'[t].pc = "complete"
                \/ Twin(x, thread[t].snap) /\ thread[t].pc # "complete"
    <3>1. PICK s \in Snapshot : s = thread[t].snap
      BY <1>0, <2>2 DEF TypeOK, Busy, Task
    <3>2. /\ Agrees(n, s) /\ OfTheFirst(n, s)
          /\ thread[t].pc # "complete" => SameFile(n, s)
      BY <1>0, <2>2, <3>1 DEF CopiesAgree, CopiesName
    <3>3. OfTheFirst(n, x)'
      BY <1>0, <1>1, <2>2, <3>1, <3>2, FirstLater DEF Like
    <3>4. thread'[t].pc # "complete" => SameFile(n, x)'
      BY <1>4, <2>2, <3>1, <3>2
    <3> QED
      BY <2>1, <3>3, <3>4
  <2>3. CASE snaps'[n] # NoSnap /\ Twin(x, snaps'[n])
    BY <1>3, <2>1, <2>3
  <2>4. CASE lister[n] # NoSnap /\ Twin(x, lister[n])
    BY <1>4, <1>8, <2>1, <2>4
  <2>5. ThreadTwin(t)
    BY DEF Described
  <2> QED
    BY <1>11, <2>1, <2>2, <2>3, <2>4, <2>5 DEF ThreadTwin
<1> QED
  BY <1>9, <1>10, <1>11 DEF CopiesName, Busy

\* Only an upload touches the file of the only Snapshot there has been of its
\* name.
LEMMA FileKept ==
  ASSUME Described, NEW n \in Names, Exists(n), snaps[n].uid = 1,
         \A t \in Threads : At(t, "upload") => thread[t].key # n
  PROVE  \A b \in Buckets : objects'[b][n] = objects[b][n]
<1>1. Untouched(n)
  BY DEF Untouched
<1> QED
  BY <1>1 DEF Described, FileStep

\* What a thread is about to record stays there.
LEMMA ReadyKept ==
  ASSUME StoredBase, TypeOK', StoredInv, Described
  PROVE  ReadyToComplete'
<1>0. TypeOK /\ CopiesAgree /\ OneThreadPerKey
  BY StoredBaseFacts
<1> SUFFICES ASSUME NEW t \in Threads, thread'[t] # Idle, thread'[t].pc = "complete",
                    thread'[t].snap.uid = 1, SameResource(thread[t].key, thread[t].snap)'
             PROVE  StoredAs(thread[t].key, thread[t].snap)'
  BY DEF ReadyToComplete, At, Busy
<1>1. RecordStep(t)
  BY DEF Described
<1>2. CASE StoredAs(thread[t].key, thread[t].snap)'
  BY <1>2
<1>3. CASE thread'[t] = thread[t]
  <2>1. PICK n \in Names, s \in Snapshot : n = thread[t].key /\ s = thread[t].snap
    BY <1>0, <1>3 DEF TypeOK, Task
  <2>2. Busy(t) /\ At(t, "complete") /\ s.uid = 1
    BY <1>3, <2>1 DEF Busy, At
  <2>3. Agrees(n, s)
    BY <1>0, <2>1, <2>2 DEF CopiesAgree
  <2>4. StoreMove(n) /\ snaps'[n] # NoSnap /\ snaps'[n].uid = 1
    BY <1>3, <2>1, <2>2 DEF Described, StoreDescribed, SameResource, Exists
  <2>5. Exists(n) /\ snaps[n].uid = 1
    <3>1. ver[n] \in Nat /\ s.rv \in Nat /\ s.uid <= s.rv /\ s.rv <= ver[n]
      BY <1>0, <2>3 DEF TypeOK, StoreTypeOK, Snapshot, Agrees
    <3>2. ver[n] + 1 # 1
      BY <2>2, <3>1
    <3> QED
      BY <2>4, <3>2 DEF StoreMove
  <2>6. StoredAs(n, s)
    BY <2>1, <2>2, <2>5 DEF StoredInv, ReadyToComplete, SameResource
  <2>7. \A u \in Threads : At(u, "upload") => thread[u].key # n
    BY <1>0, <2>1, <2>2 DEF OneThreadPerKey, At
  <2>8. \A b \in Buckets : objects'[b][n] = objects[b][n]
    BY <2>5, <2>7, FileKept
  <2>9. s.config \in Buckets
    BY DEF Snapshot
  <2> QED
    BY <1>3, <2>1, <2>6, <2>8, <2>9 DEF StoredAs
<1> QED
  BY <1>1, <1>2, <1>3 DEF RecordStep

\* A file is there under the stamp a status has.
LEMMA StampFacts ==
  ASSUME TypeOK, NEW n \in Names, NEW s \in Snapshot, StoredAs(n, s)
  PROVE  s.stored # 0
<1>1. s.config \in Buckets
  BY DEF Snapshot
<1>2. objects[s.config][n] \in Object
  BY <1>1 DEF TypeOK, StoreTypeOK, StoredAs
<1> QED
  BY <1>2 DEF Object, StoredAs

\* The file a status describes.
LEMMA RecordKept ==
  ASSUME StoredBase, TypeOK', StoredInv, Described
  PROVE  RecordIsStored'
<1>0. TypeOK /\ OneThreadPerKey /\ TakerOwnsResource
  BY StoredBaseFacts
<1> SUFFICES ASSUME NEW n \in Names, snaps'[n] # NoSnap, snaps'[n].uid = 1,
                    ~(snaps'[n].stored = 0 /\ snaps'[n].phase # "Completed")
             PROVE  /\ snaps'[n].stored # 0 /\ snaps'[n].phase \in {"Completed", "Failed"}
                    /\ StoredAs(n, snaps[n])'
  BY DEF RecordIsStored, Exists
<1>1. RecordingStep(n)
  BY DEF Described, StoreDescribed
<1>2. snaps'[n] \in Snapshot
  BY DEF TypeOK, StoreTypeOK
<1>3. snaps'[n].config \in Buckets
  BY <1>2 DEF Snapshot
<1>4. CASE /\ Exists(n) /\ snaps[n].uid = 1 /\ snaps[n].stored # 0
           /\ snaps'[n].config = snaps[n].config /\ snaps'[n].stored = snaps[n].stored
           /\ snaps'[n].phase \in {"Completed", "Failed"}
  <2>1. StoredAs(n, snaps[n]) /\ snaps[n].phase \in {"Completed", "Failed"}
    BY <1>4 DEF StoredInv, RecordIsStored
  <2>2. ASSUME NEW t \in Threads, At(t, "upload") PROVE thread[t].key # n
    <3> SUFFICES ASSUME thread[t].key = n PROVE FALSE
      OBVIOUS
    <3>1. thread[t].snap.uid = 1
      BY <1>4, <2>2 DEF StoredInv, CopiesName, OfTheFirst, Untouched, At
    <3>2. TakerOf(t, n) /\ SameResource(n, thread[t].snap)
      BY <1>4, <2>2, <3>1 DEF TakerOf, At, TakingSteps, SameResource
    <3> QED
      BY <1>0, <2>1, <3>2 DEF TakerOwnsResource
  <2>3. \A b \in Buckets : objects'[b][n] = objects[b][n]
    BY <1>4, <2>2, FileKept
  <2> QED
    BY <1>3, <1>4, <2>1, <2>3 DEF StoredAs
<1>5. ASSUME NEW t \in Threads, At(t, "complete"), thread[t].key = n,
             thread[t].snap.uid = 1, SameResource(n, thread[t].snap),
             snaps'[n].config = thread[t].snap.config, snaps'[n].stored = thread[t].snap.stored,
             snaps'[n].phase = "Completed"
      PROVE  /\ snaps'[n].stored # 0 /\ snaps'[n].phase \in {"Completed", "Failed"}
             /\ StoredAs(n, snaps[n])'
  <2>1. StoredAs(n, thread[t].snap) /\ thread[t].snap \in Snapshot
    BY <1>0, <1>5 DEF StoredInv, ReadyToComplete, TypeOK, At, Busy, Task
  <2>2. Exists(n) /\ snaps[n].uid = 1 /\ thread[t].snap.stored # 0
    BY <1>0, <1>5, <2>1, StampFacts DEF SameResource
  <2>3. \A u \in Threads : At(u, "upload") => thread[u].key # n
    BY <1>0, <1>5 DEF OneThreadPerKey, At
  <2>4. \A b \in Buckets : objects'[b][n] = objects[b][n]
    BY <2>2, <2>3, FileKept
  <2> QED
    BY <1>3, <1>5, <2>1, <2>2, <2>4 DEF StoredAs
<1> QED
  BY <1>1, <1>4, <1>5 DEF RecordingStep

\* The names and buckets of the files.
LEMMA BucketsKept ==
  ASSUME StoredBase, TypeOK', StoredInv, Described
  PROVE  InTheirBuckets(objects)'
<1>0. TypeOK /\ CopiesAgree /\ NothingGone /\ CopiesName
  BY StoredBaseFacts DEF StoredInv
<1> SUFFICES ASSUME NEW b \in Buckets, NEW n \in Names, objects'[b][n] # NoObject
             PROVE  InItsBucket(b, n)'
  BY DEF InTheirBuckets
<1>1. StoreMove(n) /\ ConfigStep(n) /\ FileStep(n)
  BY DEF Described, StoreDescribed
<1>2. InItsBucket(b, n)
  <2>1. CASE objects'[b][n] = objects[b][n]
    BY <2>1 DEF StoredInv, InTheirBuckets
  <2>2. ASSUME NEW t \in Threads, At(t, "upload"), thread[t].key = n, b = thread[t].snap.config
        PROVE  InItsBucket(b, n)
    <3>1. PICK s \in Snapshot : s = thread[t].snap
      BY <1>0, <2>2 DEF TypeOK, At, Busy, Task
    <3>2. Agrees(n, s) /\ OfTheFirst(n, s)
      BY <1>0, <2>2, <3>1 DEF CopiesAgree, CopiesName, At
    <3>3. ver[n] # 0
      BY <1>0, <3>1, <3>2, CopyOfNothing
    <3> QED
      BY <2>2, <3>1, <3>2, <3>3 DEF OfTheFirst, InItsBucket
  <2> QED
    BY <1>1, <2>1, <2>2 DEF FileStep
<1> QED
  BY <1>0, <1>1, <1>2, InItsBucketLater

\* A step as described keeps the invariant.
LEMMA DescribedKeeps ==
  ASSUME StoredBase, TypeOK', StoredInv, Described
  PROVE  StoredInv'
  BY HistoryKept, CopiesKept, ReadyKept, RecordKept, BucketsKept DEF StoredInv

-----------------------------------------------------------------------------
(* Every step is as described.                                             *)

\* Nobody but a thread that uploaded a file has its first Snapshot describe it.
LEMMA QuietRecording ==
  ASSUME RecordIsStored, NEW n \in Names,
         \/ snaps'[n] = snaps[n]
         \/ snaps'[n] = NoSnap
         \/ snaps'[n].stored = 0 /\ snaps'[n].phase # "Completed"
         \/ /\ Exists(n) /\ snaps'[n].phase = snaps[n].phase /\ snaps'[n].uid = snaps[n].uid
            /\ snaps'[n].config = snaps[n].config /\ snaps'[n].stored = snaps[n].stored
  PROVE  RecordingStep(n)
<1>1. Exists(n) /\ snaps[n].uid = 1 =>
        \/ snaps[n].stored = 0 /\ snaps[n].phase # "Completed"
        \/ snaps[n].stored # 0 /\ snaps[n].phase \in {"Completed", "Failed"}
  BY DEF RecordIsStored
<1> QED
  BY <1>1 DEF RecordingStep, Exists

\* Parts of the state a step leaves alone.
LEMMA QuietApi ==
  ASSUME StoredBase, RecordIsStored, UNCHANGED apiVars
  PROVE  StoreDescribed
<1> SUFFICES ASSUME NEW n \in Names
             PROVE  /\ StoreMove(n) /\ WatchStep(n) /\ EventsStep(n) /\ ConfigStep(n)
                    /\ RecordingStep(n)
  BY DEF StoreDescribed
<1>1. StoreMove(n)
  BY StoredBaseFacts, QuietMove DEF apiVars
<1>2. WatchStep(n) /\ EventsStep(n) /\ ConfigStep(n)
  BY DEF WatchStep, EventsStep, ConfigStep, apiVars
<1>3. RecordingStep(n)
  BY QuietRecording DEF apiVars
<1> QED
  BY <1>1, <1>2, <1>3

\* A step that notifies nobody.
LEMMA QuietNotes ==
  ASSUME UNCHANGED notes, NEW n \in Names
  PROVE  NotesStep(n)
  BY DEF NotesStep

\* A step that leaves the lister alone.
LEMMA QuietLister ==
  ASSUME UNCHANGED lister, NEW n \in Names
  PROVE  ListerTwin(n)
  BY DEF ListerTwin, Twin, Like

\* A step that leaves the files alone.
LEMMA QuietFiles ==
  ASSUME UNCHANGED objects, NEW n \in Names
  PROVE  FileStep(n)
  BY DEF FileStep

\* A thread that does nothing, or ends.
LEMMA QuietThread ==
  ASSUME NEW t \in Threads, thread'[t] = thread[t] \/ thread'[t] = Idle
  PROVE  ThreadTwin(t) /\ RecordStep(t)
  BY DEF ThreadTwin, RecordStep, Twin, Like, Busy

\* Storing a Snapshot.
LEMMA PutEvents ==
  ASSUME TypeOK, NEW n \in Names, NEW x, Put(n, x)
  PROVE  \A m \in Names : EventsStep(m)
<1> DEFINE e == [type |-> "set", snap |-> [x EXCEPT !.rv = ver[n] + 1]]
<1>1. watch[n] \in Seq(Event) /\ watch' = [watch EXCEPT ![n] = Append(watch[n], e)]
  BY DEF Put, TypeOK, StoreTypeOK
<1>2. e.type = "set"
  OBVIOUS
<1> HIDE DEF e
<1>3. \A m \in Names \ {n} : watch'[m] = watch[m]
  BY <1>1 DEF TypeOK, StoreTypeOK
<1>4. watch'[n] = Append(watch[n], e)
  BY <1>1 DEF TypeOK, StoreTypeOK
<1>5. ASSUME NEW i \in DOMAIN watch'[n]
      PROVE  (\E j \in DOMAIN watch[n] : watch'[n][i] = watch[n][j]) \/ watch'[n][i] = e
  <2>1. CASE i \in DOMAIN watch[n]
    <3>1. watch'[n][i] = watch[n][i]
      BY <1>1, <1>4, <2>1
    <3> QED
      BY <2>1, <3>1
  <2>2. CASE i \notin DOMAIN watch[n]
    <3>1. i = Len(watch[n]) + 1
      BY <1>1, <1>4, <2>2
    <3> QED
      BY <1>1, <1>4, <3>1
  <2> QED
    BY <2>1, <2>2
<1> QED
  BY <1>2, <1>3, <1>5 DEF EventsStep

\* An update.
LEMMA UpdateEvents ==
  ASSUME TypeOK, NEW n \in Names, NEW x, Update(n, x)
  PROVE  \A m \in Names : EventsStep(m)
<1>1. CASE Unchanged(n, x)
  BY <1>1 DEF Update, apiVars, EventsStep
<1>2. CASE ~Unchanged(n, x)
  BY <1>2, PutEvents DEF Update
<1> QED
  BY <1>1, <1>2

\* A Snapshot that is stored for another that keeps its bucket and its file.
LEMMA UpdateKeeps ==
  ASSUME NEW n \in Names, NEW x \in Snapshot
  PROVE  /\ Returned(n, x).config = x.config /\ Returned(n, x).stored = x.stored
         /\ Returned(n, x).phase = x.phase /\ Returned(n, x).uid = x.uid
<1>1. CASE Unchanged(n, x)
  <2>1. Returned(n, x) = [x EXCEPT !.rv = snaps[n].rv]
    BY <1>1 DEF Returned, Unchanged
  <2> QED
    BY <2>1 DEF Snapshot
<1>2. CASE ~Unchanged(n, x)
  BY <1>2 DEF Returned, Snapshot
<1> QED
  BY <1>1, <1>2

\* Deleting a Snapshot.
LEMMA DeleteDescribed ==
  ASSUME StoredBase, RecordIsStored, NEW n \in Names, Delete(n)
  PROVE  StoreDescribed
<1>0. TypeOK /\ CopiesAgree
  BY StoredBaseFacts
<1>1. \A m \in Names : StoreMove(m) /\ WatchStep(m)
  BY <1>0, DeleteMove
<1>2. /\ Exists(n) /\ snaps'[n] = NoSnap
      /\ \A m \in Names \ {n} : snaps'[m] = snaps[m] /\ watch'[m] = watch[m]
  BY <1>0 DEF Delete, TypeOK, StoreTypeOK
<1>3. ASSUME NEW m \in Names PROVE EventsStep(m) /\ ConfigStep(m) /\ RecordingStep(m)
  BY <1>2, QuietRecording DEF EventsStep, ConfigStep
<1> QED
  BY <1>1, <1>3 DEF StoreDescribed

\* The users and the clock.
LEMMA EnvironmentDescribed ==
  ASSUME StoredBase, RecordIsStored, Environment
  PROVE  Described
<1>0. TypeOK /\ CopiesAgree /\ UNCHANGED <<lister, notes, objects, thread>>
  BY StoredBaseFacts DEF Environment, User, UserCreate, UserEdit, UserDelete, Tick, queueVars,
                         fileVars
<1>1. /\ \A n \in Names : ListerTwin(n) /\ NotesStep(n) /\ FileStep(n)
      /\ \A t \in Threads : ThreadTwin(t) /\ RecordStep(t)
  BY <1>0, QuietLister, QuietNotes, QuietFiles, QuietThread
<1>2. CASE Tick
  BY <1>1, <1>2, QuietApi DEF Tick, Described
<1>3. ASSUME NEW n \in Names, UserCreate(n)
      PROVE  StoreDescribed
  <2>1. PICK x \in Snapshot :
          Create(n, x) /\ x.phase = "" /\ x.until = 0 /\ x.stored = 0
    BY <1>3, UserCreateFacts
  <2> DEFINE y == [x EXCEPT !.uid = ver[n] + 1, !.created = now]
  <2>2. ver[n] + 1 \in Nat /\ ver[n] \in Nat /\ now \in Nat
    BY <1>0 DEF TypeOK, StoreTypeOK
  <2>3. y \in Snapshot /\ y.uid = ver[n] + 1 /\ y.phase # "Completed" /\ y.stored = 0
    BY <2>1, <2>2 DEF Snapshot
  <2>4. Put(n, y) /\ ~Exists(n)
    BY <2>1 DEF Create
  <2> HIDE DEF y
  <2>5. /\ \A m \in Names : StoreMove(m) /\ WatchStep(m)
        /\ \A m \in Names \ {n} : snaps'[m] = snaps[m]
        /\ snaps'[n] = [y EXCEPT !.rv = ver[n] + 1]
    BY <1>0, <2>3, <2>4, PutMove
  <2>6. snaps'[n].phase # "Completed" /\ snaps'[n].stored = 0
    BY <2>3, <2>5 DEF Snapshot
  <2>7. \A m \in Names : EventsStep(m)
    BY <1>0, <2>4, PutEvents
  <2>8. ASSUME NEW m \in Names PROVE ConfigStep(m) /\ RecordingStep(m)
    BY <2>4, <2>5, <2>6, QuietRecording DEF ConfigStep
  <2> QED
    BY <2>5, <2>7, <2>8 DEF StoreDescribed
<1>4. ASSUME NEW n \in Names, UserEdit(n)
      PROVE  StoreDescribed
  <2>1. PICK u \in Untils \ {snaps[n].specUntil} : Put(n, [snaps[n] EXCEPT !.specUntil = u])
    BY <1>4 DEF UserEdit
  <2> DEFINE y == [snaps[n] EXCEPT !.specUntil = u]
  <2>2. u \in Nat
    BY StoreAssumption DEF StoreAssumption
  <2>3. Exists(n) /\ snaps[n] \in Snapshot
    BY <1>0, <1>4 DEF UserEdit, Exists, TypeOK, StoreTypeOK
  <2>4. /\ y \in Snapshot /\ y.uid = snaps[n].uid /\ y.phase = snaps[n].phase
        /\ y.config = snaps[n].config /\ y.stored = snaps[n].stored
    BY <2>2, <2>3 DEF Snapshot
  <2>5. Put(n, y)
    BY <2>1
  <2> HIDE DEF y
  <2>6. /\ \A m \in Names : StoreMove(m) /\ WatchStep(m)
        /\ \A m \in Names \ {n} : snaps'[m] = snaps[m]
        /\ snaps'[n] = [y EXCEPT !.rv = ver[n] + 1]
    BY <1>0, <2>3, <2>4, <2>5, PutMove
  <2>7. /\ snaps'[n].phase = snaps[n].phase /\ snaps'[n].uid = snaps[n].uid
        /\ snaps'[n].config = snaps[n].config /\ snaps'[n].stored = snaps[n].stored
    BY <2>4, <2>6 DEF Snapshot
  <2>8. \A m \in Names : EventsStep(m)
    BY <1>0, <2>5, PutEvents
  <2>9. ASSUME NEW m \in Names PROVE ConfigStep(m) /\ RecordingStep(m)
    BY <2>3, <2>6, <2>7, QuietRecording DEF ConfigStep
  <2> QED
    BY <2>6, <2>8, <2>9 DEF StoreDescribed
<1>5. ASSUME NEW n \in Names, UserDelete(n)
      PROVE  StoreDescribed
  BY <1>5, DeleteDescribed DEF UserDelete
<1> QED
  BY <1>1, <1>2, <1>3, <1>4, <1>5 DEF Described, Environment, User

\* What Enqueued adds.
LEMMA EnqueuedOps ==
  ASSUME NEW q \in Seq(Note), NEW i \in DOMAIN Enqueued(q)
  PROVE  (\E j \in DOMAIN q : Enqueued(q)[i] = q[j]) \/ Enqueued(q)[i].op = "enqueue"
<1> DEFINE e == [op |-> "enqueue"]
<1>1. CASE Enqueued(q) = q
  BY <1>1
<1>2. CASE Enqueued(q) = Append(q, e)
  <2>1. e.op = "enqueue"
    OBVIOUS
  <2> HIDE DEF e
  <2>2. i \in DOMAIN q \/ i = Len(q) + 1
    BY <1>2
  <2>3. i \in DOMAIN q => Enqueued(q)[i] = q[i]
    BY <1>2
  <2>4. i = Len(q) + 1 => Enqueued(q)[i] = e
    BY <1>2
  <2> QED
    BY <2>1, <2>2, <2>3, <2>4
<1> QED
  BY <1>1, <1>2 DEF Enqueued

\* The informer, its handlers and the queue.
LEMMA InformerDescribed ==
  ASSUME StoredBase, StoredInv, NEW n \in Names, Informer(n)
  PROVE  Described
<1>0. TypeOK /\ CopiesAgree /\ NothingGone /\ UNCHANGED <<snaps, ver, thread>>
  BY StoredBaseFacts DEF StoredInv, Informer, Deliver, Relist, Resync, EnqueueSnapshot, DeleteSnapshot, Ready, apiVars
<1>1. /\ watch \in [Names -> Seq(Event)] /\ notes \in [Names -> Seq(Note)]
      /\ lister \in [Names -> Snapshot \cup {NoSnap}]
  BY <1>0 DEF TypeOK, StoreTypeOK
<1>2. ASSUME NEW m \in Names PROVE StoreMove(m) /\ ConfigStep(m) /\ RecordingStep(m)
  <2>1. StoreMove(m)
    BY <1>0, QuietMove
  <2>2. RecordIsStored
    BY DEF StoredInv
  <2> QED
    BY <1>0, <2>1, <2>2, QuietRecording DEF ConfigStep
<1>3. ASSUME NEW t \in Threads PROVE ThreadTwin(t) /\ RecordStep(t)
  BY <1>0, QuietThread
<1>4. ASSUME \A m \in Names : WatchStep(m) /\ EventsStep(m) /\ ListerTwin(m) /\ NotesStep(m)
                              /\ FileStep(m)
      PROVE  Described
  BY <1>2, <1>3, <1>4 DEF Described, StoreDescribed
<1>5. ASSUME NEW m \in Names, watch'[m] = watch[m] PROVE WatchStep(m) /\ EventsStep(m)
  BY <1>5 DEF WatchStep, EventsStep
<1>6. ASSUME NEW m \in Names, notes'[m] = notes[m] PROVE NotesStep(m)
  BY <1>6 DEF NotesStep
<1>7. ASSUME NEW m \in Names, notes'[m] = Enqueued(notes[m]) PROVE NotesStep(m)
  BY <1>1, <1>7, EnqueuedOps DEF NotesStep
<1>8. ASSUME NEW m \in Names, lister'[m] = lister[m] PROVE ListerTwin(m)
  BY <1>8 DEF ListerTwin, Twin, Like
<1>9. CASE Deliver(n)
  <2> DEFINE e == Head(watch[n])
             d == [op |-> "delete", config |-> e.snap.config]
  <2>1. /\ watch[n] \in Seq(Event) /\ watch[n] # <<>> /\ watch'[n] = Tail(watch[n])
        /\ 1 \in DOMAIN watch[n] /\ e = watch[n][1]
    BY <1>1, <1>9 DEF Deliver
  <2>2. /\ \A m \in Names \ {n} : /\ watch'[m] = watch[m] /\ lister'[m] = lister[m]
                                  /\ notes'[m] = notes[m]
        /\ UNCHANGED objects
    BY <1>1, <1>9 DEF Deliver, fileVars
  <2>3. ASSUME NEW i \in DOMAIN watch'[n]
        PROVE  \E j \in DOMAIN watch[n] : watch'[n][i] = watch[n][j]
    <3>1. i + 1 \in DOMAIN watch[n] /\ watch'[n][i] = watch[n][i + 1]
      BY <2>1
    <3> QED
      BY <3>1
  <2>4. WatchStep(n) /\ EventsStep(n)
    BY <2>3 DEF WatchStep, EventsStep
  <2>5. lister'[n] = e.snap \/ lister'[n] = NoSnap
    BY <1>1, <1>9 DEF Deliver
  <2>6. ListerTwin(n)
    BY <2>1, <2>5 DEF ListerTwin
  <2>7. NotesStep(n)
    <3>1. CASE notes'[n] = Enqueued(notes[n])
      BY <1>7, <3>1
    <3>2. CASE e.type = "gone"
      BY <2>1, <3>2 DEF NotesStep
    <3> QED
      BY <1>1, <1>9, <3>1, <3>2 DEF Deliver
  <2>8. \A m \in Names : FileStep(m)
    BY <2>2, QuietFiles
  <2> QED
    BY <1>4, <1>5, <1>6, <1>8, <2>2, <2>4, <2>6, <2>7, <2>8
<1>10. CASE Relist(n)
  <2>1. ASSUME NEW m \in Names
        PROVE  /\ watch'[m] = <<>> \/ watch'[m] = watch[m]
               /\ lister'[m] = snaps'[m] \/ lister'[m] = lister[m]
               /\ notes'[m] = notes[m] \/ notes'[m] = Enqueued(notes[m])
    BY <1>0, <1>1, <1>10 DEF Relist
  <2>2. ASSUME NEW m \in Names
        PROVE  WatchStep(m) /\ EventsStep(m) /\ ListerTwin(m) /\ NotesStep(m)
    <3>1. WatchStep(m) /\ EventsStep(m)
      BY <1>5, <2>1 DEF WatchStep, EventsStep
    <3>2. ListerTwin(m) /\ NotesStep(m)
      BY <1>6, <1>7, <1>8, <2>1 DEF ListerTwin
    <3> QED
      BY <3>1, <3>2
  <2>3. \A m \in Names : FileStep(m)
    BY <1>10, QuietFiles DEF Relist, fileVars
  <2> QED
    BY <1>4, <2>2, <2>3
<1>11. CASE Resync(n) \/ EnqueueSnapshot(n) \/ DeleteSnapshot(n) \/ Ready(n)
  <2>1. UNCHANGED apiVars /\ UNCHANGED lister
    BY <1>11 DEF Resync, EnqueueSnapshot, DeleteSnapshot, Ready
  <2>2. ASSUME NEW m \in Names PROVE NotesStep(m)
    <3>1. CASE notes'[m] = notes[m] \/ notes'[m] = Enqueued(notes[m])
      BY <1>6, <1>7, <3>1
    <3>2. CASE notes[m] \in Seq(Note) /\ notes[m] # <<>> /\ notes'[m] = Tail(notes[m])
      <4>1. \A i \in DOMAIN notes'[m] : /\ i + 1 \in DOMAIN notes[m]
                                        /\ notes'[m][i] = notes[m][i + 1]
        BY <3>2
      <4> QED
        BY <4>1 DEF NotesStep
    <3>3. \/ notes'[m] = notes[m]
          \/ notes'[m] = Enqueued(notes[m])
          \/ notes[m] # <<>> /\ notes'[m] = Tail(notes[m])
      BY <1>1, <1>11 DEF Resync, EnqueueSnapshot, DeleteSnapshot, Ready
    <3> QED
      BY <1>1, <3>1, <3>2, <3>3
  <2>3. ASSUME NEW m \in Names PROVE FileStep(m)
    <3>1. CASE UNCHANGED objects
      BY <3>1, QuietFiles
    <3>2. CASE DeleteSnapshot(n)
      <4>1. CASE m = n
        <5>1. 1 \in DOMAIN notes[n] /\ notes[n][1].op = "delete"
          BY <1>1, <3>2 DEF DeleteSnapshot
        <5>2. ~Untouched(n)
          BY <1>0, <5>1 DEF NothingGone
        <5>3. PICK c : \/ UNCHANGED objects
                       \/ objects' = [objects EXCEPT ![c][n] = NoObject]
          BY <3>2 DEF DeleteSnapshot
        <5>4. \A b \in Buckets : objects'[b][n] \in {objects[b][n], NoObject}
          <6>1. objects \in [Buckets -> [Names -> Object \cup {NoObject}]]
            BY <1>0 DEF TypeOK, StoreTypeOK
          <6> QED
            BY <5>3, <6>1
        <5> QED
          BY <4>1, <5>2, <5>4 DEF FileStep
      <4>2. CASE m # n
        <5>1. PICK c : \/ UNCHANGED objects
                       \/ objects' = [objects EXCEPT ![c][n] = NoObject]
          BY <3>2 DEF DeleteSnapshot
        <5>2. objects \in [Buckets -> [Names -> Object \cup {NoObject}]]
          BY <1>0 DEF TypeOK, StoreTypeOK
        <5>3. \A b \in Buckets : objects'[b][m] = objects[b][m]
          BY <4>2, <5>1, <5>2
        <5> QED
          BY <5>3 DEF FileStep
      <4> QED
        BY <4>1, <4>2
    <3> QED
      BY <1>11, <3>1, <3>2 DEF Resync, EnqueueSnapshot, Ready, fileVars
  <2>4. \A m \in Names : watch'[m] = watch[m] /\ lister'[m] = lister[m]
    BY <2>1 DEF apiVars
  <2> QED
    BY <1>4, <1>5, <1>8, <2>2, <2>3, <2>4
<1> QED
  BY <1>9, <1>10, <1>11 DEF Informer

\* What the handler computes between two calls leaves the file's name alone.
LEMMA NextCallFile ==
  ASSUME NEW s \in Snapshot, NEW at
  PROVE  NextCall(s, at).snap.config = s.config /\ NextCall(s, at).snap.stored = s.stored
<1> DEFINE unset == s.phase = "Failed" /\ s.until = 0
           edited == /\ s.phase \in {"Completed", "Failed"} /\ ~unset
                     /\ s.specUntil \notin {0, s.until}
<1>1. CASE s.phase = "" /\ Past(s.specUntil, at)
  BY <1>1 DEF NextCall
<1>2. CASE s.phase = "" /\ ~Past(s.specUntil, at)
  BY <1>2 DEF NextCall, WithTTL, Snapshot
<1>3. CASE unset
  BY <1>3 DEF NextCall, Snapshot
<1>4. CASE edited
  BY <1>4 DEF NextCall, Snapshot
<1>5. CASE s.phase # "" /\ ~unset /\ ~edited
  BY <1>5 DEF NextCall, Snapshot
<1> QED
  BY <1>1, <1>2, <1>3, <1>4, <1>5

\* The first call after reading the lister keeps the file of the copy.
LEMMA FirstCallFile ==
  ASSUME NEW t, NEW s \in Snapshot
  PROVE  FirstCall(t, s).snap.config = s.config /\ FirstCall(t, s).snap.stored = s.stored
  BY NextCallFile DEF FirstCall

\* What follows an update keeps the file of what was stored.
LEMMA AfterWriteFile ==
  ASSUME NEW k \in Task, NEW x \in Snapshot
  PROVE  AfterWrite(k, x).snap.config = x.config /\ AfterWrite(k, x).snap.stored = x.stored
  BY NextCallFile DEF AfterWrite

\* An update keeps the file of the copy, and one that has ended stays so.
LEMMA WrittenFile ==
  ASSUME NEW pc \in WriteSteps, NEW s \in Snapshot, CallFits(pc, s)
  PROVE  /\ Written(pc, s).config = s.config /\ Written(pc, s).stored = s.stored
         /\ pc = "complete" => Written(pc, s).phase = "Completed"
         /\ Written(pc, s).phase = "Completed" => pc = "complete" \/ s.phase = "Completed"
         /\ s.phase \in {"Completed", "Failed"} =>
              Written(pc, s).phase \in {"Completed", "Failed"}
  BY DEF Written, Marked, Snapshot, WriteSteps, CallFits

\* A thread takes a key.
LEMMA StartSyncDescribed ==
  ASSUME Constants, StoredBase, RecordIsStored, NEW t \in Threads, NEW n \in Names,
         StartSync(t, n)
  PROVE  Described
<1>0. /\ TypeOK /\ UNCHANGED apiVars /\ UNCHANGED notes /\ UNCHANGED objects
  BY StoredBaseFacts DEF StartSync, fileVars
<1>1. StoreDescribed /\ \A m \in Names : NotesStep(m) /\ FileStep(m)
  BY <1>0, QuietApi, QuietNotes, QuietFiles
<1>2. CASE lister[n] = NoSnap /\ UNCHANGED <<lister, thread>>
  BY <1>1, <1>2, QuietLister, QuietThread DEF Described
<1>3. CASE lister[n] # NoSnap
  <2> DEFINE next == FirstCall(t, lister[n])
             x == next.snap
             k == [pc |-> next.pc, key |-> n, snap |-> x, at |-> next.at]
  <2>1. lister[n] \in Snapshot /\ now \in Nat
    BY <1>0, <1>3 DEF TypeOK, StoreTypeOK
  <2>2. /\ next.pc \in {"stop", "start", "past", "queue", "expire", "edit", "delete", "return"}
        /\ Twin(x, lister[n])
    BY <2>1, FirstCallFacts, FirstCallFile DEF Twin, Like
  <2>3. Proceed(t, n, next) /\ lister' = [lister EXCEPT ![n] = x]
    BY <1>3 DEF StartSync
  <2> HIDE DEF next
  <2>4. ASSUME NEW m \in Names PROVE ListerTwin(m)
    <3>1. CASE m = n
      BY <1>0, <1>3, <2>2, <2>3, <3>1 DEF ListerTwin, TypeOK, StoreTypeOK
    <3>2. CASE m # n
      BY <1>0, <2>3, <3>2 DEF ListerTwin, Twin, Like, TypeOK, StoreTypeOK
    <3> QED
      BY <3>1, <3>2
  <2>5. /\ thread'[t] = Idle \/ thread'[t] = k
        /\ \A u \in Threads \ {t} : thread'[u] = thread[u]
    BY <1>0, <2>3 DEF Proceed, TypeOK
  <2>6. k.key = n /\ k.snap = x /\ k.pc = next.pc
    OBVIOUS
  <2> HIDE DEF k
  <2>7. ThreadTwin(t) /\ RecordStep(t)
    BY <1>3, <2>2, <2>5, <2>6 DEF ThreadTwin, RecordStep
  <2>8. ASSUME NEW u \in Threads \ {t} PROVE ThreadTwin(u) /\ RecordStep(u)
    BY <2>5, QuietThread
  <2> QED
    BY <1>1, <2>4, <2>7, <2>8 DEF Described
<1> QED
  BY <1>2, <1>3 DEF StartSync

\* What an accepted update stores, and which file the Snapshot then describes.
LEMMA WriteDescribed ==
  ASSUME StoredBase, TypeOK', StoredInv, NEW t \in Threads, Writing(t),
         Fresh(thread[t].key, thread[t].snap.rv), Update(thread[t].key, Target(t))
  PROVE  StoreDescribed
<1>0. TypeOK /\ CopiesAgree /\ CallsFit /\ CopiesName /\ RecordIsStored
  BY StoredBaseFacts DEF StoredInv
<1>1. /\ thread[t] \in Task /\ thread[t].pc \in WriteSteps /\ Busy(t) /\ thread[t].key \in Names
      /\ thread[t].snap \in Snapshot /\ Target(t) \in Snapshot
  BY <1>0, TargetType DEF Writing, Task
<1>2. PICK n \in Names, s \in Snapshot, x \in Snapshot, pc \in WriteSteps :
        /\ n = thread[t].key /\ s = thread[t].snap /\ x = Target(t)
        /\ pc = thread[t].pc /\ x = Written(pc, s)
  BY <1>1 DEF Target
<1>3. SameResource(n, s) /\ s.phase = snaps[n].phase /\ Fresh(n, s.rv) /\ CallFits(pc, s)
  BY <1>0, <1>1, <1>2 DEF CopiesAgree, Agrees, CallsFit
<1>4. /\ x.config = s.config /\ x.stored = s.stored /\ x.uid = s.uid
      /\ pc = "complete" => x.phase = "Completed"
      /\ x.phase = "Completed" => pc = "complete" \/ s.phase = "Completed"
      /\ s.phase \in {"Completed", "Failed"} => x.phase \in {"Completed", "Failed"}
  BY <1>2, <1>3, WrittenFile, WrittenFacts
<1>5. Exists(n) /\ x.uid = snaps[n].uid /\ Update(n, x)
  BY <1>2, <1>3, <1>4 DEF SameResource
<1>6. /\ \A m \in Names : StoreMove(m) /\ WatchStep(m)
      /\ \A m \in Names \ {n} : snaps'[m] = snaps[m]
      /\ snaps'[n] = Returned(n, x)
  BY <1>0, <1>5, UpdateMove
<1>7. \A m \in Names : EventsStep(m)
  BY <1>0, <1>5, UpdateEvents
<1>8. /\ snaps'[n].config = x.config /\ snaps'[n].stored = x.stored /\ snaps'[n].phase = x.phase
      /\ snaps'[n].uid = x.uid
  BY <1>6, UpdateKeeps
<1>9. /\ OfTheFirst(n, s)
      /\ pc # "complete" => SameFile(n, s)
  BY <1>0, <1>1, <1>2 DEF CopiesName
<1>10. ASSUME snaps[n].uid = 1
       PROVE  /\ s.uid = 1 /\ s.config = snaps[n].config
              /\ pc # "complete" => s.stored = snaps[n].stored
  <2>1. Untouched(n)
    BY <1>5, <1>10 DEF Untouched
  <2> QED
    BY <1>3, <1>9, <2>1 DEF OfTheFirst, SameFile
<1>11. ConfigStep(n)
  BY <1>4, <1>8, <1>10 DEF ConfigStep
<1>12. RecordingStep(n)
  <2> SUFFICES ASSUME snaps'[n].uid = 1
               PROVE  RecordingStep(n)
    BY DEF RecordingStep
  <2>1. snaps[n].uid = 1
    BY <1>5, <1>8
  <2>2. CASE pc = "complete"
    <3>1. At(t, "complete") /\ thread[t].key = n /\ thread[t].snap = s
      BY <1>1, <1>2, <2>2 DEF At
    <3> QED
      BY <1>3, <1>4, <1>8, <1>10, <2>1, <2>2, <3>1 DEF RecordingStep
  <2>3. CASE pc # "complete"
    <3>1. x.stored = snaps[n].stored /\ x.config = snaps[n].config
      BY <1>4, <1>10, <2>1, <2>3
    <3>2. CASE snaps[n].stored = 0 /\ snaps[n].phase # "Completed"
      <4>1. x.phase # "Completed"
        BY <1>3, <1>4, <2>3, <3>2
      <4> QED
        BY <1>8, <3>1, <3>2, <4>1 DEF RecordingStep
    <3>3. CASE snaps[n].stored # 0 /\ snaps[n].phase \in {"Completed", "Failed"}
      <4>1. x.phase \in {"Completed", "Failed"}
        BY <1>3, <1>4, <3>3
      <4> QED
        BY <1>5, <1>8, <2>1, <3>1, <3>3, <4>1 DEF RecordingStep
    <3> QED
      BY <1>0, <1>5, <2>1, <3>2, <3>3 DEF RecordIsStored
  <2> QED
    BY <2>2, <2>3
<1>13. \A m \in Names \ {n} : ConfigStep(m) /\ RecordingStep(m)
  BY <1>0, <1>6, QuietRecording DEF ConfigStep
<1> QED
  BY <1>6, <1>7, <1>11, <1>12, <1>13 DEF StoreDescribed

\* A thread's updates.
LEMMA UpdateDescribed ==
  ASSUME Constants, StoredBase, TypeOK', StoredInv, NEW t \in Threads,
         UpdateAccepted(t) \/ UpdateUnanswered(t)
  PROVE  Described
<1>0. /\ TypeOK /\ Writing(t) /\ UNCHANGED lister /\ UNCHANGED objects
      /\ Fresh(thread[t].key, thread[t].snap.rv) /\ Update(thread[t].key, Target(t))
  BY StoredBaseFacts DEF UpdateAccepted, UpdateUnanswered, fileVars
<1>1. StoreDescribed
  BY <1>0, WriteDescribed
<1>2. UNCHANGED notes
  BY DEF UpdateAccepted, UpdateUnanswered, Requeue, queueVars
<1>3. \A n \in Names : ListerTwin(n) /\ NotesStep(n) /\ FileStep(n)
  BY <1>0, <1>2, QuietLister, QuietNotes, QuietFiles
<1>4. CASE UpdateUnanswered(t)
  <2>1. \A u \in Threads : thread'[u] = thread[u] \/ thread'[u] = Idle
    BY <1>0, <1>4 DEF UpdateUnanswered, Requeue, TypeOK
  <2>2. \A u \in Threads : ThreadTwin(u) /\ RecordStep(u)
    BY <2>1, QuietThread
  <2> QED
    BY <1>1, <1>3, <2>2 DEF Described
<1>5. CASE UpdateAccepted(t)
  <2> DEFINE n == thread[t].key
             x == Returned(n, Target(t))
             next == AfterWrite(thread[t], x)
             k == [pc |-> next.pc, key |-> n, snap |-> next.snap, at |-> next.at]
  <2>1. thread[t] \in Task /\ thread[t].pc \in WriteSteps /\ now \in Nat
    BY <1>0, TargetType DEF TypeOK, StoreTypeOK
  <2>2. x \in Snapshot /\ snaps'[n] # NoSnap /\ snaps'[n] = x
    <3>1. Target(t) \in Snapshot /\ n \in Names /\ Exists(n)
      BY <1>0, <2>1, TargetType DEF Fresh, Task
    <3>2. snaps'[n] # NoSnap /\ snaps'[n] = x
      BY <1>0, <3>1, UpdateFacts
    <3> QED
      BY <3>1, <3>2 DEF TypeOK, StoreTypeOK
  <2>3. Proceed(t, n, next)
    BY <1>5 DEF UpdateAccepted
  <2> HIDE DEF x
  <2>4. /\ next.pc \in {"past", "queue", "expire", "edit", "delete", "return", "bucket"}
        /\ Twin(next.snap, x)
    BY <2>1, <2>2, AfterWriteFacts, AfterWriteFile DEF Twin, Like
  <2> HIDE DEF next
  <2>5. /\ thread'[t] = Idle \/ thread'[t] = k
        /\ \A u \in Threads \ {t} : thread'[u] = thread[u]
    BY <1>0, <2>3 DEF Proceed, TypeOK
  <2>6. k.pc = next.pc /\ k.key = n /\ k.snap = next.snap
    OBVIOUS
  <2> HIDE DEF k, n
  <2>7. ThreadTwin(t) /\ RecordStep(t)
    BY <2>2, <2>4, <2>5, <2>6 DEF ThreadTwin, RecordStep
  <2>8. ASSUME NEW u \in Threads \ {t} PROVE ThreadTwin(u) /\ RecordStep(u)
    BY <2>5, QuietThread
  <2> QED
    BY <1>1, <1>3, <2>7, <2>8 DEF Described
<1> QED
  BY <1>4, <1>5

\* A thread goes on with its copy.
LEMMA GotoTwin ==
  ASSUME TypeOK, NEW t \in Threads, Busy(t), NEW pc \in Steps, NEW x,
         Goto(t, pc, x), Like(x, thread[t].snap), x.config = thread[t].snap.config,
         pc = "complete" \/ (Twin(x, thread[t].snap) /\ thread[t].pc # "complete"),
         pc = "complete" => StoredAs(thread[t].key, x)'
  PROVE  \A u \in Threads : ThreadTwin(u) /\ RecordStep(u)
<1>1. thread \in [Threads -> Task \cup {Idle}] /\ thread[t] \in Task
  BY DEF TypeOK, Busy
<1>2. /\ thread'[t] = [thread[t] EXCEPT !.pc = pc, !.snap = x]
      /\ \A u \in Threads \ {t} : thread'[u] = thread[u]
  BY <1>1 DEF Goto
<1>3. thread'[t].pc = pc /\ thread'[t].snap = x /\ thread'[t].key = thread[t].key
  BY <1>1, <1>2 DEF Task
<1>4. ThreadTwin(t) /\ RecordStep(t)
  BY <1>3 DEF ThreadTwin, RecordStep, StoredAs
<1>5. ASSUME NEW u \in Threads \ {t} PROVE ThreadTwin(u) /\ RecordStep(u)
  BY <1>2, QuietThread
<1> QED
  BY <1>4, <1>5

\* The steps between two calls that do not write.
LEMMA GotoDescribed ==
  ASSUME StoredBase, RecordIsStored, NEW t \in Threads,
         \/ GetBucket(t) \/ TakeSnapshot(t) \/ Upload(t) \/ ObjectInfo(t)
         \/ DeleteRefused(t) \/ ObjectInfoFailed(t) \/ GiveUp(t)
  PROVE  Described
<1> USE DEF Steps, TakingSteps, WriteSteps
<1>0. /\ TypeOK /\ Busy(t) /\ UNCHANGED apiVars /\ UNCHANGED lister /\ UNCHANGED notes
  BY StoredBaseFacts DEF GetBucket, TakeSnapshot, Upload, ObjectInfo, DeleteRefused, ObjectInfoFailed,
         GiveUp, At, storeVars, queueVars
<1>1. thread[t] \in Task
  BY <1>0 DEF TypeOK, Busy
<1>2. PICK n \in Names, s \in Snapshot : n = thread[t].key /\ s = thread[t].snap
  BY <1>1 DEF Task
<1>3. StoreDescribed /\ \A m \in Names : ListerTwin(m) /\ NotesStep(m)
  BY <1>0, QuietApi, QuietLister, QuietNotes
<1>4. Like(s, s) /\ Twin(s, s)
  BY DEF Twin, Like
<1>5. ASSUME NEW pc \in Steps \ {"complete"}, Goto(t, pc, s),
             thread[t].pc # "complete", \A m \in Names : FileStep(m)
      PROVE  Described
  <2>1. \A u \in Threads : ThreadTwin(u) /\ RecordStep(u)
    BY <1>0, <1>2, <1>4, <1>5, GotoTwin
  <2> QED
    BY <1>3, <1>5, <2>1 DEF Described
<1>6. UNCHANGED objects => \A m \in Names : FileStep(m)
  BY QuietFiles
<1>7. CASE GetBucket(t) \/ DeleteRefused(t)
  <2>1. UNCHANGED objects /\ thread[t].pc # "complete"
    BY <1>7 DEF GetBucket, DeleteRefused, storeVars, fileVars, At
  <2>2. Goto(t, "take", s) \/ Goto(t, "deletefail", s)
    BY <1>2, <1>7 DEF GetBucket, DeleteRefused
  <2> QED
    BY <1>5, <1>6, <2>1, <2>2
<1>8. CASE ObjectInfoFailed(t) \/ GiveUp(t)
  <2>1. UNCHANGED objects /\ thread[t].pc # "complete"
    BY <1>8 DEF ObjectInfoFailed, GiveUp, fileVars, At
  <2>2. Goto(t, "upload", s) \/ Goto(t, "fail", s)
    BY <1>2, <1>8 DEF ObjectInfoFailed, GiveUp
  <2> QED
    BY <1>5, <1>6, <2>1, <2>2
<1>9. CASE TakeSnapshot(t)
  <2> DEFINE u == IF s.specUntil = 0 THEN now + s.ttl ELSE s.specUntil
             x == [s EXCEPT !.until = u]
  <2>1. /\ Goto(t, "upload", x) /\ UNCHANGED objects /\ thread[t].pc # "complete"
    BY <1>2, <1>9 DEF TakeSnapshot, At, storeVars, fileVars
  <2>2. Like(x, s) /\ Twin(x, s) /\ x.config = s.config
    BY DEF Snapshot, Like, Twin
  <2> HIDE DEF x
  <2>3. \A v \in Threads : ThreadTwin(v) /\ RecordStep(v)
    BY <1>0, <1>2, <2>1, <2>2, GotoTwin
  <2> QED
    BY <1>3, <1>6, <2>1, <2>3 DEF Described
<1>10. CASE Upload(t)
  <2>1. Goto(t, "info", s) /\ At(t, "upload") /\ thread[t].pc # "complete"
    BY <1>2, <1>10 DEF Upload, At
  <2>2. PICK o : objects' = [objects EXCEPT ![s.config][n] = o]
    BY <1>2, <1>10 DEF Upload
  <2>3. objects \in [Buckets -> [Names -> Object \cup {NoObject}]] /\ s.config \in Buckets
    BY <1>0 DEF TypeOK, StoreTypeOK, Snapshot
  <2>4. ASSUME NEW m \in Names PROVE FileStep(m)
    <3>1. CASE m = n
      <4>1. \A b \in Buckets \ {s.config} : objects'[b][n] = objects[b][n]
        BY <2>2, <2>3
      <4> QED
        BY <1>2, <2>1, <3>1, <4>1 DEF FileStep
    <3>2. CASE m # n
      <4>1. \A b \in Buckets : objects'[b][m] = objects[b][m]
        BY <2>2, <2>3, <3>2
      <4> QED
        BY <4>1 DEF FileStep
    <3> QED
      BY <3>1, <3>2
  <2> QED
    BY <1>5, <2>1, <2>4
<1>11. CASE ObjectInfo(t)
  <2> DEFINE o == objects[s.config][n]
  <2>1. UNCHANGED objects /\ thread[t].pc # "complete"
    BY <1>11 DEF ObjectInfo, At, storeVars, fileVars
  <2>2. CASE o # NoObject /\ Goto(t, "complete", [s EXCEPT !.stored = o.stamp])
    <3>1. PICK x : x = [s EXCEPT !.stored = o.stamp]
      OBVIOUS
    <3>2. Like(x, s) /\ x.config = s.config /\ x.stored = objects[x.config][n].stamp
      BY <3>1 DEF Snapshot, Like
    <3>3. objects'[x.config][n] # NoObject /\ objects'[x.config][n].stamp = x.stored
      BY <2>1, <2>2, <3>2
    <3>4. StoredAs(thread[t].key, x)'
      <4>1. thread'[t].key = n
        BY <1>0, <1>1, <1>2, <2>2 DEF Goto, TypeOK, Task
      <4> QED
        BY <3>3, <4>1 DEF StoredAs
    <3>5. \A u \in Threads : ThreadTwin(u) /\ RecordStep(u)
      BY <1>0, <1>2, <2>2, <3>1, <3>2, <3>4, GotoTwin
    <3> QED
      BY <1>3, <1>6, <2>1, <3>5 DEF Described
  <2>3. CASE Goto(t, "upload", s) \/ Goto(t, "fail", s)
    BY <1>5, <1>6, <2>1, <2>3
  <2> QED
    BY <1>2, <1>11, <2>2, <2>3 DEF ObjectInfo
<1> QED
  BY <1>7, <1>8, <1>9, <1>10, <1>11

\* The other steps of a thread: it stops, or deletes the Snapshot.
LEMMA OtherDescribed ==
  ASSUME StoredBase, RecordIsStored, NEW t \in Threads,
         UpdateRefused(t) \/ UpdateFailed(t) \/ DeleteExpired(t) \/ DeleteFailed(t)
  PROVE  Described
<1>0. /\ TypeOK /\ UNCHANGED lister /\ UNCHANGED notes /\ UNCHANGED objects
  BY StoredBaseFacts DEF UpdateRefused, UpdateFailed, DeleteExpired, DeleteFailed, Requeue, queueVars,
         fileVars
<1>1. \A n \in Names : ListerTwin(n) /\ NotesStep(n) /\ FileStep(n)
  BY <1>0, QuietLister, QuietNotes, QuietFiles
<1>2. CASE UpdateRefused(t) \/ UpdateFailed(t)
  <2>1. UNCHANGED apiVars /\ thread' = [thread EXCEPT ![t] = Idle]
    BY <1>2 DEF UpdateRefused, UpdateFailed, Requeue
  <2>2. \A u \in Threads : thread'[u] = thread[u] \/ thread'[u] = Idle
    BY <1>0, <2>1 DEF TypeOK
  <2> QED
    BY <1>1, <2>1, <2>2, QuietApi, QuietThread DEF Described
<1>3. CASE DeleteExpired(t) \/ DeleteFailed(t)
  <2>1. At(t, "delete") /\ (Delete(thread[t].key) \/ UNCHANGED apiVars)
    BY <1>3 DEF DeleteExpired, DeleteFailed
  <2>2. Busy(t) /\ thread[t].key \in Names /\ thread[t].pc # "complete"
    BY <1>0, <2>1 DEF TypeOK, At, Busy, Task
  <2>3. StoreDescribed
    BY <2>1, <2>2, QuietApi, DeleteDescribed
  <2>4. ASSUME NEW u \in Threads PROVE ThreadTwin(u) /\ RecordStep(u)
    <3>1. CASE DeleteExpired(t)
      <4>1. thread'[u] = thread[u] \/ thread'[u] = Idle
        BY <1>0, <3>1 DEF DeleteExpired, TypeOK
      <4> QED
        BY <4>1, QuietThread
    <3>2. CASE DeleteFailed(t)
      <4>1. Goto(t, "deletefail", thread[t].snap) /\ "deletefail" \in Steps \ {"complete"}
        BY <3>2 DEF DeleteFailed, Steps, WriteSteps
      <4>2. Like(thread[t].snap, thread[t].snap) /\ Twin(thread[t].snap, thread[t].snap)
        BY DEF Like, Twin
      <4> QED
        BY <1>0, <2>2, <4>1, <4>2, GotoTwin DEF Steps, WriteSteps
    <3> QED
      BY <1>3, <3>1, <3>2
  <2> QED
    BY <1>1, <2>3, <2>4 DEF Described
<1> QED
  BY <1>2, <1>3

\* The process dies and starts again.
LEMMA RestartDescribed ==
  ASSUME StoredBase, RecordIsStored, Restart
  PROVE  Described
<1>0. /\ TypeOK /\ CopiesAgree
      /\ UNCHANGED <<snaps, ver, objects>> /\ lister' = snaps
      /\ \A t \in Threads : thread'[t] = Idle
      /\ \A n \in Names : watch'[n] = <<>>
      /\ \A n \in Names : notes'[n] = <<>> \/ notes'[n] = <<[op |-> "enqueue"]>>
  BY StoredBaseFacts DEF Restart, Enqueued, fileVars
<1>1. ASSUME NEW n \in Names
      PROVE  /\ StoreMove(n) /\ WatchStep(n) /\ EventsStep(n) /\ ConfigStep(n)
             /\ RecordingStep(n)
  <2>1. StoreMove(n)
    BY <1>0, QuietMove
  <2> QED
    BY <1>0, <2>1, QuietRecording DEF WatchStep, EventsStep, ConfigStep
<1>2. ASSUME NEW n \in Names PROVE ListerTwin(n) /\ NotesStep(n) /\ FileStep(n)
  <2>1. \A i \in DOMAIN notes'[n] : notes'[n][i].op = "enqueue"
    BY <1>0
  <2> QED
    BY <1>0, <2>1 DEF ListerTwin, NotesStep, FileStep
<1>3. ASSUME NEW t \in Threads PROVE ThreadTwin(t) /\ RecordStep(t)
  BY <1>0, QuietThread
<1> QED
  BY <1>1, <1>2, <1>3 DEF Described, StoreDescribed

\* The steps of a thread.
LEMMA ThreadDescribed ==
  ASSUME Constants, StoredBase, TypeOK', StoredInv, NEW t \in Threads, ThreadNext(t)
  PROVE  Described
<1>1. RecordIsStored
  BY DEF StoredInv
<1> QED
  BY <1>1, StartSyncDescribed, UpdateDescribed, GotoDescribed, OtherDescribed
     DEF ThreadNext, Advance, Fault

\* A step that leaves all this alone.
LEMMA QuietDescribed ==
  ASSUME StoredBase, RecordIsStored, UNCHANGED apiVars,
         UNCHANGED <<lister, notes, objects, thread>>
  PROVE  Described
  BY QuietApi, QuietLister, QuietNotes, QuietFiles, QuietThread DEF Described

\* Every step keeps the invariant.
LEMMA NextStored ==
  ASSUME Constants, IndInv, IndInv', StoredInv, [Next]_vars
  PROVE  StoredInv'
<1>0. StoredBase /\ RecordIsStored /\ TypeOK'
  BY IndStored DEF IndInv, StoredInv
<1>1. CASE UNCHANGED vars
  BY <1>0, <1>1, QuietDescribed, DescribedKeeps DEF vars, storeVars, queueVars, fileVars
<1>2. CASE Next
  <2>1. Described
    BY <1>0, <1>2, EnvironmentDescribed, InformerDescribed, ThreadDescribed, RestartDescribed
       DEF Next, ControllerNext
  <2> QED
    BY <1>0, <2>1, DescribedKeeps
<1> QED
  BY <1>1, <1>2

\* At the start there is nothing.
LEMMA InitStored == Init => StoredInv
  BY DEF Init, StoreInit, StoredInv, NothingGone, CopiesName, ReadyToComplete,
         RecordIsStored, InTheirBuckets, Exists, At, Busy

-----------------------------------------------------------------------------
(* The theorem.                                                            *)

\* A Completed Snapshot whose name was not used before has the file its
\* status describes.
THEOREM Stored == Spec => []CompletedIsStored
<1>0. Constants
  BY StoreAssumption, ThreadAssumption DEF Constants
<1>1. Init => StoredInv
  BY InitStored
<1>2. IndInv /\ IndInv' /\ StoredInv /\ [Next]_vars => StoredInv'
  BY <1>0, NextStored
<1>3. StoredInv => CompletedIsStored
  BY CompletedStored
<1> QED
  BY <1>1, <1>2, <1>3, Invariance, PTL DEF Spec

=============================================================================
