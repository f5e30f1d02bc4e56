------------------------- MODULE ObjectSyncer_proofs -------------------------
(***************************************************************************)
(* Proofs about ObjectSyncer for every set of names, buckets and workers,  *)
(* every choice of flags and every bound: type correctness, and that the   *)
(* sweeps disturb neither the copies nor the making of a snapshot.         *)
(***************************************************************************)
EXTENDS ObjectSyncer, SnapshotController_proofs, FiniteSetTheorems

\* What the constants are assumed to be, in one name.
SyncConstants == Constants /\ SyncerAssumption

-----------------------------------------------------------------------------
(* The inductive invariant.                                                *)

Restoring == [orphan : Orphan, snap : Snapshot \cup {NoSnap}]

\* What a sweep has in hand fits the call it is about to make, and the one
\* that recovers Snapshots is over before a thread gets a key.
SweepFits ==
  /\ sweep # NoSweep =>
       /\ sweep.call = "objects" => sweep.left # <<>>
       /\ sweep.call \in {"create", "get", "complete"} =>
            sweep.recover /\ sweep.restoring \in Restoring
       /\ sweep.call = "complete" => sweep.restoring.snap \in Snapshot
       /\ sweep.recover => ~started
  /\ ~started => \A t \in Threads : ~Busy(t)

HasEnded(s) == s.phase \in {"Completed", "Failed"}

\* The copies of a sweep agree with the store too, and what it is going to
\* update has ended.
SweepAgrees ==
  sweep # NoSweep =>
    /\ \A f \in sweep.fixes : Agrees(f.key, f.snap) /\ HasEnded(f.snap)
    /\ sweep.call = "complete" => Agrees(sweep.restoring.orphan.key, sweep.restoring.snap)

SyncInv ==
  /\ SyncTypeOK
  /\ SweepFits
  /\ CopiesAgree
  /\ SweepAgrees
  /\ OneThreadPerKey
  /\ TakerOwnsResource

-----------------------------------------------------------------------------
(* What a sweep computes.                                                  *)

\* Some place in a list comes first.
LEMMA FirstPlace ==
  ASSUME NEW k \in Nat, NEW T, T \subseteq 1..k, T # {}
  PROVE  \E i \in T : \A j \in T : i <= j
<1> DEFINE S == 1..k
           R == StrictSubsetOrdering(S)
           F == {1..i : i \in T}
<1>1. IsFiniteSet(S)
  BY FS_Interval
<1>2. FiniteSubsetsOf(S) = SUBSET S
  BY <1>1, FS_FiniteSubsetsOfFinite
<1>3. IsWellFoundedOn(R, SUBSET S)
  BY <1>2, FS_StrictSubsetOrderingWellFounded
<1>4. F \subseteq SUBSET S /\ F # {}
  <2>1. ASSUME NEW i \in T PROVE 1..i \in SUBSET S
    OBVIOUS
  <2>2. PICK i \in T : TRUE
    OBVIOUS
  <2>3. 1..i \in F
    BY <2>2
  <2>4. F \subseteq SUBSET S
    BY <2>1
  <2> HIDE DEF F
  <2> QED
    BY <2>3, <2>4
<1>5. \E x \in F : \A y \in F : ~(<<y, x>> \in R)
  <2> HIDE DEF R, S, F
  <2> QED
    BY <1>3, <1>4, WFMin
<1>6. PICK i \in T : \A j \in T : ~(<<1..j, 1..i>> \in R)
  <2>1. PICK x \in F : \A y \in F : ~(<<y, x>> \in R)
    BY <1>5
  <2>2. PICK i \in T : x = 1..i
    BY <2>1
  <2>3. \A j \in T : 1..j \in F
    OBVIOUS
  <2> HIDE DEF F, R
  <2> QED
    BY <2>1, <2>2, <2>3
<1>7. ASSUME NEW j \in T, j < i PROVE FALSE
  <2>1. 1..j \subseteq 1..i /\ i \in 1..i /\ i \notin 1..j
    BY <1>7
  <2>2. 1..j \in SUBSET S /\ 1..i \in SUBSET S
    OBVIOUS
  <2>3. <<1..j, 1..i>> \in R
    BY <2>1, <2>2 DEF StrictSubsetOrdering
  <2> QED
    BY <1>6, <2>3
<1> QED
  BY <1>7

\* A name some file has is found in a bucket that has it.
LEMMA FirstHoldingFacts ==
  ASSUME SyncConstants, NEW files, NEW n, Holding(files, n) # {}
  PROVE  FirstHolding(files, n) \in Buckets /\ files[FirstHolding(files, n)][n] # NoObject
<1> DEFINE H == Holding(files, n)
           i == CHOOSE i \in H : \A j \in H : i <= j
<1>1. BucketOrder \in Seq(Buckets)
  BY DEF SyncConstants, SyncerAssumption
<1>2. H \subseteq 1..Len(BucketOrder) /\ Len(BucketOrder) \in Nat
  BY <1>1 DEF Holding
<1>3. \E k \in H : \A j \in H : k <= j
  <2>1. H # {}
    OBVIOUS
  <2> HIDE DEF H
  <2> QED
    BY <1>2, <2>1, FirstPlace
<1>4. i \in H
  <2> HIDE DEF H
  <2> QED
    BY <1>3
<1>5. i \in DOMAIN BucketOrder /\ files[BucketOrder[i]][n] # NoObject
  BY <1>4 DEF Holding
<1>6. BucketOrder[i] \in Buckets
  BY <1>1, <1>5
<1> QED
  BY <1>5, <1>6 DEF FirstHolding

\* The reasons there are.
LEMMA Whys ==
  UNION {WriteOrder[i] : i \in DOMAIN WriteOrder} =
    {"moved", "notMatched", "trusted", "notFound", "valid"}
<1>1. DOMAIN WriteOrder = {1, 2, 3, 4}
  BY DEF WriteOrder
<1>2. /\ WriteOrder[1] = {"moved"} /\ WriteOrder[2] = {"notMatched", "trusted"}
      /\ WriteOrder[3] = {"notFound"} /\ WriteOrder[4] = {"valid"}
  BY DEF WriteOrder
<1> QED
  BY <1>1, <1>2

\* The comparison goes on with the stored version.
LEMMA JudgedFacts ==
  ASSUME SyncConstants, NEW files, NEW n \in Names, snaps[n] \in Snapshot
  PROVE  /\ Judged(files, n) \in Fix
         /\ Judged(files, n).key = n /\ Like(Judged(files, n).snap, snaps[n])
<1> DEFINE s == snaps[n]
           b == FirstHolding(files, n)
           m == [s EXCEPT !.config = b]
           fix(why, x) == [why |-> why, key |-> n, snap |-> x]
<1>1. ASSUME NEW why \in {"moved", "notMatched", "trusted", "notFound", "valid"},
             NEW x \in Snapshot, Like(x, s)
      PROVE  fix(why, x) \in Fix /\ fix(why, x).key = n /\ Like(fix(why, x).snap, s)
  BY <1>1, Whys DEF Fix
<1>2. Like(s, s)
  BY DEF Like
<1>3. Holding(files, n) # {} => m \in Snapshot /\ Like(m, s)
  BY FirstHoldingFacts DEF Snapshot, Like
<1>4. \/ Judged(files, n) = fix("notFound", s)
      \/ Judged(files, n) = fix("notMatched", s)
      \/ Judged(files, n) = fix("trusted", s)
      \/ Holding(files, n) # {} /\ Judged(files, n) = fix("moved", m)
      \/ Judged(files, n) = fix("valid", s)
  BY DEF Judged
<1> HIDE DEF m, s, fix
<1> QED
  BY <1>1, <1>2, <1>3, <1>4 DEF s

\* A verdict is about the version that was read.
LEMMA VerdictFacts ==
  ASSUME NEW f \in Fix
  PROVE  /\ f.key \in Names /\ f.snap \in Snapshot
         /\ Verdict(f) \in Snapshot
         /\ Verdict(f).rv = f.snap.rv /\ Verdict(f).uid = f.snap.uid
         /\ HasEnded(f.snap) => HasEnded(Verdict(f))
<1>1. /\ f.key \in Names /\ f.snap \in Snapshot
      /\ f.why \in {"moved", "notMatched", "trusted", "notFound", "valid"}
  BY Whys DEF Fix
<1>2. ASSUME NEW ph \in Phases, NEW re \in Reasons
      PROVE  /\ Marked(f.snap, ph, re) \in Snapshot /\ Marked(f.snap, ph, re).phase = ph
             /\ Marked(f.snap, ph, re).rv = f.snap.rv /\ Marked(f.snap, ph, re).uid = f.snap.uid
  BY <1>1 DEF Marked, Snapshot
<1>3. "Failed" \in Phases /\ "Completed" \in Phases
  BY DEF Phases
<1>4. CASE f.why \in {"notMatched", "notFound"}
  <2>1. Verdict(f) = Marked(f.snap, "Failed", f.why) /\ f.why \in Reasons
    BY <1>4 DEF Verdict, Reasons
  <2> QED
    BY <1>1, <1>2, <1>3, <2>1 DEF HasEnded
<1>5. CASE f.why \in {"trusted", "valid"}
  <2>1. Verdict(f) = Marked(f.snap, "Completed", "")
    BY <1>5 DEF Verdict
  <2>2. PICK re \in Reasons : re = ""
    BY DEF Reasons
  <2>3. Verdict(f) = Marked(f.snap, "Completed", re)
    BY <2>1, <2>2
  <2> QED
    BY <1>1, <1>2, <1>3, <2>3 DEF HasEnded
<1>6. CASE f.why = "moved"
  <2>1. Verdict(f) = f.snap
    BY <1>6 DEF Verdict
  <2> QED
    BY <1>1, <2>1
<1> QED
  BY <1>1, <1>4, <1>5, <1>6

\* A new sweep has a bucket to list, and nothing else.
LEMMA NewSweepFacts ==
  ASSUME SyncConstants, NEW remove \in BOOLEAN, NEW recover \in BOOLEAN
  PROVE  LET w == NewSweep(remove, recover) IN
           /\ w \in Sweep \cup {NoSweep}
           /\ w # NoSweep => /\ w.call = "objects" /\ w.left # <<>> /\ w.recover = recover
                             /\ w.files = NoFiles /\ w.orphans = {} /\ w.fixes = {}
<1> DEFINE w == [call |-> "objects", remove |-> remove, recover |-> recover,
                 left |-> BucketOrder, files |-> NoFiles, orphans |-> {}, fixes |-> {},
                 restoring |-> NoSnap]
<1>1. BucketOrder \in Seq(Buckets) /\ BucketOrder # <<>>
  BY DEF SyncConstants, SyncerAssumption
<1>2. NoFiles \in Files
  BY DEF NoFiles, Files
<1>3. w \in Sweep
  BY <1>1, <1>2 DEF Sweep
<1>4. /\ w.call = "objects" /\ w.left # <<>> /\ w.recover = recover
      /\ w.files = NoFiles /\ w.orphans = {} /\ w.fixes = {}
  BY <1>1
<1>5. NewSweep(remove, recover) = w \/ NewSweep(remove, recover) = NoSweep
  BY DEF NewSweep
<1> HIDE DEF w
<1> QED
  BY <1>3, <1>4, <1>5

-----------------------------------------------------------------------------
(* Type correctness.                                                       *)

\* A sweep that goes on with this.
LEMMA ContinueFacts ==
  ASSUME SyncTypeOK, SweepFits, NEW w, Continue(w), w \in Sweep, UNCHANGED thread,
         w.call = "objects" => w.left # <<>>,
         w.call \in {"create", "get", "complete"} => w.recover /\ w.restoring \in Restoring,
         w.call = "complete" => w.restoring.snap \in Snapshot,
         w.recover => ~started
  PROVE  started' \in BOOLEAN /\ sweep' \in Sweep \cup {NoSweep} /\ SweepFits'
  BY DEF Continue, SyncTypeOK, SweepFits, Busy

\* A sweep that ends.
LEMMA FinishFacts ==
  ASSUME Finish
  PROVE  started' \in BOOLEAN /\ sweep' \in Sweep \cup {NoSweep} /\ SweepFits'
  BY DEF Finish, SweepFits

\* Reading keeps the types.
LEMMA ReadingType ==
  ASSUME SyncConstants, SyncTypeOK, SweepFits, StartSweep \/ ListBucket \/ ListSnapshots
  PROVE  started' \in BOOLEAN /\ sweep' \in Sweep \cup {NoSweep} /\ SweepFits'
<1>0. /\ UNCHANGED thread /\ StoreTypeOK
  BY DEF StartSweep, ListBucket, ListSnapshots, vars, SyncTypeOK, TypeOK
<1>1. CASE StartSweep
  <2> DEFINE w == NewSweep(Housekeep, FALSE)
  <2>1. w # NoSweep /\ Continue(w) /\ Housekeep \in BOOLEAN
    BY <1>1 DEF StartSweep, SyncConstants, SyncerAssumption
  <2>2. w \in Sweep /\ w.call = "objects" /\ w.left # <<>> /\ w.recover = FALSE
    BY <2>1, NewSweepFacts
  <2> HIDE DEF w
  <2> QED
    BY <1>0, <2>1, <2>2, ContinueFacts
<1>2. CASE ListBucket
  <2> DEFINE b == Head(sweep.left)
             rest == Tail(sweep.left)
             call == IF rest = <<>> THEN "snapshots" ELSE "objects"
             w == [sweep EXCEPT !.files[b] = objects[b], !.left = rest, !.call = call]
  <2>1. /\ sweep # NoSweep /\ sweep \in Sweep /\ sweep.call = "objects"
        /\ sweep.left # <<>> /\ Continue(w)
    BY <1>2 DEF ListBucket, Calling, SyncTypeOK, SweepFits
  <2>2. sweep.left \in Seq(Buckets) /\ sweep.files \in Files
    BY <2>1 DEF Sweep
  <2>3. b \in Buckets /\ rest \in Seq(Buckets)
    BY <2>1, <2>2
  <2>4. objects[b] \in [Names -> Object \cup {NoObject}]
    BY <1>0, <2>3 DEF StoreTypeOK
  <2>5. [sweep.files EXCEPT ![b] = objects[b]] \in Files
    BY <2>2, <2>4 DEF Files
  <2>6. call \in {"objects", "snapshots"} /\ (call = "objects" => rest # <<>>)
    OBVIOUS
  <2> HIDE DEF b, rest, call
  <2>7. w \in Sweep
    BY <2>1, <2>3, <2>5, <2>6 DEF Sweep
  <2>8. w.call = call /\ w.left = rest /\ w.recover = sweep.recover
    BY <2>1 DEF Sweep
  <2>9. w.recover => ~started
    BY <2>1, <2>8 DEF SweepFits
  <2> HIDE DEF w
  <2> QED
    BY <1>0, <2>1, <2>6, <2>7, <2>8, <2>9, ContinueFacts
<1>3. CASE ListSnapshots
  <2> DEFINE orphans == IF sweep.remove \/ sweep.recover THEN Orphans(sweep.files) ELSE {}
             fixes == {f \in {Judged(sweep.files, n) : n \in Compared} : Needed(f)}
             w == [sweep EXCEPT !.call = "fix", !.files = NoFiles, !.orphans = orphans,
                                !.fixes = fixes]
  <2>1. sweep \in Sweep /\ Continue(w)
    BY <1>3 DEF ListSnapshots, Calling, SyncTypeOK
  <2>2. orphans \subseteq Orphan
    <3>1. sweep.files \in Files
      BY <2>1 DEF Sweep
    <3> QED
      BY <3>1 DEF Orphans, Orphan, Files
  <2>3. fixes \subseteq Fix
    <3>1. ASSUME NEW n \in Compared PROVE Judged(sweep.files, n) \in Fix
      BY <1>0, JudgedFacts DEF Compared, Exists, StoreTypeOK
    <3> QED
      BY <3>1
  <2>4. NoFiles \in Files
    BY DEF NoFiles, Files
  <2> HIDE DEF orphans, fixes
  <2>5. w \in Sweep
    BY <2>1, <2>2, <2>3, <2>4 DEF Sweep
  <2>6. w.call = "fix" /\ w.recover = sweep.recover
    BY <2>1 DEF Sweep
  <2>7. w.recover => ~started
    BY <1>3, <2>6 DEF SweepFits, ListSnapshots, Calling
  <2> HIDE DEF w
  <2> QED
    BY <1>0, <2>1, <2>5, <2>6, <2>7, ContinueFacts
<1> QED
  BY <1>1, <1>2, <1>3

\* The updates that come next are among those to make.
LEMMA DueFacts == Due \subseteq sweep.fixes
  BY DEF Due

\* What the updates have in hand keeps its type.
LEMMA FixType ==
  ASSUME SyncTypeOK, SweepFits, FixAccepted
  PROVE  started' \in BOOLEAN /\ sweep' \in Sweep \cup {NoSweep} /\ SweepFits'
<1>0. UNCHANGED thread /\ StoreTypeOK /\ sweep \in Sweep /\ sweep # NoSweep
  BY DEF FixAccepted, Calling, SyncTypeOK, TypeOK
<1>1. PICK f \in Due :
        /\ Fresh(f.key, f.snap.rv)
        /\ LET after == [why |-> "valid", key |-> f.key, snap |-> Returned(f.key, Verdict(f))]
           IN Continue([sweep EXCEPT
                !.fixes = (@ \ {f}) \cup
                  {x \in {after} : f.why = "moved" /\ x.snap.phase # "Completed"}])
  BY DEF FixAccepted
<1> DEFINE after == [why |-> "valid", key |-> f.key, snap |-> Returned(f.key, Verdict(f))]
           fixes == (sweep.fixes \ {f}) \cup
                      {x \in {after} : f.why = "moved" /\ x.snap.phase # "Completed"}
           w == [sweep EXCEPT !.fixes = fixes]
<1>2. sweep.fixes \subseteq Fix /\ f \in Fix
  BY <1>0, <1>1, DueFacts DEF Sweep
<1>3. f.key \in Names /\ Returned(f.key, Verdict(f)) \in Snapshot
  BY <1>0, <1>1, <1>2, VerdictFacts, ReturnedType DEF Fresh
<1>4. after \in Fix
  BY <1>3, Whys DEF Fix
<1>5. fixes \subseteq Fix
  BY <1>2, <1>4
<1>6. Continue(w)
  BY <1>1
<1> HIDE DEF fixes
<1>7. /\ w \in Sweep /\ w.call = sweep.call /\ w.left = sweep.left
      /\ w.recover = sweep.recover /\ w.restoring = sweep.restoring
  BY <1>0, <1>5 DEF Sweep
<1> HIDE DEF w
<1>8. /\ w.call = "objects" => w.left # <<>>
      /\ w.call \in {"create", "get", "complete"} => w.recover /\ w.restoring \in Restoring
      /\ w.call = "complete" => w.restoring.snap \in Snapshot
      /\ w.recover => ~started
  BY <1>0, <1>7 DEF SweepFits
<1> QED
  BY <1>0, <1>6, <1>7, <1>8, ContinueFacts

\* The sweep goes on with what is left to do.
LEMMA TurnType ==
  ASSUME SyncTypeOK, SweepFits, UNCHANGED thread, sweep # NoSweep,
         NEW w \in Sweep, w.call = "fix", w.recover = sweep.recover, Continue(w)
  PROVE  started' \in BOOLEAN /\ sweep' \in Sweep \cup {NoSweep} /\ SweepFits'
  BY ContinueFacts DEF SweepFits

\* It goes on with the next orphan.
LEMMA NextOrphanType ==
  ASSUME SyncTypeOK, SweepFits, UNCHANGED thread, sweep # NoSweep, NextOrphan
  PROVE  started' \in BOOLEAN /\ sweep' \in Sweep \cup {NoSweep} /\ SweepFits'
<1> DEFINE w == [sweep EXCEPT !.call = "fix", !.restoring = NoSnap]
<1>1. w \in Sweep /\ w.call = "fix" /\ w.recover = sweep.recover
  BY DEF SyncTypeOK, Sweep
<1>2. Continue(w)
  BY DEF NextOrphan
<1> HIDE DEF w
<1> QED
  BY <1>1, <1>2, TurnType

\* What removing and downloading orphans leaves in hand.
LEMMA OrphanType ==
  ASSUME SyncTypeOK, SweepFits, RemoveOrphan \/ DownloadOrphan
  PROVE  /\ started' \in BOOLEAN /\ sweep' \in Sweep \cup {NoSweep} /\ SweepFits'
         /\ sweep' # NoSweep => sweep'.call # "complete" /\ sweep'.fixes = sweep.fixes
<1>0. /\ UNCHANGED thread /\ StoreTypeOK /\ sweep \in Sweep /\ sweep # NoSweep
      /\ sweep.call = "fix"
  BY DEF RemoveOrphan, DownloadOrphan, OrphansAreNext, Calling, SyncTypeOK, TypeOK
<1>1. ASSUME NEW o \in sweep.orphans, Continue([sweep EXCEPT !.orphans = @ \ {o}])
      PROVE  /\ started' \in BOOLEAN /\ sweep' \in Sweep \cup {NoSweep} /\ SweepFits'
             /\ sweep' # NoSweep => sweep'.call # "complete" /\ sweep'.fixes = sweep.fixes
  <2> DEFINE w == [sweep EXCEPT !.orphans = @ \ {o}]
  <2>1. /\ w \in Sweep /\ w.call = "fix" /\ w.recover = sweep.recover
        /\ w.fixes = sweep.fixes /\ Continue(w)
    BY <1>0, <1>1 DEF Sweep
  <2> HIDE DEF w
  <2>2. sweep' = w
    BY <2>1 DEF Continue
  <2> QED
    BY <1>0, <2>1, <2>2, TurnType
<1>2. CASE RemoveOrphan
  BY <1>1, <1>2 DEF RemoveOrphan
<1>3. CASE DownloadOrphan
  <2>1. PICK o \in sweep.orphans :
          \/ /\ objects[o.bucket][o.key] # NoObject
             /\ Continue([sweep EXCEPT !.orphans = @ \ {o}, !.call = "create",
                  !.restoring = [orphan |-> [o EXCEPT !.file.json = objects[o.bucket][o.key].json],
                                 snap |-> NoSnap]])
          \/ Continue([sweep EXCEPT !.orphans = @ \ {o}])
    BY <1>3 DEF DownloadOrphan
  <2>2. CASE Continue([sweep EXCEPT !.orphans = @ \ {o}])
    BY <1>1, <2>2
  <2>3. CASE objects[o.bucket][o.key] # NoObject /\ ~Continue([sweep EXCEPT !.orphans = @ \ {o}])
    <3> DEFINE file == objects[o.bucket][o.key]
               p == [o EXCEPT !.file.json = file.json]
               r == [orphan |-> p, snap |-> NoSnap]
               w == [sweep EXCEPT !.orphans = @ \ {o}, !.call = "create", !.restoring = r]
    <3>1. o \in Orphan
      BY <1>0 DEF Sweep
    <3>2. file \in Object
      BY <1>0, <2>3, <3>1 DEF Orphan, StoreTypeOK
    <3>3. p \in Orphan
      BY <3>1, <3>2 DEF Orphan, Object
    <3>4. r \in Restoring
      BY <3>3 DEF Restoring
    <3>5. Continue(w)
      BY <2>1, <2>3
    <3>6. sweep.recover
      BY <1>3 DEF DownloadOrphan
    <3> HIDE DEF r
    <3>7. /\ w \in Sweep /\ w.call = "create" /\ w.recover = sweep.recover
          /\ w.restoring = r /\ w.fixes = sweep.fixes
      BY <1>0, <3>4 DEF Sweep, Restoring
    <3> HIDE DEF w
    <3>8. sweep' = w
      BY <3>5 DEF Continue
    <3> QED
      BY <1>0, <3>4, <3>5, <3>6, <3>7, <3>8, ContinueFacts DEF SweepFits
  <2> QED
    BY <2>1, <2>2, <2>3
<1> QED
  BY <1>2, <1>3

\* The copy of a recovered Snapshot is a Snapshot.
LEMMA RestoredFacts ==
  ASSUME SyncConstants, StoreTypeOK, NEW s \in Snapshot, NEW file \in Object
  PROVE  /\ Restored(s, file) \in Snapshot /\ Restored(s, file).rv = s.rv
         /\ Like(Restored(s, file), s)
<1>1. /\ file.stamp \in Nat /\ DefaultTTL \in Nat /\ now \in Nat
  BY DEF Object, SyncConstants, Constants, StoreAssumption, StoreTypeOK
<1>2. Later(s.until, now + DefaultTTL) \in Nat
  BY <1>1 DEF Later, Snapshot
<1> QED
  BY <1>1, <1>2 DEF Restored, Snapshot, Like

\* What recovering a Snapshot has in hand keeps its type.
LEMMA RecoverType ==
  ASSUME SyncConstants, SyncTypeOK, SweepFits, CreateRestored \/ GetRestored \/ CompleteRestored
  PROVE  started' \in BOOLEAN /\ sweep' \in Sweep \cup {NoSweep} /\ SweepFits'
<1>0. /\ UNCHANGED thread /\ StoreTypeOK /\ sweep \in Sweep /\ sweep # NoSweep
      /\ sweep.recover /\ ~started /\ sweep.restoring \in Restoring
  BY DEF CreateRestored, GetRestored, CompleteRestored, Calling, SyncTypeOK, TypeOK, SweepFits
<1>1. CASE NextOrphan
  BY <1>0, <1>1, NextOrphanType
<1>2. CASE CreateRestored /\ ~NextOrphan
  <2> DEFINE w == [sweep EXCEPT !.call = "get"]
  <2>1. Continue(w)
    BY <1>2 DEF CreateRestored
  <2>2. /\ w \in Sweep /\ w.call = "get" /\ w.recover = sweep.recover
        /\ w.restoring = sweep.restoring
    BY <1>0 DEF Sweep
  <2> HIDE DEF w
  <2> QED
    BY <1>0, <2>1, <2>2, ContinueFacts
<1>3. CASE GetRestored /\ ~NextOrphan
  <2> DEFINE o == sweep.restoring.orphan
             x == Restored(lister[o.key], o.file)
             r == [sweep.restoring EXCEPT !.snap = x]
             w == [sweep EXCEPT !.call = "complete", !.restoring.snap = x]
  <2>1. lister[o.key] # NoSnap /\ Continue(w)
    BY <1>3 DEF GetRestored
  <2>2. o.key \in Names /\ o.file \in Object
    BY <1>0 DEF Restoring, Orphan
  <2>3. x \in Snapshot
    BY <1>0, <2>1, <2>2, RestoredFacts DEF StoreTypeOK
  <2> HIDE DEF x
  <2>4. r \in Restoring /\ r.snap = x
    BY <1>0, <2>3 DEF Restoring
  <2>5. w = [sweep EXCEPT !.call = "complete", !.restoring = r]
    BY <1>0 DEF Sweep
  <2> HIDE DEF r
  <2>6. /\ w \in Sweep /\ w.call = "complete" /\ w.recover = sweep.recover /\ w.restoring = r
    BY <1>0, <2>4, <2>5 DEF Sweep, Restoring
  <2> HIDE DEF w
  <2> QED
    BY <1>0, <2>1, <2>3, <2>4, <2>6, ContinueFacts
<1> QED
  BY <1>1, <1>2, <1>3 DEF CompleteRestored

\* What an update of the sweep stores.
LEMMA FixWrites ==
  ASSUME SyncConstants, SyncTypeOK, FixAccepted \/ FixUnanswered
  PROVE  \E f \in sweep.fixes :
           /\ f \in Fix /\ Fresh(f.key, f.snap.rv) /\ Update(f.key, Verdict(f))
           /\ sweep' # NoSweep =>
                /\ sweep'.fixes \subseteq sweep.fixes \cup
                     {[why |-> "valid", key |-> f.key, snap |-> Returned(f.key, Verdict(f))]}
                /\ f.why # "moved" => sweep'.fixes \subseteq sweep.fixes
                /\ sweep'.files = sweep.files /\ sweep'.orphans = sweep.orphans
                /\ sweep'.call = "fix"
<1>1. sweep \in Sweep /\ sweep # NoSweep /\ sweep.call = "fix"
  BY DEF FixAccepted, FixUnanswered, Calling, SyncTypeOK
<1>2. sweep.fixes \subseteq Fix
  BY <1>1 DEF Sweep
<1>3. CASE FixAccepted
  <2>1. PICK f \in Due :
          /\ Fresh(f.key, f.snap.rv) /\ Update(f.key, Verdict(f))
          /\ LET after == [why |-> "valid", key |-> f.key, snap |-> Returned(f.key, Verdict(f))]
             IN Continue([sweep EXCEPT
                  !.fixes = (@ \ {f}) \cup
                    {x \in {after} : f.why = "moved" /\ x.snap.phase # "Completed"}])
    BY <1>3 DEF FixAccepted
  <2> DEFINE after == [why |-> "valid", key |-> f.key, snap |-> Returned(f.key, Verdict(f))]
             fixes == (sweep.fixes \ {f}) \cup
                        {x \in {after} : f.why = "moved" /\ x.snap.phase # "Completed"}
  <2>2. /\ fixes \subseteq sweep.fixes \cup {after}
        /\ f.why # "moved" => fixes \subseteq sweep.fixes
    OBVIOUS
  <2>3. sweep' = [sweep EXCEPT !.fixes = fixes]
    BY <2>1 DEF Continue
  <2> HIDE DEF fixes
  <2>4. /\ sweep'.fixes = fixes /\ sweep'.call = "fix"
        /\ sweep'.files = sweep.files /\ sweep'.orphans = sweep.orphans
    BY <1>1, <2>3 DEF Sweep
  <2>5. f \in sweep.fixes
    BY DueFacts
  <2> QED
    BY <1>2, <2>1, <2>2, <2>4, <2>5
<1>4. CASE FixUnanswered
  BY <1>2, <1>4, DueFacts DEF FixUnanswered, Finish
<1> QED
  BY <1>3, <1>4

\* Files stay files when one of them changes.
LEMMA FilesType ==
  ASSUME NEW fs \in Files, NEW b \in Buckets, NEW n \in Names, NEW x \in Object \cup {NoObject}
  PROVE  [fs EXCEPT ![b][n] = x] \in Files
<1>1. [fs[b] EXCEPT ![n] = x] \in [Names -> Object \cup {NoObject}]
  BY DEF Files
<1> QED
  BY <1>1 DEF Files

\* Every step of the sweep keeps the types of what it shares.
LEMMA SyncerType ==
  ASSUME SyncConstants, SyncTypeOK, SweepFits, SyncerStep \/ SyncerFault \/ LoseObject
  PROVE  TypeOK'
<1> USE DEF storeVars, apiVars, queueVars, fileVars
<1>0. TypeOK /\ StoreTypeOK
  BY DEF SyncTypeOK, TypeOK
<1>1. CASE UNCHANGED vars
  BY <1>0, <1>1 DEF vars, TypeOK, StoreTypeOK
<1>2. ASSUME NEW kind \in BudgetKinds, Spend(kind)
      PROVE  budget' \in [BudgetKinds -> Nat]
  BY <1>0, <1>2, SpendType
<1>3. "fault" \in BudgetKinds /\ "loss" \in BudgetKinds
  BY DEF BudgetKinds
<1>4. CASE FixAccepted \/ FixUnanswered
  <2>1. PICK f \in Fix : Update(f.key, Verdict(f))
    BY <1>4, FixWrites
  <2>2. /\ snaps' \in [Names -> Snapshot \cup {NoSnap}]
        /\ ver' \in [Names -> Nat] /\ watch' \in [Names -> Seq(Event)]
    BY <1>0, <2>1, VerdictFacts, UpdateType
  <2>3. /\ UNCHANGED <<lister, queueVars, fileVars, now, thread>>
        /\ budget' \in [BudgetKinds -> Nat]
    BY <1>0, <1>2, <1>3, <1>4 DEF FixAccepted, FixUnanswered, StoreTypeOK
  <2> QED
    BY <1>0, <2>2, <2>3 DEF TypeOK, StoreTypeOK
<1>5. CASE SweepFailed
  BY <1>0, <1>2, <1>3, <1>5 DEF SweepFailed, TypeOK, StoreTypeOK
<1>6. CASE RemoveOrphan
  <2>1. PICK o \in sweep.orphans :
          \/ objects' = [objects EXCEPT ![o.bucket][o.key] = NoObject] /\ UNCHANGED budget
          \/ Spend("fault") /\ UNCHANGED objects
    BY <1>6 DEF RemoveOrphan
  <2>2. objects' \in Files
    <3>1. o.bucket \in Buckets /\ o.key \in Names
      BY <1>6 DEF RemoveOrphan, OrphansAreNext, Calling, SyncTypeOK, Sweep, Orphan
    <3>2. objects \in Files
      BY <1>0 DEF StoreTypeOK, Files
    <3> QED
      BY <2>1, <3>1, <3>2, FilesType
  <2>3. budget' \in [BudgetKinds -> Nat]
    BY <1>0, <1>2, <1>3, <2>1 DEF StoreTypeOK
  <2> QED
    BY <1>0, <1>6, <2>2, <2>3 DEF RemoveOrphan, Files, TypeOK, StoreTypeOK
<1>7. CASE DownloadOrphan
  <2>1. budget' \in [BudgetKinds -> Nat]
    BY <1>0, <1>2, <1>3, <1>7 DEF DownloadOrphan, StoreTypeOK
  <2> QED
    BY <1>0, <1>7, <2>1 DEF DownloadOrphan, TypeOK, StoreTypeOK
<1>8. CASE CreateRestored
  <2> DEFINE o == sweep.restoring.orphan
  <2>1. o.key \in Names /\ o.file.json \in Snapshot
    BY <1>8 DEF CreateRestored, Calling, SweepFits, Restoring, Orphan, Object
  <2>2. Create(o.key, o.file.json) \/ UNCHANGED apiVars
    BY <1>8 DEF CreateRestored
  <2> HIDE DEF o
  <2>3. /\ snaps' \in [Names -> Snapshot \cup {NoSnap}]
        /\ ver' \in [Names -> Nat] /\ watch' \in [Names -> Seq(Event)]
    BY <1>0, <2>1, <2>2, CreateType DEF StoreTypeOK
  <2>4. budget' \in [BudgetKinds -> Nat]
    BY <1>0, <1>2, <1>3, <1>8 DEF CreateRestored, StoreTypeOK
  <2> QED
    BY <1>0, <1>8, <2>3, <2>4 DEF CreateRestored, TypeOK, StoreTypeOK
<1>9. CASE GetRestored
  <2> DEFINE o == sweep.restoring.orphan
             x == Restored(lister[o.key], o.file)
  <2>1. o.key \in Names /\ o.file \in Object
    BY <1>9 DEF GetRestored, Calling, SweepFits, Restoring, Orphan
  <2>2. lister[o.key] # NoSnap => x \in Snapshot
    BY <1>0, <2>1, RestoredFacts DEF StoreTypeOK
  <2>3. UNCHANGED lister \/ (lister[o.key] # NoSnap /\ lister' = [lister EXCEPT ![o.key] = x])
    BY <1>9 DEF GetRestored
  <2> HIDE DEF x, o
  <2>4. lister' \in [Names -> Snapshot \cup {NoSnap}]
    BY <1>0, <2>2, <2>3 DEF StoreTypeOK
  <2> QED
    BY <1>0, <1>9, <2>4 DEF GetRestored, TypeOK, StoreTypeOK
<1>10. CASE CompleteRestored
  <2> DEFINE k == sweep.restoring.orphan.key
             x == Marked(sweep.restoring.snap, "Completed", "")
  <2>1. k \in Names /\ x \in Snapshot
    BY <1>10 DEF CompleteRestored, Calling, SweepFits, Restoring, Orphan, Marked, Snapshot,
                Phases, Reasons
  <2>2. Update(k, x) \/ UNCHANGED apiVars
    BY <1>10 DEF CompleteRestored
  <2> HIDE DEF k, x
  <2>3. /\ snaps' \in [Names -> Snapshot \cup {NoSnap}]
        /\ ver' \in [Names -> Nat] /\ watch' \in [Names -> Seq(Event)]
    BY <1>0, <2>1, <2>2, UpdateType DEF StoreTypeOK
  <2>4. budget' \in [BudgetKinds -> Nat]
    BY <1>0, <1>2, <1>3, <1>10 DEF CompleteRestored, StoreTypeOK
  <2> QED
    BY <1>0, <1>10, <2>3, <2>4 DEF CompleteRestored, TypeOK, StoreTypeOK
<1>11. CASE LoseObject
  <2>1. PICK b \in Buckets, n \in Names :
          /\ objects[b][n] # NoObject
          /\ \/ objects' = [objects EXCEPT ![b][n] = NoObject]
             \/ \E c \in Buckets \ {b} :
                  objects' = [objects EXCEPT ![b][n] = NoObject, ![c][n] = objects[b][n]]
    BY <1>11 DEF LoseObject
  <2>2. objects' \in Files
    <3>1. objects \in Files
      BY <1>0 DEF StoreTypeOK, Files
    <3>2. PICK x : x = objects[b][n]
      OBVIOUS
    <3>3. x \in Object \cup {NoObject}
      BY <1>0, <3>2 DEF StoreTypeOK
    <3>4. PICK fs \in Files : fs = [objects EXCEPT ![b][n] = NoObject]
      BY <3>1, FilesType
    <3>5. CASE objects' = fs
      BY <3>5
    <3>6. CASE \E c \in Buckets \ {b} : objects' = [fs EXCEPT ![c][n] = x]
      <4>1. PICK c \in Buckets : objects' = [fs EXCEPT ![c][n] = x]
        BY <3>6
      <4>2. [fs EXCEPT ![c][n] = x] \in Files
        BY <3>3, FilesType
      <4> QED
        BY <4>1, <4>2
    <3> QED
      BY <2>1, <3>2, <3>4, <3>5, <3>6
  <2>3. budget' \in [BudgetKinds -> Nat]
    BY <1>2, <1>3, <1>11 DEF LoseObject
  <2> QED
    BY <1>0, <1>11, <2>2, <2>3 DEF LoseObject, Files, TypeOK, StoreTypeOK
<1> QED
  BY <1>1, <1>4, <1>5, <1>6, <1>7, <1>8, <1>9, <1>10, <1>11
     DEF SyncerStep, SyncerFault, StartSweep, ListBucket, ListSnapshots, FixRefused, EndSweep

\* The steps of a sweep keep what it has in hand.
LEMMA SyncerFits ==
  ASSUME SyncConstants, SyncTypeOK, SweepFits, SyncerStep \/ SyncerFault \/ LoseObject
  PROVE  started' \in BOOLEAN /\ sweep' \in Sweep \cup {NoSweep} /\ SweepFits'
<1>1. CASE LoseObject
  BY <1>1 DEF LoseObject, SyncTypeOK, SweepFits, Busy
<1>2. CASE FixRefused \/ FixUnanswered \/ SweepFailed \/ EndSweep
  BY <1>2, FinishFacts DEF FixRefused, FixUnanswered, SweepFailed, EndSweep
<1> QED
  BY <1>1, <1>2, ReadingType, FixType, OrphanType, RecoverType DEF SyncerStep, SyncerFault

\* The process starts: its first sweep, or its threads.
LEMMA BootFits ==
  ASSUME SyncConstants, Boot, \A t \in Threads : ~Busy(t)'
  PROVE  started' \in BOOLEAN /\ sweep' \in Sweep \cup {NoSweep} /\ SweepFits'
<1>1. FALSE \in BOOLEAN /\ RestoreSnapshots \in BOOLEAN
  BY DEF SyncConstants, SyncerAssumption
<1>2. /\ sweep' \in Sweep \cup {NoSweep}
      /\ sweep' # NoSweep => sweep'.call = "objects" /\ sweep'.left # <<>>
  BY <1>1, NewSweepFacts DEF Boot
<1> QED
  BY <1>2 DEF Boot, SweepFits, Busy

\* Every step keeps the types.
LEMMA SyncNextType ==
  ASSUME SyncConstants, SyncTypeOK, SweepFits, [SyncNext]_syncVars
  PROVE  SyncTypeOK' /\ SweepFits'
<1>0. TypeOK /\ Constants
  BY DEF SyncTypeOK, SyncConstants
<1>1. CASE UNCHANGED syncVars
  <2>1. UNCHANGED vars /\ UNCHANGED <<started, sweep>>
    BY <1>1 DEF syncVars
  <2>2. TypeOK' /\ UNCHANGED thread
    BY <1>0, <2>1, NextType DEF vars
  <2> QED
    BY <2>1, <2>2 DEF SyncTypeOK, SweepFits, Busy
<1>2. CASE Environment /\ UNCHANGED <<started, sweep>>
  BY <1>0, <1>2, EnvironmentType DEF Environment, SyncTypeOK, SweepFits, Busy
<1>3. CASE ControllerStep
  <2>1. TypeOK'
    BY <1>0, <1>3, InformerType, ThreadType DEF ControllerStep
  <2>2. started \/ UNCHANGED thread
    BY <1>0, <1>3, InformerFacts DEF ControllerStep
  <2> QED
    BY <1>3, <2>1, <2>2 DEF ControllerStep, SyncTypeOK, SweepFits, Busy
<1>4. CASE SyncerStep \/ SyncerFault \/ LoseObject
  BY <1>4, SyncerType, SyncerFits DEF SyncTypeOK
<1>5. CASE Restart /\ Boot
  <2>1. TypeOK'
    BY <1>0, <1>5, RestartType
  <2>2. \A t \in Threads : ~Busy(t)'
    BY <1>5 DEF Restart, Busy
  <2> QED
    BY <1>5, <2>1, <2>2, BootFits DEF SyncTypeOK
<1> QED
  BY <1>1, <1>2, <1>3, <1>4, <1>5 DEF SyncNext

\* At the start the first sweep begins, or the threads do.
LEMMA SyncInitType == SyncConstants /\ SyncInit => SyncTypeOK /\ SweepFits
<1> SUFFICES ASSUME SyncConstants, SyncInit PROVE SyncTypeOK /\ SweepFits
  OBVIOUS
<1>1. TypeOK
  BY InitType DEF SyncInit, SyncConstants
<1>2. FALSE \in BOOLEAN /\ RestoreSnapshots \in BOOLEAN
  BY DEF SyncConstants, SyncerAssumption
<1>3. /\ sweep \in Sweep \cup {NoSweep}
      /\ sweep # NoSweep => sweep.call = "objects" /\ sweep.left # <<>>
  BY <1>2, NewSweepFacts DEF SyncInit
<1>4. \A t \in Threads : ~Busy(t)
  BY DEF SyncInit, Init, Busy
<1> QED
  BY <1>1, <1>3, <1>4 DEF SyncInit, SyncTypeOK, SweepFits

\* The state always has its types, also what a sweep carries from one call to
\* the next.
THEOREM SyncTypeCorrect == SyncSpec => []SyncTypeOK
<1>0. SyncConstants
  BY StoreAssumption, ThreadAssumption, SyncerAssumption DEF Constants, SyncConstants
<1>1. SyncInit => SyncTypeOK /\ SweepFits
  BY <1>0, SyncInitType
<1>2. SyncTypeOK /\ SweepFits /\ [SyncNext]_syncVars => SyncTypeOK' /\ SweepFits'
  BY <1>0, SyncNextType
<1> QED
  BY <1>1, <1>2, PTL DEF SyncSpec

-----------------------------------------------------------------------------
(* The copies, and who takes a Snapshot. A step is described by what it    *)
(* does to the store, the lister, the threads and the sweep.               *)

\* s is a copy that agreed with the store, or of the version now stored.
Current(n, s) == Agrees(n, s) \/ (snaps'[n] # NoSnap /\ Like(s, snaps'[n]))

\* The lister gets what an event or the store has, or keeps its version.
ListerMove(n) ==
  lister'[n] # NoSnap =>
    \/ lister[n] # NoSnap /\ Like(lister'[n], lister[n])
    \/ \E j \in DOMAIN watch[n] : lister'[n] = watch[n][j].snap
    \/ lister'[n] = snaps'[n]

ThreadMove(t) == thread'[t] # Idle => Current(thread'[t].key, thread'[t].snap)

\* A thread keeps its key and its version, or stops; it does not start.
ThreadStays(t) ==
  thread'[t] # Idle =>
    /\ Busy(t) /\ thread'[t].key = thread[t].key
    /\ Like(thread'[t].snap, thread[t].snap)
    /\ thread'[t].pc \in TakingSteps => thread[t].pc \in TakingSteps

SweepMove ==
  sweep' # NoSweep =>
    /\ \A f \in sweep'.fixes : Current(f.key, f.snap) /\ HasEnded(f.snap)
    /\ sweep'.call = "complete" =>
         Current(sweep'.restoring.orphan.key, sweep'.restoring.snap)

\* A current copy agrees with the store after the step.
LEMMA CurrentLater ==
  ASSUME TypeOK, TypeOK', NEW n \in Names, StoreMove(n), NEW s \in Snapshot, Current(n, s)
  PROVE  Agrees(n, s)'
<1>1. /\ ver[n] \in Nat /\ ver'[n] \in Nat /\ s.rv \in Nat /\ s.uid \in Nat
      /\ snaps'[n] # NoSnap => snaps'[n] \in Snapshot
  BY DEF TypeOK, StoreTypeOK, Snapshot
<1>2. CASE Agrees(n, s)
  <2>1. s.uid <= s.rv /\ s.rv <= ver[n]
    BY <1>2 DEF Agrees
  <2>2. ASSUME snaps'[n] # NoSnap, snaps'[n].rv = s.rv
        PROVE  snaps'[n].uid = s.uid /\ s.phase = snaps'[n].phase
    <3>1. snaps'[n] = snaps[n]
      BY <1>1, <2>1, <2>2 DEF StoreMove
    <3> QED
      BY <1>2, <2>2, <3>1 DEF Agrees, Fresh, SameResource, Exists
  <2>3. s.rv <= ver'[n]
    BY <1>1, <2>1 DEF StoreMove
  <2> QED
    BY <2>1, <2>2, <2>3 DEF Agrees, Fresh, Exists, SameResource
<1>3. CASE snaps'[n] # NoSnap /\ Like(s, snaps'[n])
  BY <1>1, <1>3 DEF StoreMove, Like, Agrees, Fresh, Exists, SameResource, Snapshot
<1> QED
  BY <1>2, <1>3 DEF Current

\* A copy of what is stored is current.
LEMMA StoredCurrent ==
  ASSUME TypeOK, CopiesAgree, NEW n \in Names, Exists(n), NEW s, Like(s, snaps[n])
  PROVE  Agrees(n, s)
<1>1. snaps[n].uid <= snaps[n].rv /\ snaps[n].rv = ver[n] /\ ver[n] \in Nat
  BY DEF CopiesAgree, TypeOK, StoreTypeOK
<1> QED
  BY <1>1 DEF Like, Agrees, Fresh, SameResource

\* The copies still agree after such a step.
LEMMA CopiesLater ==
  ASSUME TypeOK, TypeOK', CopiesAgree,
         \A n \in Names : StoreMove(n) /\ WatchStep(n) /\ ListerMove(n),
         \A t \in Threads : ThreadMove(t)
  PROVE  CopiesAgree'
<1>0. ASSUME NEW n \in Names, NEW s \in Snapshot, Current(n, s)
      PROVE  Agrees(n, s)'
  BY <1>0, CurrentLater
<1>1. ASSUME NEW n \in Names, NEW i \in DOMAIN watch'[n]
      PROVE  Agrees(n, watch[n][i].snap)'
  <2>1. watch'[n] \in Seq(Event)
    BY DEF TypeOK, StoreTypeOK
  <2>2. watch'[n][i] \in Event
    BY <1>1, <2>1
  <2>3. PICK s \in Snapshot : s = watch'[n][i].snap
    BY <2>2 DEF Event
  <2>4. CASE \E j \in DOMAIN watch[n] : watch'[n][i] = watch[n][j]
    BY <1>0, <2>3, <2>4 DEF CopiesAgree, Current
  <2>5. CASE snaps'[n] # NoSnap /\ watch'[n][i].snap = snaps'[n]
    BY <1>0, <2>3, <2>5 DEF Current, Like
  <2>6. CASE Exists(n) /\ watch'[n][i].snap = snaps[n]
    BY <1>0, <2>3, <2>6, StoredCurrent DEF Current, Like
  <2> QED
    BY <2>4, <2>5, <2>6 DEF WatchStep
<1>2. ASSUME NEW n \in Names, lister'[n] # NoSnap
      PROVE  Agrees(n, lister[n])'
  <2>1. PICK s \in Snapshot : s = lister'[n]
    BY <1>2 DEF TypeOK, StoreTypeOK
  <2>2. CASE lister[n] # NoSnap /\ Like(s, lister[n])
    <3>1. Agrees(n, s)
      BY <2>2 DEF CopiesAgree, Agrees, Like, Fresh, SameResource
    <3> QED
      BY <1>0, <2>1, <3>1 DEF Current
  <2>3. CASE \E j \in DOMAIN watch[n] : s = watch[n][j].snap
    BY <1>0, <2>1, <2>3 DEF CopiesAgree, Current
  <2>4. CASE s = snaps'[n]
    BY <1>0, <1>2, <2>1, <2>4 DEF Current, Like
  <2> QED
    BY <1>2, <2>1, <2>2, <2>3, <2>4 DEF ListerMove
<1>3. ASSUME NEW t \in Threads, thread'[t] # Idle
      PROVE  Agrees(thread[t].key, thread[t].snap)'
  <2>1. PICK n \in Names, s \in Snapshot : n = thread'[t].key /\ s = thread'[t].snap
    BY <1>3 DEF TypeOK, Task
  <2>2. Current(n, s)
    BY <1>3, <2>1 DEF ThreadMove
  <2> QED
    BY <1>0, <2>1, <2>2
<1> QED
  BY <1>1, <1>2, <1>3 DEF CopiesAgree, Exists, Busy, StoreMove

\* So do those of the sweep.
LEMMA SweepLater ==
  ASSUME TypeOK, SyncTypeOK', SweepFits', \A n \in Names : StoreMove(n), SweepMove
  PROVE  SweepAgrees'
<1>0. ASSUME NEW n \in Names, NEW s \in Snapshot, Current(n, s)
      PROVE  Agrees(n, s)'
  BY <1>0, CurrentLater DEF SyncTypeOK
<1>1. ASSUME sweep' # NoSweep, NEW f \in sweep'.fixes
      PROVE  Agrees(f.key, f.snap)' /\ HasEnded(f.snap)
  <2>1. f \in Fix
    BY <1>1 DEF SyncTypeOK, Sweep
  <2>2. f.key \in Names /\ f.snap \in Snapshot
    BY <2>1, VerdictFacts
  <2> QED
    BY <1>0, <1>1, <2>2 DEF SweepMove
<1>2. ASSUME sweep' # NoSweep, sweep'.call = "complete"
      PROVE  Agrees(sweep.restoring.orphan.key, sweep.restoring.snap)'
  <2>1. PICK n \in Names, s \in Snapshot :
          n = sweep'.restoring.orphan.key /\ s = sweep'.restoring.snap
    BY <1>2 DEF SweepFits, Restoring, Orphan
  <2>2. Current(n, s)
    BY <1>2, <2>1 DEF SweepMove
  <2> QED
    BY <1>0, <2>1, <2>2
<1> QED
  BY <1>1, <1>2 DEF SweepAgrees, HasEnded

\* Who takes a Snapshot keeps it, when nobody starts and nothing that is
\* InProgress moves.
LEMMA TakersLater ==
  ASSUME TypeOK, CopiesAgree, OneThreadPerKey, TakerOwnsResource,
         \A n \in Names : StoreMove(n) /\ CalmStep(n),
         \A t \in Threads : ThreadStays(t)
  PROVE  OneThreadPerKey' /\ TakerOwnsResource'
<1>1. OneThreadPerKey'
  BY DEF ThreadStays, OneThreadPerKey, Busy
<1>2. ASSUME NEW t \in Threads, NEW n \in Names,
             thread'[t] # Idle, thread'[t].key = n, thread'[t].pc \in TakingSteps,
             snaps'[n] # NoSnap, snaps'[n].uid = thread'[t].snap.uid
      PROVE  snaps'[n].phase = "InProgress"
  <2>1. TakerOf(t, n) /\ thread[t].snap.uid = snaps'[n].uid
    BY <1>2 DEF ThreadStays, TakerOf, Like
  <2>2. /\ thread[t].snap \in Snapshot /\ ver[n] \in Nat
        /\ Agrees(n, thread[t].snap)
    BY <2>1 DEF TakerOf, CopiesAgree, TypeOK, StoreTypeOK, Busy, Task
  <2>3. snaps'[n].uid # ver[n] + 1
    BY <2>1, <2>2 DEF Agrees, Snapshot
  <2>4. Exists(n) /\ snaps'[n].uid = snaps[n].uid
    BY <1>2, <2>3 DEF StoreMove
  <2>5. snaps[n].phase = "InProgress"
    BY <2>1, <2>4 DEF TakerOwnsResource, SameResource
  <2> QED
    BY <1>2, <2>4, <2>5 DEF CalmStep
<1> QED
  BY <1>1, <1>2 DEF TakerOwnsResource, TakerOf, Busy, SameResource, Exists

-----------------------------------------------------------------------------
(* What the threads do, in these terms.                                    *)

\* A thread that keeps its version has a current copy.
LEMMA StaysMove ==
  ASSUME CopiesAgree, NEW t \in Threads, ThreadStays(t)
  PROVE  ThreadMove(t)
  BY DEF ThreadStays, ThreadMove, CopiesAgree, Current, Agrees, Like, Fresh, SameResource

\* A thread that does nothing, or ends.
LEMMA StaysQuiet ==
  ASSUME NEW t \in Threads, thread'[t] = thread[t] \/ thread'[t] = Idle
  PROVE  ThreadStays(t)
  BY DEF ThreadStays, Busy, Like

\* A thread goes on with the version it has.
LEMMA GotoStays ==
  ASSUME TypeOK, NEW t \in Threads, Busy(t), NEW pc, NEW x, Goto(t, pc, x),
         Like(x, thread[t].snap), pc \in TakingSteps => thread[t].pc \in TakingSteps
  PROVE  \A u \in Threads : ThreadStays(u)
<1>1. thread \in [Threads -> Task \cup {Idle}] /\ thread[t] \in Task
  BY DEF TypeOK, Busy
<1>2. /\ thread'[t] = [thread[t] EXCEPT !.pc = pc, !.snap = x]
      /\ \A u \in Threads \ {t} : thread'[u] = thread[u]
  BY <1>1 DEF Goto
<1>3. thread'[t].pc = pc /\ thread'[t].snap = x /\ thread'[t].key = thread[t].key
  BY <1>1, <1>2 DEF Task
<1>4. ThreadStays(t)
  BY <1>3 DEF ThreadStays
<1>5. ASSUME NEW u \in Threads \ {t} PROVE ThreadStays(u)
  BY <1>2, StaysQuiet
<1> QED
  BY <1>4, <1>5

\* A lister that is not touched, or by the informer.
LEMMA ListerMoves ==
  ASSUME NEW n \in Names, ListerStep(n) \/ UNCHANGED lister
  PROVE  ListerMove(n)
  BY DEF ListerStep, ListerMove, Like

\* A step after which all of this holds.
LEMMA StaysInv ==
  ASSUME TypeOK, TypeOK', CopiesAgree, OneThreadPerKey, TakerOwnsResource,
         \A n \in Names : StoreMove(n) /\ WatchStep(n) /\ CalmStep(n) /\ ListerMove(n),
         \A t \in Threads : ThreadStays(t)
  PROVE  CopiesAgree' /\ OneThreadPerKey' /\ TakerOwnsResource'
<1>1. \A t \in Threads : ThreadMove(t)
  BY StaysMove
<1> QED
  BY <1>1, CopiesLater, TakersLater

-----------------------------------------------------------------------------
(* The steps.                                                              *)

\* The part of the invariant that is not about sweeps.
Base == TypeOK /\ CopiesAgree /\ OneThreadPerKey /\ TakerOwnsResource

\* After the step it holds, and the store has moved as described.
BaseKept ==
  /\ \A n \in Names : StoreMove(n)
  /\ CopiesAgree' /\ OneThreadPerKey' /\ TakerOwnsResource'

\* The users and the clock.
LEMMA EnvironmentBase ==
  ASSUME Base, TypeOK', Environment
  PROVE  BaseKept
<1>0. TypeOK /\ CopiesAgree /\ OneThreadPerKey /\ TakerOwnsResource
  BY DEF Base
<1>1. UNCHANGED thread /\ UNCHANGED lister
  BY DEF Environment, User, UserCreate, UserEdit, UserDelete, Tick
<1>2. \A n \in Names : StoreMove(n) /\ WatchStep(n) /\ CalmStep(n)
  <2>1. CASE Tick
    BY <1>0, <2>1, QuietMove DEF Tick, apiVars, WatchStep
  <2>2. ASSUME NEW n \in Names, UserCreate(n)
        PROVE  \A m \in Names : StoreMove(m) /\ WatchStep(m) /\ CalmStep(m)
    <3>1. PICK x \in Snapshot : Create(n, x)
      BY <2>2, UserCreateFacts
    <3> QED
      BY <1>0, <3>1, CreateMove
  <2>3. ASSUME NEW n \in Names, UserEdit(n)
        PROVE  \A m \in Names : StoreMove(m) /\ WatchStep(m) /\ CalmStep(m)
    <3>1. PICK u \in Untils : Put(n, [snaps[n] EXCEPT !.specUntil = u])
      BY <2>3 DEF UserEdit
    <3> DEFINE y == [snaps[n] EXCEPT !.specUntil = u]
    <3>2. u \in Nat /\ Exists(n) /\ snaps[n] \in Snapshot
      BY <1>0, <2>3, StoreAssumption
         DEF StoreAssumption, UserEdit, Exists, TypeOK, StoreTypeOK
    <3>3. y \in Snapshot /\ y.uid = snaps[n].uid /\ y.phase = snaps[n].phase /\ Put(n, y)
      BY <3>1, <3>2 DEF Snapshot
    <3> HIDE DEF y
    <3>4. /\ \A m \in Names : StoreMove(m) /\ WatchStep(m)
          /\ \A m \in Names \ {n} : CalmStep(m)
          /\ snaps'[n] = [y EXCEPT !.rv = ver[n] + 1]
      BY <1>0, <3>2, <3>3, PutMove
    <3>5. snaps'[n].phase = snaps[n].phase
      BY <3>3, <3>4 DEF Snapshot
    <3> QED
      BY <3>4, <3>5 DEF CalmStep
  <2>4. ASSUME NEW n \in Names, UserDelete(n)
        PROVE  \A m \in Names : StoreMove(m) /\ WatchStep(m) /\ CalmStep(m)
    BY <1>0, <2>4, DeleteMove DEF UserDelete
  <2> QED
    BY <2>1, <2>2, <2>3, <2>4 DEF Environment, User
<1>3. \A n \in Names : ListerMove(n)
  BY <1>1, ListerMoves
<1>4. \A t \in Threads : ThreadStays(t)
  BY <1>1, StaysQuiet
<1> QED
  BY <1>0, <1>2, <1>3, <1>4, StaysInv DEF BaseKept

\* The informer, its handlers and the queue.
LEMMA InformerBase ==
  ASSUME Base, TypeOK', NEW n \in Names, Informer(n)
  PROVE  BaseKept
<1>0. TypeOK /\ CopiesAgree /\ OneThreadPerKey /\ TakerOwnsResource
  BY DEF Base
<1>1. /\ UNCHANGED <<snaps, ver, thread>>
      /\ \A m \in Names : WatchStep(m) /\ ListerStep(m)
  BY <1>0, InformerFacts
<1>2. \A m \in Names : StoreMove(m) /\ CalmStep(m) /\ ListerMove(m)
  BY <1>0, <1>1, QuietMove, ListerMoves
<1>3. \A t \in Threads : ThreadStays(t)
  BY <1>1, StaysQuiet
<1> QED
  BY <1>0, <1>1, <1>2, <1>3, StaysInv DEF BaseKept

\* A thread takes a key.
LEMMA StartSyncBase ==
  ASSUME Constants, Base, TypeOK', NEW t \in Threads, NEW n \in Names, StartSync(t, n)
  PROVE  BaseKept
<1>0. /\ TypeOK /\ CopiesAgree /\ OneThreadPerKey /\ TakerOwnsResource /\ UNCHANGED apiVars
  BY DEF Base, StartSync
<1>1. ASSUME NEW m \in Names PROVE StoreMove(m) /\ CalmStep(m) /\ WatchStep(m)
  BY <1>0, QuietMove DEF apiVars, WatchStep
<1>2. CASE lister[n] = NoSnap /\ UNCHANGED <<lister, thread>>
  <2>1. \A m \in Names : ListerMove(m)
    BY <1>2, ListerMoves
  <2>2. \A u \in Threads : ThreadStays(u)
    BY <1>2, StaysQuiet
  <2> QED
    BY <1>0, <1>1, <2>1, <2>2, StaysInv DEF BaseKept
<1>3. CASE lister[n] # NoSnap
  <2> DEFINE next == FirstCall(t, lister[n])
             x == next.snap
             k == [pc |-> next.pc, key |-> n, snap |-> x, at |-> next.at]
  <2>1. lister[n] \in Snapshot /\ Agrees(n, lister[n]) /\ now \in Nat
    BY <1>0, <1>3 DEF TypeOK, StoreTypeOK, CopiesAgree
  <2>2. /\ next.pc \in {"stop", "start", "past", "queue", "expire", "edit", "delete", "return"}
        /\ Like(x, lister[n])
    BY <2>1, FirstCallFacts DEF Like
  <2>3. Proceed(t, n, next) /\ lister' = [lister EXCEPT ![n] = x]
    BY <1>3 DEF StartSync
  <2> HIDE DEF next
  <2>4. Current(n, x)
    BY <2>1, <2>2 DEF Agrees, Like, Fresh, SameResource, Current
  <2>5. ASSUME NEW m \in Names PROVE ListerMove(m)
    <3>1. CASE m = n
      BY <1>0, <1>3, <2>2, <2>3, <3>1 DEF ListerMove, TypeOK, StoreTypeOK
    <3>2. CASE m # n
      BY <1>0, <2>3, <3>2 DEF ListerMove, Like, TypeOK, StoreTypeOK
    <3> QED
      BY <3>1, <3>2
  <2>6. /\ thread'[t] = Idle \/ thread'[t] = k
        /\ \A u \in Threads \ {t} : thread'[u] = thread[u]
        /\ ~Busy(t)
    BY <1>0, <2>3 DEF Proceed, TypeOK, StartSync
  <2>7. /\ k.key = n /\ k.snap = x /\ k.pc \notin TakingSteps
    BY <2>2 DEF TakingSteps
  <2> HIDE DEF k
  <2>8. ASSUME NEW u \in Threads PROVE ThreadMove(u)
    <3>1. CASE u = t
      BY <2>4, <2>6, <2>7, <3>1 DEF ThreadMove
    <3>2. CASE u # t
      BY <1>0, <2>6, <3>2, StaysQuiet, StaysMove
    <3> QED
      BY <3>1, <3>2
  <2>9. OneThreadPerKey'
    <3>1. n \notin Processing
      BY DEF StartSync
    <3>2. \A u \in Threads : Busy(u) => thread[u].key # n
      BY <3>1 DEF Processing
    <3> QED
      BY <1>0, <2>6, <2>7, <3>2 DEF OneThreadPerKey, Busy
  <2>10. TakerOwnsResource'
    <3>1. ASSUME NEW u \in Threads, NEW m \in Names, TakerOf(u, m)'
          PROVE  thread'[u] = thread[u] /\ TakerOf(u, m)
      BY <2>6, <2>7, <3>1 DEF TakerOf, Busy
    <3>2. snaps' = snaps
      BY <1>0 DEF apiVars
    <3> QED
      BY <1>0, <3>1, <3>2 DEF TakerOwnsResource, SameResource, Exists
  <2> QED
    BY <1>0, <1>1, <2>5, <2>8, <2>9, <2>10, CopiesLater DEF BaseKept
<1> QED
  BY <1>2, <1>3 DEF StartSync

\* A thread's update is accepted, whether it hears of it or not.
LEMMA UpdateBase ==
  ASSUME Constants, Base, TypeOK', NEW t \in Threads, UpdateAccepted(t) \/ UpdateUnanswered(t)
  PROVE  BaseKept
<1> DEFINE n == thread[t].key
           x == Returned(n, Target(t))
           next == AfterWrite(thread[t], x)
           k == [pc |-> next.pc, key |-> n, snap |-> next.snap, at |-> next.at]
<1>0. /\ TypeOK /\ CopiesAgree /\ OneThreadPerKey /\ TakerOwnsResource /\ UNCHANGED lister
  BY DEF Base, UpdateAccepted, UpdateUnanswered
<1>1. /\ Writing(t) /\ Busy(t) /\ Fresh(n, thread[t].snap.rv) /\ Update(n, Target(t))
      /\ thread[t] \in Task /\ n \in Names /\ thread[t].pc \in WriteSteps /\ now \in Nat
      /\ thread[t].snap \in Snapshot /\ Target(t) \in Snapshot
  BY <1>0, TargetType DEF UpdateAccepted, UpdateUnanswered, Writing, Task, TypeOK, StoreTypeOK
<1>2. Exists(n) /\ Target(t).uid = snaps[n].uid
  <2>1. Exists(n) /\ thread[t].snap.uid = snaps[n].uid
    BY <1>0, <1>1 DEF CopiesAgree, Agrees, Fresh, SameResource
  <2>2. Target(t).uid = thread[t].snap.uid
    BY <1>1, WrittenFacts DEF Target
  <2> QED
    BY <2>1, <2>2
<1>3. /\ \A m \in Names : StoreMove(m) /\ WatchStep(m)
      /\ \A m \in Names \ {n} : snaps'[m] = snaps[m]
      /\ snaps'[n] # NoSnap /\ snaps'[n] = x /\ snaps'[n].phase = Target(t).phase
  BY <1>0, <1>1, <1>2, UpdateMove
<1>4. x \in Snapshot
  BY <1>1, <1>3 DEF TypeOK, StoreTypeOK, n
<1>5. thread[t].pc = "start" => x.phase = "InProgress"
  BY <1>1, <1>3 DEF Target, Written, Marked, Snapshot
<1> HIDE DEF x
<1>6. /\ next.pc \in {"past", "queue", "expire", "edit", "delete", "return", "bucket"}
      /\ Like(next.snap, x)
  BY <1>1, <1>4, AfterWriteFacts DEF Like
<1>7. next.pc = "bucket" => thread[t].pc = "start"
  <2>1. CASE thread[t].pc \in {"fail", "past", "deletefail"}
    <3>1. next = [pc |-> "return", snap |-> x, at |-> thread[t].at]
      BY <2>1 DEF AfterWrite
    <3> QED
      BY <3>1
  <2>2. CASE thread[t].pc \in {"stop", "complete"}
    <3>1. next = NextCall(x, now)
      BY <2>2 DEF AfterWrite
    <3> QED
      BY <1>1, <1>4, <3>1, NextCallType
  <2>3. CASE thread[t].pc \in {"queue", "expire", "edit"}
    <3>1. next = NextCall(x, thread[t].at) /\ thread[t].at \in Nat
      BY <1>1, <2>3 DEF AfterWrite, Task
    <3> QED
      BY <1>4, <3>1, NextCallType
  <2> QED
    BY <1>1, <2>1, <2>2, <2>3 DEF WriteSteps
<1>8. Proceed(t, n, next) \/ thread' = [thread EXCEPT ![t] = Idle]
  BY DEF UpdateAccepted, UpdateUnanswered, Requeue, x
<1> HIDE DEF next
<1>9. /\ thread'[t] = Idle \/ thread'[t] = k
      /\ \A u \in Threads \ {t} : thread'[u] = thread[u]
  BY <1>0, <1>8 DEF Proceed, TypeOK
<1>10. k.pc = next.pc /\ k.key = n /\ k.snap = next.snap
  OBVIOUS
<1> HIDE DEF k, n
<1>11. ASSUME NEW u \in Threads PROVE ThreadMove(u)
  <2>1. CASE u = t
    BY <1>3, <1>6, <1>9, <1>10, <2>1 DEF ThreadMove, Current
  <2>2. CASE u # t
    BY <1>0, <1>9, <2>2, StaysQuiet, StaysMove
  <2> QED
    BY <2>1, <2>2
<1>12. OneThreadPerKey'
  BY <1>0, <1>1, <1>9, <1>10 DEF OneThreadPerKey, Busy, n
<1>13. TakerOwnsResource'
  <2> SUFFICES ASSUME NEW u \in Threads, NEW m \in Names, thread'[u] # Idle,
                      thread'[u].key = m, thread'[u].pc \in TakingSteps,
                      snaps'[m] # NoSnap, snaps'[m].uid = thread'[u].snap.uid
               PROVE  snaps'[m].phase = "InProgress"
    BY DEF TakerOwnsResource, TakerOf, Busy, SameResource, Exists
  <2>1. CASE u = t
    <3>1. m = n /\ next.pc \in TakingSteps
      BY <1>9, <1>10, <2>1
    <3>2. next.pc = "bucket"
      BY <1>6, <3>1 DEF TakingSteps
    <3> QED
      BY <1>3, <1>5, <1>7, <3>1, <3>2
  <2>2. CASE u # t
    <3>1. thread'[u] = thread[u] /\ TakerOf(u, m)
      BY <1>9, <2>2 DEF TakerOf, Busy
    <3>2. m # n
      BY <1>0, <1>1, <2>2, <3>1 DEF OneThreadPerKey, TakerOf, n
    <3>3. snaps'[m] = snaps[m]
      BY <1>3, <3>2
    <3> QED
      BY <1>0, <3>1, <3>3 DEF TakerOwnsResource, SameResource, Exists
  <2> QED
    BY <2>1, <2>2
<1>14. \A m \in Names : ListerMove(m)
  BY <1>0, ListerMoves
<1> QED
  BY <1>0, <1>3, <1>11, <1>12, <1>13, <1>14, CopiesLater DEF BaseKept

\* The other steps of a thread: it keeps the version it has, or stops.
LEMMA OtherBase ==
  ASSUME Base, TypeOK', NEW t \in Threads, Advance(t) \/ Fault(t),
         ~UpdateAccepted(t), ~UpdateUnanswered(t)
  PROVE  BaseKept
<1>0. /\ TypeOK /\ CopiesAgree /\ OneThreadPerKey /\ TakerOwnsResource /\ UNCHANGED lister
  BY DEF Base, Advance, Fault, UpdateRefused, UpdateFailed, GetBucket, TakeSnapshot,
         Upload, ObjectInfo, DeleteExpired, DeleteRefused, ObjectInfoFailed, GiveUp,
         DeleteFailed, storeVars
<1>1. Busy(t) => thread[t].key \in Names /\ thread[t].snap \in Snapshot
  BY <1>0 DEF TypeOK, Busy, Task
<1>2. ASSUME NEW m \in Names PROVE StoreMove(m) /\ WatchStep(m) /\ CalmStep(m) /\ ListerMove(m)
  <2>1. CASE UNCHANGED apiVars
    BY <1>0, <2>1, QuietMove, ListerMoves DEF apiVars, WatchStep
  <2>2. CASE Busy(t) /\ Delete(thread[t].key)
    BY <1>0, <1>1, <2>2, DeleteMove, ListerMoves
  <2> QED
    BY <2>1, <2>2 DEF Advance, Fault, UpdateRefused, UpdateFailed, GetBucket, TakeSnapshot,
       Upload, ObjectInfo, DeleteExpired, DeleteRefused, ObjectInfoFailed, GiveUp,
       DeleteFailed, storeVars, At
<1>3. ASSUME thread' = [thread EXCEPT ![t] = Idle]
      PROVE  \A u \in Threads : ThreadStays(u)
  <2>1. \A u \in Threads : thread'[u] = thread[u] \/ thread'[u] = Idle
    BY <1>0, <1>3 DEF TypeOK
  <2> QED
    BY <2>1, StaysQuiet
<1>4. Like(thread[t].snap, thread[t].snap)
  BY DEF Like
<1>5. \A u \in Threads : ThreadStays(u)
  <2>1. CASE UpdateRefused(t) \/ UpdateFailed(t) \/ DeleteExpired(t)
    BY <1>3, <2>1 DEF UpdateRefused, UpdateFailed, DeleteExpired, Requeue
  <2>2. CASE DeleteRefused(t) \/ DeleteFailed(t)
    <3>1. Busy(t) /\ Goto(t, "deletefail", thread[t].snap) /\ "deletefail" \notin TakingSteps
      BY <2>2 DEF DeleteRefused, DeleteFailed, At, TakingSteps
    <3> QED
      BY <1>0, <1>4, <3>1, GotoStays
  <2>3. CASE \/ GetBucket(t) \/ TakeSnapshot(t) \/ Upload(t) \/ ObjectInfo(t)
             \/ ObjectInfoFailed(t) \/ GiveUp(t)
    <3>1. Busy(t) /\ thread[t].pc \in TakingSteps
      BY <2>3 DEF GetBucket, TakeSnapshot, Upload, ObjectInfo, ObjectInfoFailed, GiveUp, At,
                  TakingSteps
    <3>2. \E pc, x : Goto(t, pc, x) /\ Like(x, thread[t].snap)
      <4>1. CASE \/ GetBucket(t) \/ Upload(t) \/ ObjectInfoFailed(t) \/ GiveUp(t)
        BY <1>4, <4>1 DEF GetBucket, Upload, ObjectInfoFailed, GiveUp
      <4>2. CASE TakeSnapshot(t)
        <5>1. PICK u : Goto(t, "upload", [thread[t].snap EXCEPT !.until = u])
          BY <4>2 DEF TakeSnapshot
        <5>2. Like([thread[t].snap EXCEPT !.until = u], thread[t].snap)
          BY <1>1, <3>1 DEF Like, Snapshot
        <5> QED
          BY <5>1, <5>2
      <4>3. CASE ObjectInfo(t)
        <5>1. PICK u : \/ Goto(t, "complete", [thread[t].snap EXCEPT !.stored = u])
                       \/ Goto(t, "upload", thread[t].snap)
                       \/ Goto(t, "fail", thread[t].snap)
          BY <4>3 DEF ObjectInfo
        <5>2. Like([thread[t].snap EXCEPT !.stored = u], thread[t].snap)
          BY <1>1, <3>1 DEF Like, Snapshot
        <5> QED
          BY <1>4, <5>1, <5>2
      <4> QED
        BY <2>3, <4>1, <4>2, <4>3
    <3> QED
      BY <1>0, <3>1, <3>2, GotoStays
  <2> QED
    BY <2>1, <2>2, <2>3 DEF Advance, Fault
<1> QED
  BY <1>0, <1>2, <1>5, StaysInv DEF BaseKept

\* The process dies and starts again.
LEMMA RestartBase ==
  ASSUME Base, TypeOK', Restart
  PROVE  BaseKept
<1>0. TypeOK /\ CopiesAgree /\ OneThreadPerKey /\ TakerOwnsResource
  BY DEF Base
<1>1. /\ UNCHANGED <<snaps, ver>> /\ lister' = snaps
      /\ \A n \in Names : watch'[n] = <<>>
      /\ \A t \in Threads : thread'[t] = Idle
  BY DEF Restart
<1>2. \A n \in Names : StoreMove(n) /\ CalmStep(n)
  BY <1>0, <1>1, QuietMove
<1>3. \A n \in Names : WatchStep(n) /\ ListerMove(n)
  BY <1>1 DEF WatchStep, ListerMove
<1>4. \A t \in Threads : ThreadStays(t)
  BY <1>1, StaysQuiet
<1> QED
  BY <1>0, <1>2, <1>3, <1>4, StaysInv DEF BaseKept


\* A step that touches neither the store, the lister nor the threads.
LEMMA QuietBase ==
  ASSUME Base, TypeOK', UNCHANGED <<apiVars, lister, thread>>
  PROVE  BaseKept
<1>0. TypeOK /\ CopiesAgree /\ OneThreadPerKey /\ TakerOwnsResource
  BY DEF Base
<1>1. \A n \in Names : StoreMove(n) /\ WatchStep(n) /\ CalmStep(n) /\ ListerMove(n)
  BY <1>0, QuietMove, ListerMoves DEF apiVars, WatchStep
<1>2. \A t \in Threads : ThreadStays(t)
  BY StaysQuiet
<1> QED
  BY <1>0, <1>1, <1>2, StaysInv DEF BaseKept

\* A sweep that is left alone, or keeps its updates and recovers nothing.
LEMMA SameSweepMove ==
  ASSUME SweepAgrees, sweep # NoSweep,
         \/ sweep' = sweep
         \/ sweep' = NoSweep
         \/ sweep'.fixes = sweep.fixes /\ sweep'.call # "complete"
  PROVE  SweepMove
  BY DEF SweepAgrees, SweepMove, Current

\* A new sweep has nothing to update yet.
LEMMA NewSweepMove ==
  ASSUME SyncConstants, NEW remove \in BOOLEAN, NEW recover \in BOOLEAN,
         sweep' = NewSweep(remove, recover)
  PROVE  SweepMove
<1>1. sweep' # NoSweep => sweep'.call = "objects" /\ sweep'.fixes = {}
  BY NewSweepFacts
<1> QED
  BY <1>1 DEF SweepMove

\* Reading changes nothing, and what it leaves to update are the versions
\* stored now, of Snapshots that have ended.
LEMMA ReadingMove ==
  ASSUME SyncConstants, SyncTypeOK, Base, SweepAgrees, TypeOK',
         StartSweep \/ ListBucket \/ ListSnapshots
  PROVE  BaseKept /\ SweepMove
<1>0. TypeOK /\ StoreTypeOK /\ CopiesAgree
  BY DEF Base, TypeOK
<1>1. BaseKept
  <2>1. UNCHANGED <<apiVars, lister, thread>>
    BY DEF StartSweep, ListBucket, ListSnapshots, vars, storeVars
  <2> QED
    BY <2>1, QuietBase
<1>2. CASE StartSweep
  <2>1. SweepMove
    BY <1>2, NewSweepMove DEF StartSweep, Continue, SyncConstants, SyncerAssumption
  <2> QED
    BY <1>1, <2>1
<1>3. CASE ListBucket
  <2>1. sweep \in Sweep /\ sweep # NoSweep
    BY <1>3 DEF ListBucket, Calling, SyncTypeOK
  <2> DEFINE b == Head(sweep.left)
             rest == Tail(sweep.left)
             call == IF rest = <<>> THEN "snapshots" ELSE "objects"
  <2>2. sweep' = [sweep EXCEPT !.files[b] = objects[b], !.left = rest, !.call = call]
    BY <1>3 DEF ListBucket, Continue
  <2>3. call # "complete"
    OBVIOUS
  <2> HIDE DEF b, rest, call
  <2>4. sweep'.fixes = sweep.fixes /\ sweep'.call # "complete"
    BY <2>1, <2>2, <2>3 DEF Sweep
  <2>5. SweepMove
    BY <2>1, <2>4, SameSweepMove
  <2> QED
    BY <1>1, <2>5
<1>4. CASE ListSnapshots
  <2>1. sweep \in Sweep /\ sweep # NoSweep
    BY <1>4 DEF ListSnapshots, Calling, SyncTypeOK
  <2> DEFINE fixes == {f \in {Judged(sweep.files, n) : n \in Compared} : Needed(f)}
  <2>2. PICK orphans : sweep' = [sweep EXCEPT !.call = "fix", !.files = NoFiles,
                                   !.orphans = orphans, !.fixes = fixes]
    BY <1>4 DEF ListSnapshots, Continue
  <2>3. ASSUME NEW f \in fixes PROVE Current(f.key, f.snap) /\ HasEnded(f.snap)
    <3>1. PICK n \in Compared : f = Judged(sweep.files, n)
      OBVIOUS
    <3>2. n \in Names /\ Exists(n) /\ snaps[n] \in Snapshot /\ HasEnded(snaps[n])
      BY <1>0 DEF Compared, Exists, Ended, HasEnded, StoreTypeOK
    <3>3. f.key = n /\ Like(f.snap, snaps[n])
      BY <3>1, <3>2, JudgedFacts
    <3>4. Agrees(n, f.snap)
      BY <1>0, <3>2, <3>3, StoredCurrent
    <3> QED
      BY <3>2, <3>3, <3>4 DEF Current, HasEnded, Like
  <2> HIDE DEF fixes
  <2>4. sweep'.fixes = fixes /\ sweep'.call = "fix"
    BY <2>1, <2>2 DEF Sweep
  <2>5. SweepMove
    BY <2>3, <2>4 DEF SweepMove
  <2> QED
    BY <1>1, <2>5
<1> QED
  BY <1>2, <1>3, <1>4

\* An update of the sweep finds the Snapshot as it was read: it has ended, so
\* nobody takes it, and it is not made InProgress again.
LEMMA FixBase ==
  ASSUME SyncConstants, SyncTypeOK, Base, SweepAgrees, TypeOK', FixAccepted \/ FixUnanswered
  PROVE  BaseKept /\ SweepMove
<1>0. /\ TypeOK /\ CopiesAgree /\ OneThreadPerKey /\ TakerOwnsResource
      /\ UNCHANGED lister /\ UNCHANGED thread /\ sweep # NoSweep
  BY DEF Base, FixAccepted, FixUnanswered, Calling
<1>1. PICK f \in sweep.fixes :
        /\ f \in Fix /\ Fresh(f.key, f.snap.rv) /\ Update(f.key, Verdict(f))
        /\ sweep' # NoSweep =>
             /\ sweep'.fixes \subseteq sweep.fixes \cup
                  {[why |-> "valid", key |-> f.key, snap |-> Returned(f.key, Verdict(f))]}
             /\ sweep'.call # "complete"
  BY FixWrites
<1>2. /\ f.key \in Names /\ Verdict(f) \in Snapshot /\ Verdict(f).uid = f.snap.uid
      /\ HasEnded(f.snap) => HasEnded(Verdict(f))
  BY <1>1, VerdictFacts
<1>3. /\ Exists(f.key) /\ snaps[f.key].uid = f.snap.uid /\ HasEnded(snaps[f.key])
      /\ HasEnded(Verdict(f))
  BY <1>0, <1>1, <1>2 DEF SweepAgrees, Agrees, Fresh, SameResource, HasEnded
<1>4. /\ \A m \in Names : StoreMove(m) /\ WatchStep(m)
      /\ \A m \in Names \ {f.key} : CalmStep(m)
      /\ snaps'[f.key] # NoSnap /\ snaps'[f.key] = Returned(f.key, Verdict(f))
      /\ snaps'[f.key].phase = Verdict(f).phase
  BY <1>0, <1>1, <1>2, <1>3, UpdateMove
<1>5. \A m \in Names : CalmStep(m)
  BY <1>3, <1>4 DEF CalmStep, HasEnded
<1>6. \A m \in Names : ListerMove(m)
  BY <1>0, ListerMoves
<1>7. \A t \in Threads : ThreadStays(t)
  BY <1>0, StaysQuiet
<1>8. BaseKept
  BY <1>0, <1>4, <1>5, <1>6, <1>7, StaysInv DEF BaseKept
<1>9. ASSUME sweep' # NoSweep, NEW g \in sweep'.fixes
      PROVE  Current(g.key, g.snap) /\ HasEnded(g.snap)
  <2>1. CASE g \in sweep.fixes
    BY <1>0, <2>1 DEF SweepAgrees, Current
  <2>2. CASE g = [why |-> "valid", key |-> f.key, snap |-> Returned(f.key, Verdict(f))]
    <3>1. g.key = f.key /\ g.snap = snaps'[f.key]
      BY <1>4, <2>2
    <3> QED
      BY <1>3, <1>4, <3>1 DEF Current, Like, HasEnded
  <2> QED
    BY <1>1, <1>9, <2>1, <2>2
<1>10. SweepMove
  BY <1>1, <1>9 DEF SweepMove
<1> QED
  BY <1>8, <1>10

\* Recovering a Snapshot creates it, or leaves the store alone.
LEMMA CreateRestoredBase ==
  ASSUME SyncConstants, SyncTypeOK, SweepFits, Base, SweepAgrees, TypeOK', CreateRestored
  PROVE  BaseKept /\ SweepMove
<1>0. /\ TypeOK /\ CopiesAgree /\ OneThreadPerKey /\ TakerOwnsResource
      /\ UNCHANGED lister /\ UNCHANGED thread /\ sweep \in Sweep /\ sweep # NoSweep
      /\ sweep.restoring \in Restoring
  BY DEF Base, CreateRestored, Calling, SyncTypeOK, SweepFits
<1> DEFINE o == sweep.restoring.orphan
<1>1. o.key \in Names /\ o.file.json \in Snapshot
  BY <1>0 DEF Restoring, Orphan, Object
<1>2. Create(o.key, o.file.json) \/ UNCHANGED apiVars
  BY DEF CreateRestored
<1>3. sweep' = [sweep EXCEPT !.call = "get"] \/ NextOrphan
  BY DEF CreateRestored, Continue
<1> HIDE DEF o
<1>4. BaseKept
  <2>1. CASE UNCHANGED apiVars
    BY <1>0, <2>1, QuietBase
  <2>2. CASE Create(o.key, o.file.json)
    <3>1. \A n \in Names : StoreMove(n) /\ WatchStep(n) /\ CalmStep(n) /\ ListerMove(n)
      BY <1>0, <1>1, <2>2, CreateMove, ListerMoves
    <3>2. \A t \in Threads : ThreadStays(t)
      BY <1>0, StaysQuiet
    <3> QED
      BY <1>0, <3>1, <3>2, StaysInv DEF BaseKept
  <2> QED
    BY <1>2, <2>1, <2>2
<1>5. sweep'.fixes = sweep.fixes /\ sweep'.call # "complete"
  BY <1>0, <1>3 DEF NextOrphan, Continue, Sweep
<1> QED
  BY <1>0, <1>4, <1>5, SameSweepMove

\* The copy it gets from the lister, and the cache it sets it in, stay of the
\* version they are.
LEMMA GetRestoredBase ==
  ASSUME SyncConstants, SyncTypeOK, SweepFits, Base, SweepAgrees, TypeOK', GetRestored
  PROVE  BaseKept /\ SweepMove
<1>0. /\ TypeOK /\ StoreTypeOK /\ CopiesAgree /\ OneThreadPerKey /\ TakerOwnsResource
      /\ UNCHANGED apiVars /\ UNCHANGED thread /\ sweep \in Sweep /\ sweep # NoSweep
      /\ sweep.restoring \in Restoring
  BY DEF Base, TypeOK, GetRestored, Calling, SyncTypeOK, SweepFits
<1> DEFINE o == sweep.restoring.orphan
           x == Restored(lister[o.key], o.file)
<1>1. o.key \in Names /\ o.file \in Object
  BY <1>0 DEF Restoring, Orphan
<1>2. \/ NextOrphan /\ UNCHANGED lister
      \/ /\ lister[o.key] # NoSnap /\ lister' = [lister EXCEPT ![o.key] = x]
         /\ sweep' = [sweep EXCEPT !.call = "complete", !.restoring.snap = x]
  BY DEF GetRestored, Continue
<1>3. lister[o.key] # NoSnap => Like(x, lister[o.key]) /\ lister[o.key] \in Snapshot
  BY <1>0, <1>1, RestoredFacts DEF StoreTypeOK
<1> HIDE DEF x
<1>4. \A n \in Names : ListerMove(n)
  <2>1. CASE UNCHANGED lister
    BY <2>1, ListerMoves
  <2>2. CASE lister[o.key] # NoSnap /\ lister' = [lister EXCEPT ![o.key] = x]
    <3>1. ASSUME NEW n \in Names PROVE ListerMove(n)
      <4>1. lister'[n] = IF n = o.key THEN x ELSE lister[n]
        BY <1>0, <1>1, <2>2 DEF StoreTypeOK
      <4> QED
        BY <1>3, <2>2, <4>1 DEF ListerMove, Like
    <3> QED
      BY <3>1
  <2> QED
    BY <1>2, <2>1, <2>2
<1>5. \A n \in Names : StoreMove(n) /\ WatchStep(n) /\ CalmStep(n)
  BY <1>0, QuietMove DEF apiVars, WatchStep
<1>6. \A t \in Threads : ThreadStays(t)
  BY <1>0, StaysQuiet
<1>7. BaseKept
  BY <1>0, <1>4, <1>5, <1>6, StaysInv DEF BaseKept
<1>8. CASE NextOrphan
  <2>1. sweep'.fixes = sweep.fixes /\ sweep'.call # "complete"
    BY <1>0, <1>8 DEF NextOrphan, Continue, Sweep
  <2> QED
    BY <1>0, <1>7, <2>1, SameSweepMove
<1>9. CASE /\ lister[o.key] # NoSnap
           /\ sweep' = [sweep EXCEPT !.call = "complete", !.restoring.snap = x]
  <2>1. /\ sweep'.fixes = sweep.fixes /\ sweep'.restoring.snap = x
        /\ sweep'.restoring.orphan = o
    BY <1>0, <1>9 DEF Sweep, Restoring
  <2>2. Agrees(o.key, lister[o.key])
    BY <1>0, <1>1, <1>9 DEF CopiesAgree
  <2>3. Current(o.key, x)
    BY <1>3, <1>9, <2>2 DEF Agrees, Like, Fresh, SameResource, Current
  <2>4. SweepMove
    BY <1>0, <2>1, <2>3 DEF SweepMove, SweepAgrees, Current
  <2> QED
    BY <1>7, <2>4
<1> QED
  BY <1>2, <1>8, <1>9

\* The recovered Snapshot is made Completed before any thread has a key.
LEMMA CompleteRestoredBase ==
  ASSUME SyncTypeOK, SweepFits, Base, SweepAgrees, TypeOK', CompleteRestored
  PROVE  BaseKept /\ SweepMove
<1>0. /\ TypeOK /\ CopiesAgree /\ OneThreadPerKey /\ TakerOwnsResource
      /\ UNCHANGED lister /\ UNCHANGED thread /\ sweep \in Sweep /\ sweep # NoSweep
      /\ sweep.restoring \in Restoring /\ sweep.restoring.snap \in Snapshot
      /\ Agrees(sweep.restoring.orphan.key, sweep.restoring.snap)
      /\ \A t \in Threads : ~Busy(t)
  BY DEF Base, CompleteRestored, Calling, SyncTypeOK, SweepFits, SweepAgrees
<1> DEFINE k == sweep.restoring.orphan.key
           s == sweep.restoring.snap
           x == Marked(s, "Completed", "")
<1>1. k \in Names /\ x \in Snapshot /\ x.uid = s.uid
  BY <1>0 DEF Restoring, Orphan, Marked, Snapshot, Phases, Reasons
<1>2. UNCHANGED apiVars \/ (Fresh(k, s.rv) /\ Update(k, x))
  BY DEF CompleteRestored
<1>3. NextOrphan
  BY DEF CompleteRestored
<1>4. sweep'.fixes = sweep.fixes /\ sweep'.call # "complete"
  BY <1>0, <1>3 DEF NextOrphan, Continue, Sweep
<1>5. SweepMove
  BY <1>0, <1>4, SameSweepMove
<1> HIDE DEF x
<1>6. CASE UNCHANGED apiVars
  BY <1>0, <1>5, <1>6, QuietBase
<1>7. CASE Fresh(k, s.rv) /\ Update(k, x)
  <2>1. Exists(k) /\ x.uid = snaps[k].uid
    BY <1>0, <1>1, <1>7 DEF Agrees, Fresh, SameResource
  <2> HIDE DEF k, s
  <2>2. \A n \in Names : StoreMove(n) /\ WatchStep(n) /\ ListerMove(n)
    BY <1>0, <1>1, <1>7, <2>1, UpdateMove, ListerMoves
  <2>3. \A t \in Threads : ThreadMove(t)
    BY <1>0 DEF ThreadMove, Busy
  <2>4. CopiesAgree'
    BY <1>0, <2>2, <2>3, CopiesLater
  <2>5. OneThreadPerKey' /\ TakerOwnsResource'
    BY <1>0 DEF OneThreadPerKey, TakerOwnsResource, TakerOf, Busy
  <2> QED
    BY <1>5, <2>2, <2>4, <2>5 DEF BaseKept
<1> QED
  BY <1>2, <1>6, <1>7

\* The steps of the sweep.
LEMMA SyncerBase ==
  ASSUME SyncConstants, SyncTypeOK, SweepFits, Base, SweepAgrees, TypeOK',
         SyncerStep \/ SyncerFault
  PROVE  BaseKept /\ SweepMove
<1>1. CASE FixRefused \/ SweepFailed \/ EndSweep
  <2>1. UNCHANGED <<apiVars, lister, thread>>
    BY <1>1 DEF FixRefused, SweepFailed, EndSweep, vars, storeVars
  <2>2. sweep' = NoSweep
    BY <1>1 DEF FixRefused, SweepFailed, EndSweep, Finish
  <2> QED
    BY <2>1, <2>2, QuietBase DEF SweepMove
<1>2. CASE RemoveOrphan \/ DownloadOrphan
  <2>1. UNCHANGED <<apiVars, lister, thread>> /\ sweep # NoSweep
    BY <1>2 DEF RemoveOrphan, DownloadOrphan, OrphansAreNext, Calling
  <2>2. sweep' = NoSweep \/ (sweep'.fixes = sweep.fixes /\ sweep'.call # "complete")
    BY <1>2, OrphanType
  <2>3. SweepMove
    BY <2>1, <2>2, SameSweepMove
  <2> QED
    BY <2>1, <2>3, QuietBase
<1> QED
  BY <1>1, <1>2, ReadingMove, FixBase, CreateRestoredBase, GetRestoredBase,
     CompleteRestoredBase DEF SyncerStep, SyncerFault

-----------------------------------------------------------------------------
(* The invariant.                                                          *)

\* Every step keeps it.
LEMMA SyncNextInv ==
  ASSUME SyncConstants, SyncInv, [SyncNext]_syncVars
  PROVE  SyncInv'
<1>0. /\ SyncTypeOK /\ SweepFits /\ SweepAgrees /\ Base /\ Constants /\ TypeOK
  BY DEF SyncInv, SyncTypeOK, Base, SyncConstants
<1>1. SyncTypeOK' /\ SweepFits' /\ TypeOK'
  BY <1>0, SyncNextType DEF SyncTypeOK
<1>2. ASSUME sweep' = sweep PROVE SweepMove
  BY <1>0, <1>2 DEF SweepMove, SweepAgrees, Current
<1>3. BaseKept /\ SweepMove
  <2>1. CASE UNCHANGED syncVars
    BY <1>0, <1>1, <1>2, <2>1, QuietBase DEF syncVars, vars, storeVars
  <2>2. CASE Environment /\ UNCHANGED <<started, sweep>>
    BY <1>0, <1>1, <1>2, <2>2, EnvironmentBase
  <2>3. CASE ControllerStep
    <3>1. sweep' = sweep
      BY <2>3 DEF ControllerStep
    <3>2. ASSUME NEW t \in Threads, ThreadNext(t) PROVE BaseKept
      BY <1>0, <1>1, <3>2, StartSyncBase, UpdateBase, OtherBase DEF ThreadNext
    <3> QED
      BY <1>0, <1>1, <1>2, <2>3, <3>1, <3>2, InformerBase DEF ControllerStep
  <2>4. CASE SyncerStep \/ SyncerFault
    BY <1>0, <1>1, <2>4, SyncerBase
  <2>5. CASE LoseObject
    BY <1>0, <1>1, <1>2, <2>5, QuietBase DEF LoseObject
  <2>6. CASE Restart /\ Boot
    <3>1. FALSE \in BOOLEAN /\ RestoreSnapshots \in BOOLEAN
      BY DEF SyncConstants, SyncerAssumption
    <3>2. SweepMove
      BY <2>6, <3>1, NewSweepMove DEF Boot
    <3> QED
      BY <1>0, <1>1, <2>6, <3>2, RestartBase
  <2> QED
    BY <2>1, <2>2, <2>3, <2>4, <2>5, <2>6 DEF SyncNext
<1>4. SweepAgrees'
  BY <1>0, <1>1, <1>3, SweepLater DEF BaseKept
<1> QED
  BY <1>1, <1>3, <1>4 DEF SyncInv, BaseKept

\* It holds at the start.
LEMMA SyncInitInv == SyncConstants /\ SyncInit => SyncInv
<1> SUFFICES ASSUME SyncConstants, SyncInit PROVE SyncInv
  OBVIOUS
<1>1. SyncTypeOK /\ SweepFits
  BY SyncInitType
<1>2. CopiesAgree /\ OneThreadPerKey /\ TakerOwnsResource
  BY InitInv DEF SyncInit, SyncConstants, IndInv
<1>3. FALSE \in BOOLEAN /\ RestoreSnapshots \in BOOLEAN
  BY DEF SyncConstants, SyncerAssumption
<1>4. sweep # NoSweep => sweep.call = "objects" /\ sweep.fixes = {}
  BY <1>3, NewSweepFacts DEF SyncInit
<1>5. SweepAgrees
  BY <1>4 DEF SweepAgrees
<1> QED
  BY <1>1, <1>2, <1>5 DEF SyncInv

\* Whatever the flags, the faults and the crashes, every step of the
\* controller and its syncer keeps the invariant.
THEOREM SyncInvariance == SyncSpec => []SyncInv
<1>0. SyncConstants
  BY StoreAssumption, ThreadAssumption, SyncerAssumption DEF Constants, SyncConstants
<1>1. SyncInit => SyncInv
  BY <1>0, SyncInitInv
<1>2. SyncInv /\ [SyncNext]_syncVars => SyncInv'
  BY <1>0, SyncNextInv
<1> QED
  BY <1>1, <1>2, PTL DEF SyncSpec

\* The copies agree with the store, with the sweeps beside the handlers: an
\* update that is accepted is of what was read, also one decided long before.
THEOREM SyncAgreement == SyncSpec => []CopiesAgree
<1>1. SyncInv => CopiesAgree
  BY DEF SyncInv
<1> QED
  BY <1>1, SyncInvariance, PTL

\* No sweep, however old what it read, disturbs a Snapshot that a thread is
\* taking.
THEOREM SyncOwnership == SyncSpec => []TakerOwnsResource
<1>1. SyncInv => TakerOwnsResource
  BY DEF SyncInv
<1> QED
  BY <1>1, SyncInvariance, PTL

=============================================================================
