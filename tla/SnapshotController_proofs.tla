----------------------- MODULE SnapshotController_proofs -----------------------
(***************************************************************************)
(* Proofs about SnapshotController for every set of names, buckets and     *)
(* workers and every bound: type correctness, the inductive invariant, and *)
(* what follows from it.                                                   *)
(***************************************************************************)
EXTENDS SnapshotController, TLAPS

\* What the constants are assumed to be, in one name.
Constants == StoreAssumption /\ ThreadAssumption

-----------------------------------------------------------------------------
(* What the API server's operations keep.                                  *)

\* Storing a Snapshot keeps the types.
LEMMA PutType ==
  ASSUME StoreTypeOK, NEW n \in Names, NEW x \in Snapshot, Put(n, x)
  PROVE  /\ snaps' \in [Names -> Snapshot \cup {NoSnap}]
         /\ ver' \in [Names -> Nat]
         /\ watch' \in [Names -> Seq(Event)]
<1> DEFINE y == [x EXCEPT !.rv = ver[n] + 1]
           e == [type |-> "set", snap |-> y]
<1>1. ver[n] + 1 \in Nat
  BY DEF StoreTypeOK
<1>2. y \in Snapshot
  BY <1>1 DEF Snapshot
<1>3. e \in Event
  BY <1>2 DEF Event
<1>4. Append(watch[n], e) \in Seq(Event)
  BY <1>3 DEF StoreTypeOK
<1> QED
  BY <1>1, <1>2, <1>4 DEF Put, StoreTypeOK

\* So does an accepted update, and what it returns is a Snapshot.
LEMMA UpdateType ==
  ASSUME StoreTypeOK, NEW n \in Names, NEW x \in Snapshot, Update(n, x)
  PROVE  /\ snaps' \in [Names -> Snapshot \cup {NoSnap}]
         /\ ver' \in [Names -> Nat]
         /\ watch' \in [Names -> Seq(Event)]
  BY PutType DEF Update, StoreTypeOK, apiVars

\* What an accepted update returns is a Snapshot.
LEMMA ReturnedType ==
  ASSUME StoreTypeOK, NEW n \in Names, NEW x \in Snapshot, Exists(n)
  PROVE  Returned(n, x) \in Snapshot
<1>1. snaps[n] \in Snapshot
  BY DEF StoreTypeOK, Exists
<1>2. ver[n] + 1 \in Nat
  BY DEF StoreTypeOK
<1>3. [x EXCEPT !.rv = ver[n] + 1] \in Snapshot
  BY <1>2 DEF Snapshot
<1> QED
  BY <1>1, <1>3 DEF Returned

\* Creating a Snapshot keeps the types.
LEMMA CreateType ==
  ASSUME StoreTypeOK, NEW n \in Names, NEW x \in Snapshot, Create(n, x)
  PROVE  /\ snaps' \in [Names -> Snapshot \cup {NoSnap}]
         /\ ver' \in [Names -> Nat]
         /\ watch' \in [Names -> Seq(Event)]
<1> DEFINE y == [x EXCEPT !.uid = ver[n] + 1, !.created = now]
<1>1. ver[n] + 1 \in Nat /\ now \in Nat
  BY DEF StoreTypeOK
<1>2. y \in Snapshot
  BY <1>1 DEF Snapshot
<1> QED
  BY <1>2, PutType DEF Create

\* What a user creates has an empty status.
LEMMA UserCreateFacts ==
  ASSUME NEW n \in Names, UserCreate(n)
  PROVE  \E x \in Snapshot : Create(n, x) /\ x.phase = "" /\ x.until = 0 /\ x.stored = 0
<1>1. PICK b \in Buckets, u \in Untils, d \in TTLs :
        Create(n, [uid |-> 0, rv |-> 0, created |-> 0,
                   config |-> b, specUntil |-> u, ttl |-> d,
                   phase |-> "", reason |-> "", until |-> 0, stored |-> 0])
  BY DEF UserCreate
<1>2. u \in Nat /\ d \in Nat
  BY StoreAssumption DEF StoreAssumption
<1>3. [uid |-> 0, rv |-> 0, created |-> 0, config |-> b, specUntil |-> u, ttl |-> d,
       phase |-> "", reason |-> "", until |-> 0, stored |-> 0] \in Snapshot
  BY <1>2 DEF Snapshot, Phases, Reasons
<1> QED
  BY <1>1, <1>3

\* Deleting a Snapshot keeps the types.
LEMMA DeleteType ==
  ASSUME StoreTypeOK, NEW n \in Names, Delete(n)
  PROVE  /\ snaps' \in [Names -> Snapshot \cup {NoSnap}]
         /\ ver' \in [Names -> Nat]
         /\ watch' \in [Names -> Seq(Event)]
<1>1. [type |-> "gone", snap |-> snaps[n]] \in Event
  BY DEF Event, StoreTypeOK, Delete, Exists
<1>2. Append(watch[n], [type |-> "gone", snap |-> snaps[n]]) \in Seq(Event)
  BY <1>1 DEF StoreTypeOK
<1> QED
  BY <1>2 DEF Delete, StoreTypeOK

\* Spending keeps a budget a budget.
LEMMA SpendType ==
  ASSUME StoreTypeOK, NEW kind \in BudgetKinds, Spend(kind)
  PROVE  budget' \in [BudgetKinds -> Nat]
  BY DEF Spend, StoreTypeOK

-----------------------------------------------------------------------------
(* What the handler computes between two calls.                            *)

\* The next call is a step or the return, with a Snapshot that differs from
\* the copy in ttl and until only.
LEMMA NextCallType ==
  ASSUME Constants, NEW s \in Snapshot, NEW at \in Nat
  PROVE  LET next == NextCall(s, at) IN
           /\ next.pc \in {"past", "queue", "expire", "edit", "delete", "return"}
           /\ next.at = at
           /\ next.snap \in Snapshot
           /\ next.snap.rv = s.rv /\ next.snap.uid = s.uid /\ next.snap.phase = s.phase
           /\ EndedIfUntil(s) => EndedIfUntil(next.snap) /\ FitsStep(next.pc, next.snap)
<1> DEFINE next == NextCall(s, at)
           unset == s.phase = "Failed" /\ s.until = 0
           edited == /\ s.phase \in {"Completed", "Failed"} /\ ~unset
                     /\ s.specUntil \notin {0, s.until}
<1>0. StoreAssumption /\ s.phase \in Phases
  BY DEF Constants, Snapshot
<1>1. CASE s.phase = "" /\ Past(s.specUntil, at)
  <2>1. next = [pc |-> "past", snap |-> s, at |-> at]
    BY <1>1 DEF NextCall
  <2>2. next.pc = "past" /\ next.snap = s /\ next.at = at
    BY <2>1
  <2>3. EndedIfUntil(s) => FitsStep("past", s)
    BY <1>1 DEF EndedIfUntil, FitsStep, TakingSteps
  <2> QED
    BY <2>2, <2>3
<1>2. CASE s.phase = "" /\ ~Past(s.specUntil, at)
  <2>1. next = [pc |-> "queue", snap |-> WithTTL(s), at |-> at]
    BY <1>2 DEF NextCall
  <2>2. /\ WithTTL(s) \in Snapshot
        /\ WithTTL(s).rv = s.rv /\ WithTTL(s).uid = s.uid
        /\ WithTTL(s).phase = s.phase /\ WithTTL(s).until = s.until
    BY <1>0 DEF WithTTL, Snapshot, StoreAssumption
  <2>3. next.pc = "queue" /\ next.snap = WithTTL(s) /\ next.at = at
    BY <2>1
  <2>4. EndedIfUntil(s) => EndedIfUntil(WithTTL(s)) /\ FitsStep("queue", WithTTL(s))
    BY <2>2, <1>2 DEF EndedIfUntil, FitsStep, TakingSteps
  <2> QED
    BY <2>2, <2>3, <2>4
<1>3. CASE unset
  <2> DEFINE x == [s EXCEPT !.until = FailedUntil(s)]
  <2>1. next = [pc |-> "expire", snap |-> x, at |-> at]
    BY <1>3 DEF NextCall
  <2>2. FailedUntil(s) \in Nat
    BY DEF FailedUntil, Snapshot
  <2>3. x \in Snapshot /\ x.rv = s.rv /\ x.uid = s.uid /\ x.phase = s.phase
    BY <2>2 DEF Snapshot
  <2>4. next.pc = "expire" /\ next.snap = x /\ next.at = at
    BY <2>1
  <2>5. EndedIfUntil(x) /\ FitsStep("expire", x)
    BY <2>3, <1>3 DEF EndedIfUntil, FitsStep, TakingSteps
  <2> HIDE DEF x
  <2> QED
    BY <2>3, <2>4, <2>5
<1>4. CASE edited
  <2> DEFINE x == [s EXCEPT !.until = s.specUntil]
  <2>1. next = [pc |-> "edit", snap |-> x, at |-> at]
    BY <1>4 DEF NextCall
  <2>2. x \in Snapshot /\ x.rv = s.rv /\ x.uid = s.uid /\ x.phase = s.phase
    BY DEF Snapshot
  <2>4. next.pc = "edit" /\ next.snap = x /\ next.at = at
    BY <2>1
  <2>5. EndedIfUntil(x) /\ FitsStep("edit", x)
    BY <2>2, <1>4 DEF EndedIfUntil, FitsStep, TakingSteps
  <2> HIDE DEF x
  <2> QED
    BY <2>2, <2>4, <2>5
<1>5. CASE s.phase # "" /\ ~unset /\ ~edited
  <2> DEFINE pc == IF Past(s.until, at) THEN "delete" ELSE "return"
  <2>1. next = [pc |-> pc, snap |-> s, at |-> at]
    BY <1>5 DEF NextCall
  <2>2. next.pc = pc /\ next.snap = s /\ next.at = at
    BY <2>1
  <2>3. EndedIfUntil(s) => FitsStep(pc, s)
    BY DEF Past, EndedIfUntil, FitsStep, TakingSteps
  <2>4. pc \in {"delete", "return"}
    OBVIOUS
  <2> HIDE DEF pc
  <2> QED
    BY <2>2, <2>3, <2>4
<1> QED
  BY <1>1, <1>2, <1>3, <1>4, <1>5

\* The resource a call writes: the copy with the phase that call may give it.
LEMMA WrittenFacts ==
  ASSUME NEW pc \in WriteSteps, NEW s \in Snapshot
  PROVE  /\ Written(pc, s) \in Snapshot
         /\ Written(pc, s).rv = s.rv /\ Written(pc, s).uid = s.uid
         /\ FitsStep(pc, s) =>
              /\ EndedIfUntil(Written(pc, s))
              /\ Written(pc, s).phase \in PhaseSuccessors[s.phase]
              /\ pc = "start" => Written(pc, s).phase = "InProgress"
<1>1. ASSUME NEW ph \in Phases, NEW re \in Reasons
      PROVE  /\ Marked(s, ph, re) \in Snapshot
             /\ Marked(s, ph, re).phase = ph /\ Marked(s, ph, re).until = s.until
             /\ Marked(s, ph, re).rv = s.rv /\ Marked(s, ph, re).uid = s.uid
  BY DEF Marked, Snapshot
<1>2. CASE pc = "stop"
  <2>1. Written(pc, s) = Marked(s, "Failed", "stopped")
    BY <1>2 DEF Written
  <2> QED
    BY <2>1, <1>1, <1>2 DEF Phases, Reasons, FitsStep, EndedIfUntil, PhaseSuccessors, TakingSteps
<1>3. CASE pc = "start"
  <2>1. Written(pc, s) = Marked(s, "InProgress", "")
    BY <1>3 DEF Written
  <2> QED
    BY <2>1, <1>1, <1>3 DEF Phases, Reasons, FitsStep, EndedIfUntil, PhaseSuccessors, TakingSteps
<1>4. CASE pc = "complete"
  <2>1. Written(pc, s) = Marked(s, "Completed", "")
    BY <1>4 DEF Written
  <2> QED
    BY <2>1, <1>1, <1>4 DEF Phases, Reasons, FitsStep, EndedIfUntil, PhaseSuccessors, TakingSteps
<1>5. CASE pc \in {"fail", "deletefail"}
  <2>1. Written(pc, s) = Marked(s, "Failed", "error")
    BY <1>5 DEF Written
  <2> QED
    BY <2>1, <1>1, <1>5 DEF Phases, Reasons, FitsStep, EndedIfUntil, PhaseSuccessors, TakingSteps
<1>6. CASE pc = "past"
  <2>1. Written(pc, s) = Marked(s, "Failed", "past")
    BY <1>6 DEF Written
  <2> QED
    BY <2>1, <1>1, <1>6 DEF Phases, Reasons, FitsStep, EndedIfUntil, PhaseSuccessors, TakingSteps
<1>7. CASE pc = "queue"
  <2>1. Written(pc, s) = Marked(s, "InQueue", "")
    BY <1>7 DEF Written
  <2> QED
    BY <2>1, <1>1, <1>7 DEF Phases, Reasons, FitsStep, EndedIfUntil, PhaseSuccessors, TakingSteps
<1>8. CASE pc \in {"expire", "edit"}
  <2>1. Written(pc, s) = s
    BY <1>8 DEF Written
  <2> QED
    BY <2>1, <1>8 DEF Phases, FitsStep, EndedIfUntil, PhaseSuccessors, TakingSteps
<1> QED
  BY <1>2, <1>3, <1>4, <1>5, <1>6, <1>7, <1>8 DEF WriteSteps

\* Where a thread goes after a write, with the resource x it wrote.
LEMMA AfterWriteFacts ==
  ASSUME Constants, now \in Nat, NEW k \in Task, k.pc \in WriteSteps, NEW x \in Snapshot
  PROVE  LET next == AfterWrite(k, x) IN
           /\ next.pc \in {"past", "queue", "expire", "edit", "delete", "return", "bucket"}
           /\ next.at \in Nat
           /\ next.snap \in Snapshot
           /\ next.snap.rv = x.rv /\ next.snap.uid = x.uid /\ next.snap.phase = x.phase
           /\ EndedIfUntil(x) /\ (k.pc = "start" => x.phase = "InProgress") =>
                FitsStep(next.pc, next.snap)
<1> DEFINE next == AfterWrite(k, x)
<1>0. k.at \in Nat
  BY DEF Task
<1>1. CASE k.pc = "start"
  <2>1. next = [pc |-> "bucket", snap |-> x, at |-> 0]
    BY <1>1 DEF AfterWrite
  <2>2. next.pc = "bucket" /\ next.snap = x /\ next.at = 0
    BY <2>1
  <2> QED
    BY <2>2, <1>1 DEF FitsStep, TakingSteps
<1>2. CASE k.pc \in {"fail", "past", "deletefail"}
  <2>1. next = [pc |-> "return", snap |-> x, at |-> k.at]
    BY <1>2 DEF AfterWrite
  <2>2. next.pc = "return" /\ next.snap = x /\ next.at = k.at
    BY <2>1
  <2> QED
    BY <2>2, <1>0 DEF FitsStep, TakingSteps
<1>3. CASE k.pc \in {"stop", "complete"}
  <2>1. next = NextCall(x, now)
    BY <1>3 DEF AfterWrite
  <2> QED
    BY <2>1, <1>3, NextCallType
<1>4. CASE k.pc \in {"queue", "expire", "edit"}
  <2>1. next = NextCall(x, k.at)
    BY <1>4 DEF AfterWrite
  <2> QED
    BY <2>1, <1>0, <1>4, NextCallType
<1> QED
  BY <1>1, <1>2, <1>3, <1>4 DEF WriteSteps

-----------------------------------------------------------------------------
(* Type correctness.                                                       *)

\* Moving to the next call keeps the threads' types.
LEMMA ProceedType ==
  ASSUME TypeOK, NEW t \in Threads, NEW n \in Names, NEW next,
         next.pc \in Steps \cup {"return"}, next.snap \in Snapshot, next.at \in Nat,
         Proceed(t, n, next)
  PROVE  thread' \in [Threads -> Task \cup {Idle}]
<1>1. next.pc # "return" =>
        [pc |-> next.pc, key |-> n, snap |-> next.snap, at |-> next.at] \in Task
  BY DEF Task
<1> QED
  BY <1>1 DEF Proceed, TypeOK

\* So does going on with the same key.
LEMMA GotoType ==
  ASSUME TypeOK, NEW t \in Threads, Busy(t), NEW pc \in Steps, NEW x \in Snapshot,
         Goto(t, pc, x)
  PROVE  thread' \in [Threads -> Task \cup {Idle}]
<1>1. thread[t] \in Task
  BY DEF TypeOK, Busy
<1>2. [thread[t] EXCEPT !.pc = pc, !.snap = x] \in Task
  BY <1>1 DEF Task
<1> QED
  BY <1>2 DEF Goto, TypeOK

\* A queue of notifications stays one.
LEMMA EnqueuedType ==
  ASSUME NEW q \in Seq(Note)
  PROVE  Enqueued(q) \in Seq(Note)
<1>1. [op |-> "enqueue"] \in Note
  BY DEF Note
<1> QED
  BY <1>1 DEF Enqueued

\* The resource a thread is about to write.
LEMMA TargetType ==
  ASSUME TypeOK, NEW t \in Threads, Writing(t)
  PROVE  thread[t] \in Task /\ thread[t].pc \in WriteSteps /\ Target(t) \in Snapshot
<1>1. thread[t] \in Task
  BY DEF TypeOK, Writing, Busy
<1>2. thread[t].snap \in Snapshot /\ thread[t].pc \in WriteSteps
  BY <1>1 DEF Task, Writing
<1> QED
  BY <1>1, <1>2, WrittenFacts DEF Target

\* Every step of the users, the clock and the informer keeps the types.
LEMMA EnvironmentType ==
  ASSUME TypeOK, Environment
  PROVE  TypeOK'
<1> USE DEF TypeOK, storeVars, apiVars, queueVars, fileVars
<1>1. CASE Tick /\ UNCHANGED thread
  BY <1>1 DEF Tick, StoreTypeOK
<1>2. ASSUME NEW n \in Names, UserCreate(n), UNCHANGED thread
      PROVE  TypeOK'
  <2>1. PICK x \in Snapshot : Create(n, x) /\ x.phase = "" /\ x.until = 0
    BY <1>2, UserCreateFacts
  <2>2. budget' \in [BudgetKinds -> Nat]
    BY <1>2, SpendType DEF UserCreate, BudgetKinds
  <2> QED
    BY <1>2, <2>1, <2>2, CreateType DEF UserCreate, StoreTypeOK
<1>3. ASSUME NEW n \in Names, UserEdit(n), UNCHANGED thread
      PROVE  TypeOK'
  <2>1. PICK u \in Untils \ {snaps[n].specUntil} : Put(n, [snaps[n] EXCEPT !.specUntil = u])
    BY <1>3 DEF UserEdit
  <2>2. u \in Nat
    BY StoreAssumption DEF StoreAssumption
  <2>3. snaps[n] \in Snapshot
    BY <1>3 DEF UserEdit, Exists, StoreTypeOK
  <2>4. [snaps[n] EXCEPT !.specUntil = u] \in Snapshot
    BY <2>2, <2>3 DEF Snapshot
  <2>5. budget' \in [BudgetKinds -> Nat]
    BY <1>3, SpendType DEF UserEdit, BudgetKinds
  <2> QED
    BY <1>3, <2>1, <2>4, <2>5, PutType DEF UserEdit, StoreTypeOK
<1>4. ASSUME NEW n \in Names, UserDelete(n), UNCHANGED thread
      PROVE  TypeOK'
  <2>1. budget' \in [BudgetKinds -> Nat]
    BY <1>4, SpendType DEF UserDelete, BudgetKinds
  <2> QED
    BY <1>4, <2>1, DeleteType DEF UserDelete, StoreTypeOK
<1> QED
  BY <1>1, <1>2, <1>3, <1>4 DEF Environment, User

\* Every step of the informer and its handlers keeps the types.
LEMMA InformerType ==
  ASSUME TypeOK, NEW n \in Names, Informer(n)
  PROVE  TypeOK'
<1> USE DEF TypeOK, storeVars, apiVars, queueVars, fileVars
<1>0. notes[n] \in Seq(Note) /\ watch[n] \in Seq(Event)
  BY DEF StoreTypeOK
<1>1. CASE Deliver(n)
  <2>1. watch[n] # <<>> /\ Head(watch[n]) \in Event /\ Tail(watch[n]) \in Seq(Event)
    BY <1>0, <1>1 DEF Deliver
  <2>2. Head(watch[n]).snap \in Snapshot
    BY <2>1 DEF Event
  <2>3. [op |-> "delete", config |-> Head(watch[n]).snap.config] \in Note
    BY <2>2 DEF Note, Snapshot
  <2>4. /\ Enqueued(notes[n]) \in Seq(Note)
        /\ Append(notes[n], [op |-> "delete", config |-> Head(watch[n]).snap.config]) \in Seq(Note)
    BY <1>0, <2>3, EnqueuedType
  <2>5. /\ lister' \in [Names -> Snapshot \cup {NoSnap}]
        /\ notes' \in [Names -> Seq(Note)]
        /\ watch' \in [Names -> Seq(Event)]
    BY <1>1, <2>1, <2>2, <2>4 DEF Deliver, StoreTypeOK
  <2> QED
    BY <1>1, <2>5 DEF Deliver, StoreTypeOK
<1>2. CASE Relist(n)
  <2>1. budget' \in [BudgetKinds -> Nat]
    BY <1>2, SpendType DEF Relist, BudgetKinds
  <2>2. /\ lister' \in [Names -> Snapshot \cup {NoSnap}]
        /\ notes' \in [Names -> Seq(Note)]
        /\ watch' \in [Names -> Seq(Event)]
    BY <1>0, <1>2, EnqueuedType DEF Relist, StoreTypeOK
  <2> QED
    BY <1>2, <2>1, <2>2 DEF Relist, StoreTypeOK
<1>3. CASE Resync(n)
  BY <1>0, <1>3, EnqueuedType DEF Resync, StoreTypeOK
<1>4. CASE EnqueueSnapshot(n)
  <2>1. Tail(notes[n]) \in Seq(Note)
    BY <1>0, <1>4 DEF EnqueueSnapshot
  <2> QED
    BY <2>1, <1>4 DEF EnqueueSnapshot, StoreTypeOK
<1>5. CASE DeleteSnapshot(n)
  <2>1. Tail(notes[n]) \in Seq(Note)
    BY <1>0, <1>5 DEF DeleteSnapshot
  <2>2. notes' \in [Names -> Seq(Note)]
    BY <2>1, <1>5 DEF DeleteSnapshot, StoreTypeOK
  <2>3. Head(notes[n]) \in Note /\ Head(notes[n]).op = "delete"
    BY <1>0, <1>5 DEF DeleteSnapshot
  <2>4. Head(notes[n]).config \in Buckets
    BY <2>3 DEF Note
  <2>5. objects' \in [Buckets -> [Names -> Object \cup {NoObject}]]
    <3> DEFINE b == Head(notes[n]).config
    <3>1. [objects[b] EXCEPT ![n] = NoObject] \in [Names -> Object \cup {NoObject}]
      BY <2>4 DEF StoreTypeOK
    <3>2. objects' = objects \/ objects' = [objects EXCEPT ![b] = [objects[b] EXCEPT ![n] = NoObject]]
      BY <1>5 DEF DeleteSnapshot
    <3> QED
      BY <2>4, <3>1, <3>2 DEF StoreTypeOK
  <2>6. budget' \in [BudgetKinds -> Nat]
    BY <1>5, SpendType DEF DeleteSnapshot, StoreTypeOK, BudgetKinds
  <2> QED
    BY <1>5, <2>2, <2>5, <2>6 DEF DeleteSnapshot, StoreTypeOK
<1>6. CASE Ready(n)
  BY <1>6 DEF Ready, StoreTypeOK
<1> QED
  BY <1>1, <1>2, <1>3, <1>4, <1>5, <1>6 DEF Informer

\* The first call of a handler, on a copy of the lister.
LEMMA FirstCallFacts ==
  ASSUME Constants, now \in Nat, NEW t, NEW s \in Snapshot
  PROVE  LET next == FirstCall(t, s) IN
           /\ next.pc \in {"stop", "start", "past", "queue", "expire", "edit", "delete", "return"}
           /\ next.at \in Nat
           /\ next.snap \in Snapshot
           /\ next.snap.rv = s.rv /\ next.snap.uid = s.uid /\ next.snap.phase = s.phase
           /\ EndedIfUntil(s) => EndedIfUntil(next.snap) /\ FitsStep(next.pc, next.snap)
<1> DEFINE next == FirstCall(t, s)
           starts == t \in Workers /\ s.phase = "InQueue"
<1>1. CASE TimedOut(s)
  <2>1. next = [pc |-> "stop", snap |-> s, at |-> 0]
    BY <1>1 DEF FirstCall
  <2>2. next.pc = "stop" /\ next.snap = s /\ next.at = 0
    BY <2>1
  <2> QED
    BY <2>2, <1>1 DEF FitsStep, TakingSteps, TimedOut
<1>2. CASE ~TimedOut(s) /\ starts
  <2>1. next = [pc |-> "start", snap |-> s, at |-> 0]
    BY <1>2 DEF FirstCall
  <2>2. next.pc = "start" /\ next.snap = s /\ next.at = 0
    BY <2>1
  <2>3. EndedIfUntil(s) => FitsStep("start", s)
    BY <1>2 DEF FitsStep, TakingSteps, EndedIfUntil, Snapshot
  <2> QED
    BY <2>2, <2>3
<1>3. CASE ~TimedOut(s) /\ ~starts
  <2>1. next = NextCall(s, now)
    BY <1>3 DEF FirstCall
  <2> QED
    BY <2>1, NextCallType
<1> QED
  BY <1>1, <1>2, <1>3

\* Every step of a thread keeps the types.
LEMMA ThreadType ==
  ASSUME Constants, TypeOK, NEW t \in Threads, ThreadNext(t)
  PROVE  TypeOK'
<1> USE DEF storeVars, apiVars, queueVars, fileVars
<1>0. now \in Nat
  BY DEF TypeOK, StoreTypeOK
<1>1. ASSUME NEW n \in Names, StartSync(t, n)
      PROVE  TypeOK'
  <2>1. CASE lister[n] = NoSnap /\ UNCHANGED <<lister, thread>>
    BY <1>1, <2>1 DEF StartSync, TypeOK, StoreTypeOK
  <2>2. CASE lister[n] # NoSnap
    <3> DEFINE next == FirstCall(t, lister[n])
    <3>1. lister[n] \in Snapshot
      BY <2>2 DEF TypeOK, StoreTypeOK
    <3>2. next.pc \in Steps \cup {"return"} /\ next.at \in Nat /\ next.snap \in Snapshot
      BY <1>0, <3>1, FirstCallFacts DEF Steps, WriteSteps
    <3>3. Proceed(t, n, next) /\ lister' = [lister EXCEPT ![n] = next.snap]
      BY <1>1, <2>2 DEF StartSync
    <3>4. thread' \in [Threads -> Task \cup {Idle}]
      BY <3>2, <3>3, ProceedType
    <3> HIDE DEF next
    <3>5. lister' \in [Names -> Snapshot \cup {NoSnap}]
      BY <3>2, <3>3 DEF TypeOK, StoreTypeOK
    <3> QED
      BY <1>1, <3>4, <3>5 DEF StartSync, TypeOK, StoreTypeOK
  <2> QED
    BY <1>1, <2>1, <2>2 DEF StartSync
<1>2. Busy(t) => /\ thread[t] \in Task /\ thread[t].key \in Names
                 /\ thread[t].snap \in Snapshot
  BY DEF TypeOK, Busy, Task
<1>3. ASSUME Busy(t), Requeue(t)
      PROVE  /\ thread' \in [Threads -> Task \cup {Idle}]
             /\ delayed' \subseteq Names /\ notes' = notes /\ dirty' = dirty
  BY <1>2, <1>3 DEF Requeue, TypeOK, StoreTypeOK
<1>4. ASSUME NEW kind \in BudgetKinds, Spend(kind)
      PROVE  budget' \in [BudgetKinds -> Nat]
  BY <1>4, SpendType DEF TypeOK
<1>5. CASE UpdateAccepted(t)
  <2> DEFINE x == Returned(thread[t].key, Target(t))
             next == AfterWrite(thread[t], x)
  <2>1. /\ thread[t] \in Task /\ thread[t].key \in Names
        /\ thread[t].pc \in WriteSteps /\ Target(t) \in Snapshot
    BY <1>2, <1>5, TargetType DEF UpdateAccepted, Writing
  <2>2. x \in Snapshot
    BY <1>5, <2>1, ReturnedType DEF UpdateAccepted, Fresh, TypeOK
  <2>3. next.pc \in Steps \cup {"return"} /\ next.at \in Nat /\ next.snap \in Snapshot
    BY <1>0, <2>1, <2>2, AfterWriteFacts DEF Steps, WriteSteps, TakingSteps
  <2>4. Proceed(t, thread[t].key, next) /\ Update(thread[t].key, Target(t))
    BY <1>5 DEF UpdateAccepted
  <2> HIDE DEF x, next
  <2>5. thread' \in [Threads -> Task \cup {Idle}]
    BY <2>1, <2>3, <2>4, ProceedType
  <2>6. /\ snaps' \in [Names -> Snapshot \cup {NoSnap}]
        /\ ver' \in [Names -> Nat] /\ watch' \in [Names -> Seq(Event)]
    BY <2>1, <2>4, UpdateType DEF TypeOK
  <2> QED
    BY <1>5, <2>5, <2>6 DEF UpdateAccepted, TypeOK, StoreTypeOK
<1>6. CASE UpdateRefused(t)
  BY <1>3, <1>6 DEF UpdateRefused, Writing, TypeOK, StoreTypeOK
<1>7. CASE UpdateFailed(t)
  BY <1>3, <1>4, <1>7 DEF UpdateFailed, Writing, TypeOK, StoreTypeOK, BudgetKinds
<1>8. CASE UpdateUnanswered(t)
  <2>1. /\ thread[t].key \in Names /\ Target(t) \in Snapshot
    BY <1>2, <1>8, TargetType DEF UpdateUnanswered, Writing
  <2>2. /\ snaps' \in [Names -> Snapshot \cup {NoSnap}]
        /\ ver' \in [Names -> Nat] /\ watch' \in [Names -> Seq(Event)]
    BY <1>8, <2>1, UpdateType DEF UpdateUnanswered, TypeOK
  <2> QED
    BY <1>3, <1>4, <1>8, <2>2 DEF UpdateUnanswered, Writing, TypeOK, StoreTypeOK, BudgetKinds
<1>9. CASE GetBucket(t)
  BY <1>2, <1>9, GotoType DEF GetBucket, At, Steps, TakingSteps, TypeOK, StoreTypeOK
<1>10. CASE TakeSnapshot(t)
  <2> DEFINE s == thread[t].snap
             u == IF s.specUntil = 0 THEN now + s.ttl ELSE s.specUntil
  <2>1. Busy(t) /\ s \in Snapshot
    BY <1>2, <1>10 DEF TakeSnapshot, At
  <2>2. u \in Nat
    BY <1>0, <2>1 DEF Snapshot
  <2>3. [s EXCEPT !.until = u] \in Snapshot
    BY <2>1, <2>2 DEF Snapshot
  <2> QED
    BY <2>1, <2>3, <1>10, GotoType DEF TakeSnapshot, Steps, TakingSteps, TypeOK, StoreTypeOK
<1>11. CASE Upload(t)
  <2> DEFINE n == thread[t].key
             s == thread[t].snap
             o == [stamp |-> uploads[n] + 1, json |-> Json(s)]
  <2>1. Busy(t) /\ s \in Snapshot /\ n \in Names
    BY <1>2, <1>11 DEF Upload, At
  <2>2. Json(s) \in Snapshot /\ s.config \in Buckets
    BY <2>1 DEF Json, Snapshot, Phases
  <2>3. uploads[n] + 1 \in Nat \ {0}
    BY <2>1 DEF TypeOK, StoreTypeOK
  <2>4. o \in Object
    BY <2>2, <2>3 DEF Object
  <2>5. objects' = [objects EXCEPT ![s.config] = [objects[s.config] EXCEPT ![n] = o]]
    BY <1>11 DEF Upload
  <2>6. [objects[s.config] EXCEPT ![n] = o] \in [Names -> Object \cup {NoObject}]
    BY <2>1, <2>2, <2>4 DEF TypeOK, StoreTypeOK
  <2>7. objects' \in [Buckets -> [Names -> Object \cup {NoObject}]]
    BY <2>2, <2>5, <2>6 DEF TypeOK, StoreTypeOK
  <2>8. uploads' \in [Names -> Nat]
    BY <1>11, <2>3 DEF Upload, TypeOK, StoreTypeOK
  <2>9. thread' \in [Threads -> Task \cup {Idle}]
    BY <1>11, <2>1, GotoType DEF Upload, Steps, TakingSteps
  <2> QED
    BY <1>11, <2>7, <2>8, <2>9 DEF Upload, TypeOK, StoreTypeOK
<1>12. CASE ObjectInfo(t)
  <2> DEFINE s == thread[t].snap
             o == objects[s.config][thread[t].key]
  <2>1. Busy(t) /\ s \in Snapshot /\ thread[t].key \in Names
    BY <1>2, <1>12 DEF ObjectInfo, At
  <2>2. CASE o # NoObject /\ Goto(t, "complete", [s EXCEPT !.stored = o.stamp])
    <3>1. o \in Object
      BY <2>1, <2>2 DEF TypeOK, StoreTypeOK, Snapshot
    <3>2. o.stamp \in Nat
      BY <3>1 DEF Object
    <3> HIDE DEF o
    <3>3. [s EXCEPT !.stored = o.stamp] \in Snapshot
      BY <2>1, <3>2 DEF Snapshot
    <3> QED
      BY <2>1, <2>2, <3>3, <1>12, GotoType DEF ObjectInfo, Steps, TakingSteps, TypeOK, StoreTypeOK
  <2>3. CASE Goto(t, "upload", s) \/ Goto(t, "fail", s)
    BY <2>1, <2>3, <1>12, GotoType DEF ObjectInfo, Steps, TakingSteps, TypeOK, StoreTypeOK
  <2> QED
    BY <1>12, <2>2, <2>3 DEF ObjectInfo
<1>13. CASE DeleteExpired(t)
  <2>1. thread[t].key \in Names
    BY <1>2, <1>13 DEF DeleteExpired, At
  <2> QED
    BY <1>13, <2>1, DeleteType DEF DeleteExpired, TypeOK, StoreTypeOK
<1>14. CASE DeleteRefused(t)
  BY <1>2, <1>14, GotoType DEF DeleteRefused, At, Steps, WriteSteps, TypeOK, StoreTypeOK
<1>15. CASE ObjectInfoFailed(t)
  BY <1>2, <1>4, <1>15, GotoType DEF ObjectInfoFailed, At, Steps, TakingSteps, BudgetKinds, TypeOK, StoreTypeOK
<1>16. CASE GiveUp(t)
  BY <1>2, <1>4, <1>16, GotoType DEF GiveUp, Steps, TakingSteps, BudgetKinds, TypeOK, StoreTypeOK
<1>17. CASE DeleteFailed(t)
  <2>1. thread[t].key \in Names /\ Busy(t) /\ thread[t].snap \in Snapshot
    BY <1>2, <1>17 DEF DeleteFailed, At
  <2>2. thread' \in [Threads -> Task \cup {Idle}]
    BY <1>17, <2>1, GotoType DEF DeleteFailed, Steps, WriteSteps
  <2>3. budget' \in [BudgetKinds -> Nat]
    BY <1>4, <1>17 DEF DeleteFailed, BudgetKinds
  <2>4. /\ snaps' \in [Names -> Snapshot \cup {NoSnap}]
        /\ ver' \in [Names -> Nat] /\ watch' \in [Names -> Seq(Event)]
    BY <1>17, <2>1, DeleteType DEF DeleteFailed, TypeOK, StoreTypeOK
  <2> QED
    BY <1>17, <2>2, <2>3, <2>4 DEF DeleteFailed, TypeOK, StoreTypeOK
<1> QED
  BY <1>1, <1>5, <1>6, <1>7, <1>8, <1>9, <1>10, <1>11, <1>12, <1>13, <1>14, <1>15, <1>16, <1>17
     DEF ThreadNext, Advance, Fault

\* A restart keeps the types.
LEMMA RestartType ==
  ASSUME TypeOK, Restart
  PROVE  TypeOK'
<1>1. budget' \in [BudgetKinds -> Nat]
  BY SpendType DEF Restart, BudgetKinds, TypeOK
<1>2. <<>> \in Seq(Note) /\ <<>> \in Seq(Event)
  OBVIOUS
<1>3. Enqueued(<<>>) \in Seq(Note)
  BY <1>2, EnqueuedType
<1> QED
  BY <1>1, <1>2, <1>3 DEF Restart, TypeOK, StoreTypeOK, fileVars

\* Every step keeps the types.
LEMMA NextType ==
  ASSUME Constants, TypeOK, [Next]_vars
  PROVE  TypeOK'
<1>1. CASE UNCHANGED vars
  BY <1>1 DEF vars, storeVars, apiVars, queueVars, fileVars, TypeOK, StoreTypeOK
<1> QED
  BY <1>1, EnvironmentType, InformerType, ThreadType, RestartType DEF Next, ControllerNext

\* The initial state has the types.
LEMMA InitType == Constants /\ Init => TypeOK
  BY DEF Constants, StoreAssumption, Init, StoreInit, TypeOK, StoreTypeOK

\* The state always has its types: every version, notification, file and
\* thread is what the code's structures can hold.
THEOREM TypeCorrect == Spec => []TypeOK
<1>0. Constants
  BY StoreAssumption, ThreadAssumption DEF Constants
<1>1. Init => TypeOK
  BY <1>0, InitType
<1>2. TypeOK /\ [Next]_vars => TypeOK'
  BY <1>0, NextType
<1> QED
  BY <1>1, <1>2, PTL DEF Spec

-----------------------------------------------------------------------------
(* The inductive invariant. A step is described by what it does to the     *)
(* store, to the copies on their way to the lister, to the lister and to   *)
(* the threads; the invariant follows from the four descriptions.          *)

\* s and r are copies of the same version, as far as the invariant tells.
Like(s, r) == s.rv = r.rv /\ s.uid = r.uid /\ s.phase = r.phase

\* The store only gives out new versions, and new uids to new resources.
StoreStep(n) ==
  /\ ver[n] <= ver'[n]
  /\ snaps'[n] # NoSnap =>
       /\ snaps'[n].uid <= snaps'[n].rv /\ snaps'[n].rv = ver'[n]
       /\ EndedIfUntil(snaps'[n])
       /\ snaps'[n] = snaps[n] \/ snaps'[n].rv = ver[n] + 1
       /\ (Exists(n) /\ snaps'[n].uid = snaps[n].uid) \/ snaps'[n].uid = ver[n] + 1

\* A resource that stays keeps its phase.
PhaseKept(n) ==
  Exists(n) /\ snaps'[n] # NoSnap /\ snaps'[n].uid = snaps[n].uid =>
    snaps'[n].phase = snaps[n].phase

\* A new event carries what is stored or was stored just before.
WatchStep(n) ==
  \A i \in DOMAIN watch'[n] :
    \/ \E j \in DOMAIN watch[n] : watch'[n][i] = watch[n][j]
    \/ snaps'[n] # NoSnap /\ watch'[n][i].snap = snaps'[n]
    \/ Exists(n) /\ watch'[n][i].snap = snaps[n]

\* The lister gets what an event or the store has, or keeps its version.
ListerStep(n) ==
  lister'[n] # NoSnap =>
    \/ /\ lister[n] # NoSnap /\ Like(lister'[n], lister[n])
       /\ EndedIfUntil(lister[n]) => EndedIfUntil(lister'[n])
    \/ \E j \in DOMAIN watch[n] : lister'[n] = watch[n][j].snap
    \/ lister'[n] = snaps'[n]

\* A thread holds a copy that agreed with the store, or the stored version,
\* and its call fits.
ThreadStep(t) ==
  thread'[t] # Idle =>
    /\ FitsStep(thread'[t].pc, thread'[t].snap)
    /\ \/ Agrees(thread'[t].key, thread'[t].snap)
       \/ snaps'[thread'[t].key] # NoSnap /\ Like(thread'[t].snap, snaps'[thread'[t].key])

\* A thread that keeps its key and its version, or stops.
ThreadKept(t) ==
  thread'[t] # Idle =>
    /\ Busy(t) /\ thread'[t].key = thread[t].key
    /\ Like(thread'[t].snap, thread[t].snap)
    /\ FitsStep(thread'[t].pc, thread'[t].snap)
    /\ thread'[t].pc \in TakingSteps => thread[t].pc \in TakingSteps

\* A copy that agrees with the store still does after a step of the store.
LEMMA AgreesLater ==
  ASSUME TypeOK, TypeOK', NEW n \in Names, StoreStep(n), NEW s \in Snapshot, Agrees(n, s)
  PROVE  /\ s.uid <= s.rv /\ s.rv <= ver'[n]
         /\ snaps'[n] # NoSnap /\ snaps'[n].rv = s.rv =>
              snaps'[n].uid = s.uid /\ s.phase = snaps'[n].phase
<1>1. /\ ver[n] \in Nat /\ ver'[n] \in Nat /\ s.rv \in Nat
      /\ s.uid <= s.rv /\ s.rv <= ver[n]
  BY DEF TypeOK, StoreTypeOK, Snapshot, Agrees
<1>2. ASSUME snaps'[n] # NoSnap, snaps'[n].rv = s.rv
      PROVE  snaps'[n].uid = s.uid /\ s.phase = snaps'[n].phase
  <2>1. snaps'[n] = snaps[n]
    BY <1>1, <1>2 DEF StoreStep
  <2> QED
    BY <1>2, <2>1 DEF Agrees, Fresh, SameResource, Exists
<1> QED
  BY <1>1, <1>2 DEF StoreStep

\* The invariant follows from the descriptions of a step.
LEMMA StepsKeepInv ==
  ASSUME IndInv, TypeOK', OneThreadPerKey', TakerOwnsResource',
         \A n \in Names : StoreStep(n) /\ WatchStep(n) /\ ListerStep(n),
         \A t \in Threads : ThreadStep(t)
  PROVE  IndInv'
<1>0. TypeOK /\ CopiesAgree /\ UntilOnlyWhenEnded
  BY DEF IndInv
<1>1. ASSUME NEW n \in Names, NEW i \in DOMAIN watch'[n]
      PROVE  Agrees(n, watch[n][i].snap)' /\ EndedIfUntil(watch'[n][i].snap)
  <2>1. watch'[n][i].snap \in Snapshot
    <3>1. watch'[n] \in Seq(Event)
      BY DEF TypeOK, StoreTypeOK
    <3>2. watch'[n][i] \in Event
      BY <3>1, <1>1
    <3> QED
      BY <3>2 DEF Event
  <2>2. CASE \E j \in DOMAIN watch[n] : watch'[n][i] = watch[n][j]
    <3>1. Agrees(n, watch'[n][i].snap) /\ EndedIfUntil(watch'[n][i].snap)
      BY <1>0, <2>2 DEF CopiesAgree, UntilOnlyWhenEnded
    <3> QED
      BY <1>0, <2>1, <3>1, AgreesLater DEF Agrees, Fresh, Exists, SameResource
  <2>3. CASE snaps'[n] # NoSnap /\ watch'[n][i].snap = snaps'[n]
    BY <2>1, <2>3 DEF StoreStep, Agrees, Fresh, Exists, SameResource, Snapshot
  <2>4. CASE Exists(n) /\ watch'[n][i].snap = snaps[n]
    <3>1. Agrees(n, watch'[n][i].snap) /\ EndedIfUntil(watch'[n][i].snap)
      <4>1. snaps[n].uid <= snaps[n].rv /\ snaps[n].rv = ver[n] /\ ver[n] \in Nat
        BY <1>0, <2>4 DEF CopiesAgree, TypeOK, StoreTypeOK
      <4> QED
        BY <1>0, <2>4, <4>1 DEF UntilOnlyWhenEnded, Agrees, Fresh, SameResource
    <3> QED
      BY <1>0, <2>1, <3>1, AgreesLater DEF Agrees, Fresh, Exists, SameResource
  <2> QED
    BY <2>2, <2>3, <2>4 DEF WatchStep
<1>2. ASSUME NEW n \in Names, lister'[n] # NoSnap
      PROVE  Agrees(n, lister[n])' /\ EndedIfUntil(lister'[n])
  <2>1. lister'[n] \in Snapshot
    BY <1>2 DEF TypeOK, StoreTypeOK
  <2>2. CASE /\ lister[n] # NoSnap /\ Like(lister'[n], lister[n])
             /\ EndedIfUntil(lister[n]) => EndedIfUntil(lister'[n])
    <3>1. Agrees(n, lister'[n]) /\ EndedIfUntil(lister'[n])
      BY <1>0, <2>2 DEF CopiesAgree, UntilOnlyWhenEnded, Like, Agrees, Fresh, SameResource
    <3> QED
      BY <1>0, <2>1, <3>1, AgreesLater DEF Agrees, Fresh, Exists, SameResource
  <2>3. CASE \E j \in DOMAIN watch[n] : lister'[n] = watch[n][j].snap
    <3>1. Agrees(n, lister'[n]) /\ EndedIfUntil(lister'[n])
      BY <1>0, <2>3 DEF CopiesAgree, UntilOnlyWhenEnded
    <3> QED
      BY <1>0, <2>1, <3>1, AgreesLater DEF Agrees, Fresh, Exists, SameResource
  <2>4. CASE lister'[n] = snaps'[n]
    BY <1>2, <2>1, <2>4 DEF StoreStep, Agrees, Fresh, Exists, SameResource, Snapshot
  <2> QED
    BY <1>2, <2>2, <2>3, <2>4 DEF ListerStep
<1>3. ASSUME NEW t \in Threads, thread'[t] # Idle
      PROVE  Agrees(thread[t].key, thread[t].snap)'
  <2> DEFINE n == thread'[t].key
             s == thread'[t].snap
  <2>1. n \in Names /\ s \in Snapshot
    BY <1>3 DEF TypeOK, Task
  <2>2. CASE Agrees(n, s)
    <3> HIDE DEF n, s
    <3>1. StoreStep(n)
      BY <2>1
    <3>2. /\ s.uid <= s.rv /\ s.rv <= ver'[n]
          /\ snaps'[n] # NoSnap /\ snaps'[n].rv = s.rv =>
               snaps'[n].uid = s.uid /\ s.phase = snaps'[n].phase
      BY <1>0, <2>1, <2>2, <3>1, AgreesLater
    <3> QED
      BY <3>2 DEF Agrees, Fresh, Exists, SameResource, n, s
  <2>3. CASE snaps'[n] # NoSnap /\ Like(s, snaps'[n])
    <3>1. StoreStep(n) /\ ver'[n] \in Nat
      BY <2>1 DEF TypeOK, StoreTypeOK
    <3> QED
      BY <2>1, <2>3, <3>1 DEF StoreStep, Like, Agrees, Fresh, Exists, SameResource
  <2> QED
    BY <1>3, <2>2, <2>3 DEF ThreadStep
<1>4. CopiesAgree'
  BY <1>1, <1>2, <1>3 DEF CopiesAgree, Exists, Busy, StoreStep
<1>5. UntilOnlyWhenEnded'
  BY <1>1, <1>2 DEF UntilOnlyWhenEnded, Exists, StoreStep, EndedIfUntil
<1>6. StepFitsPhase'
  BY DEF StepFitsPhase, Busy, ThreadStep, FitsStep
<1> QED
  BY <1>4, <1>5, <1>6 DEF IndInv

\* Threads that keep what they hold, over a store that keeps the phases,
\* keep their part of the invariant.
LEMMA KeptThreads ==
  ASSUME IndInv, TypeOK',
         \A n \in Names : StoreStep(n) /\ PhaseKept(n),
         \A t \in Threads : ThreadKept(t)
  PROVE  /\ \A t \in Threads : ThreadStep(t)
         /\ OneThreadPerKey'
         /\ TakerOwnsResource'
<1>0. /\ TypeOK /\ CopiesAgree /\ OneThreadPerKey /\ TakerOwnsResource
  BY DEF IndInv
<1>1. ASSUME NEW t \in Threads PROVE ThreadStep(t)
  BY <1>0 DEF ThreadKept, ThreadStep, CopiesAgree, Busy, Like, Agrees, Fresh, SameResource
<1>2. OneThreadPerKey'
  BY <1>0 DEF ThreadKept, OneThreadPerKey, Busy
<1>3. ASSUME NEW t \in Threads, NEW n \in Names,
             thread'[t] # Idle, thread'[t].key = n, thread'[t].pc \in TakingSteps,
             snaps'[n] # NoSnap, snaps'[n].uid = thread'[t].snap.uid
      PROVE  snaps'[n].phase = "InProgress"
  <2>1. TakerOf(t, n) /\ thread[t].snap.uid = snaps'[n].uid
    BY <1>3 DEF ThreadKept, TakerOf, Like
  <2>2. /\ thread[t].snap \in Snapshot /\ ver[n] \in Nat
        /\ Agrees(n, thread[t].snap)
    BY <1>0, <2>1 DEF TakerOf, CopiesAgree, TypeOK, StoreTypeOK, Busy, Task
  <2>3. snaps'[n].uid # ver[n] + 1
    BY <2>1, <2>2 DEF Agrees, Snapshot
  <2>4. Exists(n) /\ snaps'[n].uid = snaps[n].uid
    BY <1>3, <2>3 DEF StoreStep
  <2>5. snaps[n].phase = "InProgress"
    BY <1>0, <2>1, <2>4 DEF TakerOwnsResource, SameResource
  <2> QED
    BY <1>3, <2>4, <2>5 DEF PhaseKept
<1>4. TakerOwnsResource'
  BY <1>3 DEF TakerOwnsResource, TakerOf, Busy, SameResource, Exists
<1> QED
  BY <1>1, <1>2, <1>4
-----------------------------------------------------------------------------
(* What the store's operations do, in these terms.                         *)

\* Without a call to the API server the store and the watch stay.
LEMMA ApiKept ==
  ASSUME IndInv, UNCHANGED apiVars, NEW n \in Names
  PROVE  StoreStep(n) /\ PhaseKept(n) /\ WatchStep(n)
<1>1. /\ ver[n] \in Nat
      /\ Exists(n) => /\ snaps[n].uid <= snaps[n].rv /\ snaps[n].rv = ver[n]
                      /\ EndedIfUntil(snaps[n])
  BY DEF IndInv, TypeOK, StoreTypeOK, CopiesAgree, UntilOnlyWhenEnded
<1> QED
  BY <1>1 DEF apiVars, StoreStep, PhaseKept, WatchStep, Exists

\* What storing a version does.
LEMMA PutFacts ==
  ASSUME TypeOK, NEW n \in Names, NEW x \in Snapshot, Put(n, x)
  PROVE  /\ \A m \in Names : WatchStep(m)
         /\ \A m \in Names \ {n} : snaps'[m] = snaps[m] /\ ver'[m] = ver[m]
         /\ snaps'[n] # NoSnap /\ snaps'[n] = [x EXCEPT !.rv = ver[n] + 1]
         /\ ver'[n] = ver[n] + 1
<1> DEFINE y == [x EXCEPT !.rv = ver[n] + 1]
           e == [type |-> "set", snap |-> y]
<1>0. ver[n] \in Nat /\ watch[n] \in Seq(Event)
  BY DEF TypeOK, StoreTypeOK
<1>1. y \in Snapshot
  BY <1>0 DEF Snapshot
<1>2. /\ snaps' = [snaps EXCEPT ![n] = y]
      /\ ver' = [ver EXCEPT ![n] = @ + 1]
      /\ watch' = [watch EXCEPT ![n] = Append(watch[n], e)]
  BY DEF Put
<1>3. y # NoSnap
  BY <1>1, AbsenceAssumption
<1> HIDE DEF y
<1>4. /\ snaps'[n] = y /\ ver'[n] = ver[n] + 1
      /\ watch'[n] = Append(watch[n], e)
  BY <1>0, <1>2 DEF TypeOK, StoreTypeOK
<1>5. ASSUME NEW m \in Names \ {n}
      PROVE  snaps'[m] = snaps[m] /\ ver'[m] = ver[m] /\ watch'[m] = watch[m]
  BY <1>2 DEF TypeOK, StoreTypeOK
<1>6. WatchStep(n)
  <2> SUFFICES ASSUME NEW i \in DOMAIN watch'[n]
               PROVE  \/ \E j \in DOMAIN watch[n] : watch'[n][i] = watch[n][j]
                      \/ watch'[n][i].snap = y
    BY <1>3, <1>4 DEF WatchStep
  <2>1. CASE i \in DOMAIN watch[n]
    <3>1. watch'[n][i] = watch[n][i]
      BY <1>0, <1>4, <2>1
    <3> QED
      BY <2>1, <3>1
  <2>2. CASE i \notin DOMAIN watch[n]
    <3>1. i = Len(watch[n]) + 1
      BY <1>0, <1>4, <2>2
    <3>2. watch'[n][i] = e
      BY <1>0, <1>4, <3>1
    <3> QED
      BY <3>2
  <2> QED
    BY <2>1, <2>2
<1>7. ASSUME NEW m \in Names \ {n} PROVE WatchStep(m)
  BY <1>5 DEF WatchStep
<1> QED
  BY <1>3, <1>4, <1>5, <1>6, <1>7 DEF y

\* Storing a version of the resource, or of a new one.
LEMMA PutStep ==
  ASSUME IndInv, NEW n \in Names, NEW x \in Snapshot, Put(n, x), EndedIfUntil(x),
         x.uid = ver[n] + 1 \/ (Exists(n) /\ x.uid = snaps[n].uid)
  PROVE  /\ \A m \in Names : StoreStep(m) /\ WatchStep(m)
         /\ \A m \in Names \ {n} : PhaseKept(m) /\ snaps'[m] = snaps[m]
         /\ snaps'[n] # NoSnap /\ snaps'[n] = [x EXCEPT !.rv = ver[n] + 1]
<1> DEFINE y == [x EXCEPT !.rv = ver[n] + 1]
<1>0. /\ TypeOK /\ ver[n] \in Nat
      /\ \A m \in Names : Exists(m) => /\ snaps[m].uid <= snaps[m].rv /\ snaps[m].rv = ver[m]
                                       /\ EndedIfUntil(snaps[m])
  BY DEF IndInv, TypeOK, StoreTypeOK, CopiesAgree, UntilOnlyWhenEnded
<1>1. y \in Snapshot /\ y.rv = ver[n] + 1 /\ y.uid = x.uid /\ EndedIfUntil(y)
  BY <1>0 DEF Snapshot, EndedIfUntil
<1> HIDE DEF y
<1>2. /\ \A m \in Names : WatchStep(m)
      /\ \A m \in Names \ {n} : snaps'[m] = snaps[m] /\ ver'[m] = ver[m]
      /\ snaps'[n] # NoSnap /\ snaps'[n] = y /\ ver'[n] = ver[n] + 1
  BY <1>0, PutFacts DEF y
<1>3. StoreStep(n)
  <2>1. x.uid <= ver[n] + 1
    BY <1>0 DEF TypeOK, StoreTypeOK, Exists, Snapshot
  <2> QED
    BY <1>0, <1>1, <1>2, <2>1 DEF StoreStep
<1>4. ASSUME NEW m \in Names \ {n}
      PROVE  StoreStep(m) /\ PhaseKept(m)
  <2>1. ver[m] \in Nat
    BY <1>0 DEF TypeOK, StoreTypeOK
  <2> QED
    BY <1>0, <1>2, <2>1 DEF StoreStep, PhaseKept, Exists
<1> QED
  BY <1>2, <1>3, <1>4 DEF y

\* What deleting a resource does.
LEMMA DeleteFacts ==
  ASSUME TypeOK, NEW n \in Names, Delete(n)
  PROVE  /\ \A m \in Names : WatchStep(m)
         /\ \A m \in Names \ {n} : snaps'[m] = snaps[m]
         /\ Exists(n) /\ snaps'[n] = NoSnap /\ ver' = ver
<1> DEFINE e == [type |-> "gone", snap |-> snaps[n]]
<1>0. watch[n] \in Seq(Event)
  BY DEF TypeOK, StoreTypeOK
<1>1. /\ snaps'[n] = NoSnap /\ watch'[n] = Append(watch[n], e) /\ ver' = ver /\ Exists(n)
  BY DEF Delete, TypeOK, StoreTypeOK
<1>2. ASSUME NEW m \in Names \ {n}
      PROVE  snaps'[m] = snaps[m] /\ watch'[m] = watch[m]
  BY DEF Delete, TypeOK, StoreTypeOK
<1>3. WatchStep(n)
  <2> SUFFICES ASSUME NEW i \in DOMAIN watch'[n]
               PROVE  \/ \E j \in DOMAIN watch[n] : watch'[n][i] = watch[n][j]
                      \/ watch'[n][i].snap = snaps[n]
    BY <1>1 DEF WatchStep
  <2>1. CASE i \in DOMAIN watch[n]
    <3>1. watch'[n][i] = watch[n][i]
      BY <1>0, <1>1, <2>1
    <3> QED
      BY <2>1, <3>1
  <2>2. CASE i \notin DOMAIN watch[n]
    <3>1. i = Len(watch[n]) + 1
      BY <1>0, <1>1, <2>2
    <3>2. watch'[n][i] = e
      BY <1>0, <1>1, <3>1
    <3> QED
      BY <3>2
  <2> QED
    BY <2>1, <2>2
<1>4. ASSUME NEW m \in Names \ {n} PROVE WatchStep(m)
  BY <1>2 DEF WatchStep
<1> QED
  BY <1>1, <1>2, <1>3, <1>4

\* Deleting a resource.
LEMMA DeleteStep ==
  ASSUME IndInv, NEW n \in Names, Delete(n)
  PROVE  \A m \in Names : StoreStep(m) /\ WatchStep(m) /\ PhaseKept(m)
<1>0. /\ TypeOK
      /\ \A m \in Names : Exists(m) => /\ snaps[m].uid <= snaps[m].rv /\ snaps[m].rv = ver[m]
                                       /\ EndedIfUntil(snaps[m])
  BY DEF IndInv, TypeOK, StoreTypeOK, CopiesAgree, UntilOnlyWhenEnded
<1>1. /\ \A m \in Names : WatchStep(m)
      /\ \A m \in Names \ {n} : snaps'[m] = snaps[m]
      /\ snaps'[n] = NoSnap /\ ver' = ver
  BY <1>0, DeleteFacts
<1>2. ASSUME NEW m \in Names PROVE StoreStep(m) /\ PhaseKept(m)
  <2>1. ver[m] \in Nat
    BY <1>0 DEF TypeOK, StoreTypeOK
  <2> QED
    BY <1>0, <1>1, <2>1 DEF StoreStep, PhaseKept, Exists
<1> QED
  BY <1>1, <1>2

\* An update the API server accepts from a thread: the stored resource is
\* the one the thread has, and moves to the phase its call may give it.
LEMMA UpdateStep ==
  ASSUME IndInv, TypeOK', NEW t \in Threads, Writing(t),
         Fresh(thread[t].key, thread[t].snap.rv), Update(thread[t].key, Target(t))
  PROVE  LET n == thread[t].key
             x == Returned(n, Target(t))
         IN /\ \A m \in Names : StoreStep(m) /\ WatchStep(m)
            /\ \A m \in Names \ {n} : PhaseKept(m) /\ snaps'[m] = snaps[m]
            /\ snaps'[n] # NoSnap /\ snaps'[n] = x
            /\ x \in Snapshot /\ EndedIfUntil(x)
            /\ thread[t].pc = "start" => x.phase = "InProgress"
            /\ PhaseStep
<1> DEFINE n == thread[t].key
           s == thread[t].snap
           w == Target(t)
<1>1. /\ TypeOK /\ n \in Names /\ s \in Snapshot /\ thread[t].pc \in WriteSteps /\ w \in Snapshot
  BY TargetType DEF IndInv, Task
<1>2. Exists(n) /\ snaps[n].rv = s.rv /\ snaps[n].uid = s.uid /\ snaps[n].phase = s.phase
  BY DEF IndInv, CopiesAgree, Writing, Agrees, Fresh, SameResource
<1>3. FitsStep(thread[t].pc, s)
  BY DEF IndInv, StepFitsPhase, Writing
<1>4. /\ w.rv = s.rv /\ w.uid = s.uid /\ EndedIfUntil(w)
      /\ w.phase \in PhaseSuccessors[s.phase]
      /\ thread[t].pc = "start" => w.phase = "InProgress"
  BY <1>1, <1>3, WrittenFacts DEF Target
<1>5. ASSUME NEW m \in Names, PhaseKept(m), Exists(m), snaps'[m] # NoSnap,
             snaps'[m].uid = snaps[m].uid
      PROVE  snaps'[m].phase \in PhaseSuccessors[snaps[m].phase]
  <2>1. snaps[m].phase \in Phases
    BY <1>1, <1>5 DEF TypeOK, StoreTypeOK, Exists, Snapshot
  <2> QED
    BY <1>5, <2>1 DEF PhaseKept, PhaseSuccessors, Phases
<1>6. CASE Unchanged(n, w)
  <2>1. UNCHANGED apiVars /\ Returned(n, w) = snaps[n]
    BY <1>6 DEF Update, Returned
  <2>2. \A m \in Names : StoreStep(m) /\ PhaseKept(m) /\ WatchStep(m)
    BY <2>1, ApiKept
  <2>3. [w EXCEPT !.rv = snaps[n].rv].phase = w.phase
    BY <1>1 DEF Snapshot
  <2>4. w.phase = snaps[n].phase
    BY <1>6, <2>3 DEF Unchanged
  <2>5. snaps[n] \in Snapshot /\ EndedIfUntil(snaps[n])
    BY <1>1, <1>2 DEF IndInv, TypeOK, StoreTypeOK, Exists, UntilOnlyWhenEnded
  <2> QED
    BY <1>1, <1>2, <1>4, <1>5, <2>1, <2>2, <2>4, <2>5 DEF apiVars, Exists, PhaseStep
<1>7. CASE ~Unchanged(n, w)
  <2>1. Put(n, w) /\ Returned(n, w) = [w EXCEPT !.rv = ver[n] + 1]
    BY <1>7 DEF Update, Returned
  <2> HIDE DEF n, w
  <2>2. /\ \A m \in Names : StoreStep(m) /\ WatchStep(m)
        /\ \A m \in Names \ {n} : PhaseKept(m) /\ snaps'[m] = snaps[m]
        /\ snaps'[n] # NoSnap /\ snaps'[n] = [w EXCEPT !.rv = ver[n] + 1]
    BY <1>1, <1>2, <1>4, <2>1, PutStep
  <2>3. snaps'[n] \in Snapshot /\ snaps'[n].phase = w.phase /\ snaps'[n].until = w.until
    BY <1>1, <2>2 DEF TypeOK, StoreTypeOK, Snapshot
  <2>4. PhaseStep
    BY <1>2, <1>4, <1>5, <2>2, <2>3 DEF PhaseStep
  <2> QED
    BY <1>1, <1>4, <2>1, <2>2, <2>3, <2>4 DEF EndedIfUntil, n, w
<1> QED
  BY <1>6, <1>7

-----------------------------------------------------------------------------
(* The threads.                                                            *)

\* A step that leaves the threads alone.
LEMMA ThreadsKept ==
  ASSUME IndInv, UNCHANGED thread, NEW t \in Threads
  PROVE  ThreadKept(t)
  BY DEF IndInv, StepFitsPhase, ThreadKept, Busy, Like

\* A thread goes on with the version it has.
LEMMA GotoKept ==
  ASSUME IndInv, NEW t \in Threads, Busy(t), NEW pc \in Steps, NEW x,
         Goto(t, pc, x), Like(x, thread[t].snap), FitsStep(pc, x),
         pc \in TakingSteps => thread[t].pc \in TakingSteps,
         NEW u \in Threads
  PROVE  ThreadKept(u)
<1>1. thread \in [Threads -> Task \cup {Idle}] /\ thread[t] \in Task
  BY DEF IndInv, TypeOK, Busy
<1>2. CASE u = t
  <2>1. thread'[t] = [thread[t] EXCEPT !.pc = pc, !.snap = x]
    BY <1>1 DEF Goto
  <2>2. thread'[t].pc = pc /\ thread'[t].snap = x /\ thread'[t].key = thread[t].key
    BY <1>1, <2>1 DEF Task
  <2> QED
    BY <1>2, <2>2 DEF ThreadKept
<1>3. CASE u # t
  <2>1. thread'[u] = thread[u]
    BY <1>1, <1>3 DEF Goto
  <2> QED
    BY <2>1 DEF IndInv, StepFitsPhase, ThreadKept, Busy, Like
<1> QED
  BY <1>2, <1>3

\* A thread finishes with its key.
LEMMA DoneKept ==
  ASSUME IndInv, NEW t \in Threads, thread' = [thread EXCEPT ![t] = Idle],
         NEW u \in Threads
  PROVE  ThreadKept(u)
<1>1. thread \in [Threads -> Task \cup {Idle}]
  BY DEF IndInv, TypeOK
<1>2. thread'[u] = Idle \/ thread'[u] = thread[u]
  BY <1>1
<1> QED
  BY <1>2 DEF IndInv, StepFitsPhase, ThreadKept, Busy, Like

\* A step after which all of this holds.
LEMMA KeptInv ==
  ASSUME IndInv, TypeOK',
         \A n \in Names : StoreStep(n) /\ PhaseKept(n) /\ WatchStep(n) /\ ListerStep(n),
         \A t \in Threads : ThreadKept(t)
  PROVE  IndInv' /\ PhaseStep
<1>1. IndInv'
  <2>1. /\ \A t \in Threads : ThreadStep(t)
        /\ OneThreadPerKey' /\ TakerOwnsResource'
    BY KeptThreads
  <2> QED
    BY <2>1, StepsKeepInv
<1>2. PhaseStep
  <2> SUFFICES ASSUME NEW n \in Names, Exists(n), snaps'[n] # NoSnap,
                      snaps'[n].uid = snaps[n].uid
               PROVE  snaps'[n].phase \in PhaseSuccessors[snaps[n].phase]
    BY DEF PhaseStep
  <2>1. snaps[n].phase \in Phases
    BY DEF IndInv, TypeOK, StoreTypeOK, Exists, Snapshot
  <2> QED
    BY <2>1 DEF PhaseKept, PhaseSuccessors, Phases
<1> QED
  BY <1>1, <1>2

\* A lister nobody touches.
LEMMA ListerKept ==
  ASSUME UNCHANGED lister, NEW n \in Names
  PROVE  ListerStep(n)
  BY DEF ListerStep, Like

-----------------------------------------------------------------------------
(* One lemma for each part of the next-state relation.                     *)

\* The users and the clock.
LEMMA EnvironmentInv ==
  ASSUME IndInv, TypeOK', Environment
  PROVE  IndInv' /\ PhaseStep
<1>0. TypeOK /\ CopiesAgree /\ UntilOnlyWhenEnded
  BY DEF IndInv
<1>1. CASE Tick /\ UNCHANGED thread
  BY <1>1, ApiKept, ListerKept, ThreadsKept, KeptInv DEF Tick
<1>2. ASSUME NEW n \in Names, UserCreate(n), UNCHANGED thread
      PROVE  IndInv' /\ PhaseStep
  <2>1. PICK x \in Snapshot : Create(n, x) /\ x.phase = "" /\ x.until = 0
    BY <1>2, UserCreateFacts
  <2> DEFINE y == [x EXCEPT !.uid = ver[n] + 1, !.created = now]
  <2>2. ver[n] + 1 \in Nat /\ ver[n] \in Nat /\ now \in Nat
    BY <1>0 DEF TypeOK, StoreTypeOK
  <2>3. y \in Snapshot /\ y.uid = ver[n] + 1 /\ EndedIfUntil(y)
    BY <2>1, <2>2 DEF Snapshot, EndedIfUntil
  <2>4. Put(n, y) /\ ~Exists(n)
    BY <2>1 DEF Create
  <2> HIDE DEF y
  <2>5. /\ \A m \in Names : StoreStep(m) /\ WatchStep(m)
        /\ \A m \in Names \ {n} : PhaseKept(m)
    BY <2>3, <2>4, PutStep
  <2>6. PhaseKept(n)
    BY <2>4 DEF PhaseKept
  <2> QED
    BY <1>2, <2>5, <2>6, ListerKept, ThreadsKept, KeptInv DEF UserCreate
<1>3. ASSUME NEW n \in Names, UserEdit(n), UNCHANGED thread
      PROVE  IndInv' /\ PhaseStep
  <2>1. PICK u \in Untils \ {snaps[n].specUntil} : Put(n, [snaps[n] EXCEPT !.specUntil = u])
    BY <1>3 DEF UserEdit
  <2> DEFINE y == [snaps[n] EXCEPT !.specUntil = u]
  <2>2. u \in Nat
    BY StoreAssumption DEF StoreAssumption
  <2>3. Exists(n) /\ snaps[n] \in Snapshot /\ EndedIfUntil(snaps[n])
    BY <1>0, <1>3 DEF UserEdit, Exists, TypeOK, StoreTypeOK, UntilOnlyWhenEnded
  <2>4. y \in Snapshot /\ y.uid = snaps[n].uid /\ y.phase = snaps[n].phase /\ EndedIfUntil(y)
    BY <2>2, <2>3 DEF Snapshot, EndedIfUntil
  <2>5. Put(n, y)
    BY <2>1
  <2> HIDE DEF y
  <2>6. /\ \A m \in Names : StoreStep(m) /\ WatchStep(m)
        /\ \A m \in Names \ {n} : PhaseKept(m)
        /\ snaps'[n] = [y EXCEPT !.rv = ver[n] + 1]
    BY <2>3, <2>4, <2>5, PutStep
  <2>7. snaps'[n].phase = y.phase
    BY <2>4, <2>6 DEF Snapshot
  <2>8. PhaseKept(n)
    BY <2>4, <2>7 DEF PhaseKept
  <2> QED
    BY <1>3, <2>6, <2>8, ListerKept, ThreadsKept, KeptInv DEF UserEdit
<1>4. ASSUME NEW n \in Names, UserDelete(n), UNCHANGED thread
      PROVE  IndInv' /\ PhaseStep
  BY <1>4, DeleteStep, ListerKept, ThreadsKept, KeptInv DEF UserDelete
<1> QED
  BY <1>1, <1>2, <1>3, <1>4 DEF Environment, User

\* What the informer, its handlers and the queue do.
LEMMA InformerFacts ==
  ASSUME TypeOK, NEW n \in Names, Informer(n)
  PROVE  /\ UNCHANGED <<snaps, ver, thread>>
         /\ \A m \in Names : WatchStep(m) /\ ListerStep(m)
<1>0. UNCHANGED <<snaps, ver, thread>>
  BY DEF Informer, Deliver, Relist, Resync, EnqueueSnapshot, DeleteSnapshot, Ready, apiVars
<1>1. CASE Deliver(n)
  <2>1. watch[n] \in Seq(Event) /\ watch[n] # <<>> /\ watch'[n] = Tail(watch[n])
    BY <1>1 DEF Deliver, TypeOK, StoreTypeOK
  <2>2. \/ lister'[n] = Head(watch[n]).snap
        \/ lister'[n] = NoSnap
    BY <1>1 DEF Deliver, TypeOK, StoreTypeOK
  <2>3. ASSUME NEW m \in Names \ {n}
        PROVE  watch'[m] = watch[m] /\ lister'[m] = lister[m]
    BY <1>1 DEF Deliver, TypeOK, StoreTypeOK
  <2>4. WatchStep(n)
    <3> SUFFICES ASSUME NEW i \in DOMAIN watch'[n]
                 PROVE  \E j \in DOMAIN watch[n] : watch'[n][i] = watch[n][j]
      BY DEF WatchStep
    <3>1. i + 1 \in DOMAIN watch[n] /\ watch'[n][i] = watch[n][i + 1]
      BY <2>1
    <3> QED
      BY <3>1
  <2>5. ListerStep(n)
    <3>1. 1 \in DOMAIN watch[n] /\ Head(watch[n]) = watch[n][1]
      BY <2>1
    <3> QED
      BY <2>2, <3>1 DEF ListerStep
  <2>6. ASSUME NEW m \in Names \ {n} PROVE WatchStep(m) /\ ListerStep(m)
    BY <2>3 DEF WatchStep, ListerStep, Like
  <2> QED
    BY <1>0, <2>4, <2>5, <2>6
<1>2. CASE Relist(n)
  <2>1. ASSUME NEW m \in Names
        PROVE  /\ watch'[m] = <<>> \/ watch'[m] = watch[m]
               /\ lister'[m] = snaps'[m] \/ lister'[m] = lister[m]
    BY <1>2 DEF Relist, TypeOK, StoreTypeOK
  <2>2. ASSUME NEW m \in Names PROVE WatchStep(m) /\ ListerStep(m)
    BY <2>1 DEF WatchStep, ListerStep, Like
  <2> QED
    BY <1>0, <2>2
<1>3. CASE Resync(n) \/ EnqueueSnapshot(n) \/ DeleteSnapshot(n) \/ Ready(n)
  <2>1. UNCHANGED watch /\ UNCHANGED lister
    BY <1>3 DEF Resync, EnqueueSnapshot, DeleteSnapshot, Ready, apiVars
  <2>2. ASSUME NEW m \in Names PROVE WatchStep(m) /\ ListerStep(m)
    BY <2>1, ListerKept DEF WatchStep
  <2> QED
    BY <1>0, <2>2
<1> QED
  BY <1>1, <1>2, <1>3 DEF Informer

\* The informer, its handlers and the queue.
LEMMA InformerInv ==
  ASSUME IndInv, TypeOK', NEW n \in Names, Informer(n)
  PROVE  IndInv' /\ PhaseStep
<1>1. /\ UNCHANGED <<snaps, ver, thread>>
      /\ \A m \in Names : WatchStep(m) /\ ListerStep(m)
  BY InformerFacts DEF IndInv
<1>2. ASSUME NEW m \in Names PROVE StoreStep(m) /\ PhaseKept(m)
  <2>1. /\ ver[m] \in Nat
        /\ Exists(m) => /\ snaps[m].uid <= snaps[m].rv /\ snaps[m].rv = ver[m]
                        /\ EndedIfUntil(snaps[m])
    BY DEF IndInv, TypeOK, StoreTypeOK, CopiesAgree, UntilOnlyWhenEnded
  <2> QED
    BY <1>1, <2>1 DEF StoreStep, PhaseKept, Exists
<1>3. ASSUME NEW t \in Threads PROVE ThreadKept(t)
  BY <1>1, ThreadsKept
<1> QED
  BY <1>1, <1>2, <1>3, KeptInv

\* A thread takes a key.
LEMMA StartSyncInv ==
  ASSUME Constants, IndInv, TypeOK', NEW t \in Threads, NEW n \in Names, StartSync(t, n)
  PROVE  IndInv' /\ PhaseStep
<1>0. /\ TypeOK /\ CopiesAgree /\ UntilOnlyWhenEnded /\ OneThreadPerKey /\ TakerOwnsResource
      /\ StepFitsPhase /\ UNCHANGED apiVars
  BY DEF IndInv, StartSync
<1>1. ASSUME NEW m \in Names PROVE StoreStep(m) /\ PhaseKept(m) /\ WatchStep(m)
  BY <1>0, ApiKept
<1>2. CASE lister[n] = NoSnap /\ UNCHANGED <<lister, thread>>
  BY <1>1, <1>2, ListerKept, ThreadsKept, KeptInv
<1>3. CASE lister[n] # NoSnap
  <2> DEFINE next == FirstCall(t, lister[n])
             x == next.snap
             k == [pc |-> next.pc, key |-> n, snap |-> x, at |-> next.at]
  <2>1. /\ lister[n] \in Snapshot /\ Agrees(n, lister[n]) /\ EndedIfUntil(lister[n])
        /\ now \in Nat
    BY <1>0, <1>3 DEF TypeOK, StoreTypeOK, CopiesAgree, UntilOnlyWhenEnded
  <2>2. /\ next.pc \in {"stop", "start", "past", "queue", "expire", "edit", "delete", "return"}
        /\ x.rv = lister[n].rv /\ x.uid = lister[n].uid /\ x.phase = lister[n].phase
        /\ EndedIfUntil(x) /\ FitsStep(next.pc, x)
    BY <2>1, FirstCallFacts
  <2>3. Proceed(t, n, next) /\ lister' = [lister EXCEPT ![n] = x]
    BY <1>3 DEF StartSync
  <2> HIDE DEF next
  <2>4. Agrees(n, x)
    BY <2>1, <2>2 DEF Agrees, Fresh, SameResource
  <2>5. ASSUME NEW m \in Names PROVE ListerStep(m)
    <3>1. CASE m = n
      BY <1>0, <1>3, <2>2, <2>3, <3>1 DEF ListerStep, Like, TypeOK, StoreTypeOK
    <3>2. CASE m # n
      BY <1>0, <2>3, <3>2 DEF ListerStep, Like, TypeOK, StoreTypeOK
    <3> QED
      BY <3>1, <3>2
  <2>6. /\ thread'[t] = Idle \/ thread'[t] = k
        /\ \A u \in Threads \ {t} : thread'[u] = thread[u]
        /\ ~Busy(t)
    BY <1>0, <2>3 DEF Proceed, TypeOK, StartSync
  <2>7. /\ k.pc = next.pc /\ k.key = n /\ k.snap = x /\ k.pc \notin TakingSteps
    BY <2>2 DEF TakingSteps
  <2> HIDE DEF k
  <2>8. ASSUME NEW u \in Threads PROVE ThreadStep(u)
    <3>1. CASE u = t
      BY <2>2, <2>4, <2>6, <2>7, <3>1 DEF ThreadStep
    <3>2. CASE u # t
      <4>1. thread'[u] = thread[u]
        BY <2>6, <3>2
      <4> QED
        BY <1>0, <4>1 DEF ThreadStep, Busy, StepFitsPhase, CopiesAgree
    <3> QED
      BY <3>1, <3>2
  <2>9. OneThreadPerKey'
    <3>1. n \notin Processing
      BY DEF StartSync
    <3>2. \A u \in Threads : Busy(u) => thread[u].key # n
      BY <3>1 DEF Processing
    <3> QED
      BY <1>0, <2>6, <2>7, <3>2 DEF OneThreadPerKey, Busy
  <2>10. TakerOwnsResource'
    <3>1. ASSUME NEW u \in Threads, NEW m \in Names, TakerOf(u, m)'
          PROVE  thread'[u] = thread[u] /\ TakerOf(u, m)
      BY <2>6, <2>7, <3>1 DEF TakerOf, Busy
    <3>2. snaps' = snaps
      BY <1>0 DEF apiVars
    <3> QED
      BY <1>0, <3>1, <3>2 DEF TakerOwnsResource, SameResource, Exists
  <2>11. IndInv'
    BY <1>1, <2>5, <2>8, <2>9, <2>10, StepsKeepInv
  <2>12. PhaseStep
    BY <1>0 DEF PhaseStep, apiVars, Exists, TypeOK, StoreTypeOK, Snapshot, PhaseSuccessors, Phases
  <2> QED
    BY <2>11, <2>12
<1> QED
  BY <1>2, <1>3 DEF StartSync

\* A thread's update is accepted and it goes on.
LEMMA UpdateAcceptedInv ==
  ASSUME Constants, IndInv, TypeOK', NEW t \in Threads, UpdateAccepted(t)
  PROVE  IndInv' /\ PhaseStep
<1> DEFINE n == thread[t].key
           x == Returned(n, Target(t))
           next == AfterWrite(thread[t], x)
           k == [pc |-> next.pc, key |-> n, snap |-> next.snap, at |-> next.at]
<1>0. /\ TypeOK /\ CopiesAgree /\ OneThreadPerKey /\ TakerOwnsResource
      /\ StepFitsPhase /\ UNCHANGED lister
  BY DEF IndInv, UpdateAccepted
<1>1. /\ Writing(t) /\ Busy(t) /\ Fresh(n, thread[t].snap.rv) /\ Update(n, Target(t))
      /\ thread[t] \in Task /\ n \in Names /\ thread[t].pc \in WriteSteps /\ now \in Nat
  BY <1>0, TargetType DEF UpdateAccepted, Writing, Task, TypeOK, StoreTypeOK
<1>2. /\ \A m \in Names : StoreStep(m) /\ WatchStep(m)
      /\ \A m \in Names \ {n} : PhaseKept(m) /\ snaps'[m] = snaps[m]
      /\ snaps'[n] # NoSnap /\ snaps'[n] = x
      /\ x \in Snapshot /\ EndedIfUntil(x)
      /\ thread[t].pc = "start" => x.phase = "InProgress"
      /\ PhaseStep
  BY <1>1, UpdateStep
<1>3. Proceed(t, n, next)
  BY DEF UpdateAccepted
<1> HIDE DEF x
<1>4. /\ next.pc \in {"past", "queue", "expire", "edit", "delete", "return", "bucket"}
      /\ next.snap.rv = x.rv /\ next.snap.uid = x.uid /\ next.snap.phase = x.phase
      /\ FitsStep(next.pc, next.snap)
  BY <1>1, <1>2, AfterWriteFacts
<1> HIDE DEF next
<1>5. /\ thread'[t] = Idle \/ thread'[t] = k
      /\ \A u \in Threads \ {t} : thread'[u] = thread[u]
  BY <1>0, <1>3 DEF Proceed, TypeOK
<1>6. k.pc = next.pc /\ k.key = n /\ k.snap = next.snap
  OBVIOUS
<1> HIDE DEF k, n
<1>7. ASSUME NEW u \in Threads PROVE ThreadStep(u)
  <2>1. CASE u = t
    BY <1>2, <1>4, <1>5, <1>6, <2>1 DEF ThreadStep, Like
  <2>2. CASE u # t
    <3>1. thread'[u] = thread[u]
      BY <1>5, <2>2
    <3> QED
      BY <1>0, <3>1 DEF ThreadStep, Busy, StepFitsPhase, CopiesAgree
  <2> QED
    BY <2>1, <2>2
<1>8. OneThreadPerKey'
  BY <1>0, <1>1, <1>5, <1>6 DEF OneThreadPerKey, Busy, n
<1>9. TakerOwnsResource'
  <2> SUFFICES ASSUME NEW u \in Threads, NEW m \in Names, thread'[u] # Idle,
                      thread'[u].key = m, thread'[u].pc \in TakingSteps,
                      snaps'[m] # NoSnap, snaps'[m].uid = thread'[u].snap.uid
               PROVE  snaps'[m].phase = "InProgress"
    BY DEF TakerOwnsResource, TakerOf, Busy, SameResource, Exists
  <2>1. CASE u = t
    <3>1. m = n /\ next.pc \in TakingSteps
      BY <1>5, <1>6, <2>1
    <3>2. next.snap.phase = "InProgress"
      BY <1>4, <3>1 DEF FitsStep
    <3> QED
      BY <1>2, <1>4, <3>1, <3>2
  <2>2. CASE u # t
    <3>1. thread'[u] = thread[u] /\ TakerOf(u, m)
      BY <1>5, <2>2 DEF TakerOf, Busy
    <3>2. m # n
      BY <1>0, <1>1, <2>2, <3>1 DEF OneThreadPerKey, TakerOf, n
    <3>3. snaps'[m] = snaps[m]
      BY <1>2, <3>2
    <3> QED
      BY <1>0, <3>1, <3>3 DEF TakerOwnsResource, SameResource, Exists
  <2> QED
    BY <2>1, <2>2
<1>10. ASSUME NEW m \in Names PROVE ListerStep(m)
  BY <1>0, ListerKept
<1>11. IndInv'
  BY <1>2, <1>7, <1>8, <1>9, <1>10, StepsKeepInv
<1> QED
  BY <1>2, <1>11

\* A thread's update is accepted and it does not hear of it.
LEMMA UpdateUnansweredInv ==
  ASSUME IndInv, TypeOK', NEW t \in Threads, UpdateUnanswered(t)
  PROVE  IndInv' /\ PhaseStep
<1> DEFINE n == thread[t].key
<1>0. /\ TypeOK /\ CopiesAgree /\ OneThreadPerKey /\ TakerOwnsResource
      /\ StepFitsPhase /\ UNCHANGED lister
  BY DEF IndInv, UpdateUnanswered
<1>1. /\ Writing(t) /\ Busy(t) /\ Fresh(n, thread[t].snap.rv) /\ Update(n, Target(t))
      /\ n \in Names
  BY <1>0, TargetType DEF UpdateUnanswered, Writing, Task
<1>2. /\ \A m \in Names : StoreStep(m) /\ WatchStep(m)
      /\ \A m \in Names \ {n} : PhaseKept(m) /\ snaps'[m] = snaps[m]
      /\ PhaseStep
  BY <1>1, UpdateStep
<1>3. thread' = [thread EXCEPT ![t] = Idle]
  BY DEF UpdateUnanswered, Requeue
<1>4. ASSUME NEW u \in Threads
      PROVE  thread'[u] = Idle \/ (u # t /\ thread'[u] = thread[u])
  BY <1>0, <1>3 DEF TypeOK
<1> HIDE DEF n
<1>5. ASSUME NEW u \in Threads PROVE ThreadStep(u)
  BY <1>0, <1>4 DEF ThreadStep, Busy, StepFitsPhase, CopiesAgree
<1>6. OneThreadPerKey'
  BY <1>0, <1>4 DEF OneThreadPerKey, Busy
<1>7. TakerOwnsResource'
  <2> SUFFICES ASSUME NEW u \in Threads, NEW m \in Names, thread'[u] # Idle,
                      thread'[u].key = m, thread'[u].pc \in TakingSteps,
                      snaps'[m] # NoSnap, snaps'[m].uid = thread'[u].snap.uid
               PROVE  snaps'[m].phase = "InProgress"
    BY DEF TakerOwnsResource, TakerOf, Busy, SameResource, Exists
  <2>1. u # t /\ thread'[u] = thread[u] /\ TakerOf(u, m)
    BY <1>4 DEF TakerOf, Busy
  <2>2. m # n
    BY <1>0, <1>1, <2>1 DEF OneThreadPerKey, TakerOf, n
  <2>3. snaps'[m] = snaps[m]
    BY <1>2, <2>2
  <2> QED
    BY <1>0, <2>1, <2>3 DEF TakerOwnsResource, SameResource, Exists
<1>8. ASSUME NEW m \in Names PROVE ListerStep(m)
  BY <1>0, ListerKept
<1>9. IndInv'
  BY <1>2, <1>5, <1>6, <1>7, <1>8, StepsKeepInv
<1> QED
  BY <1>2, <1>9

\* The steps between two calls that do not write: the thread goes on with
\* the version it has.
LEMMA GotoStepsKept ==
  ASSUME IndInv, NEW t \in Threads,
         \/ GetBucket(t) \/ TakeSnapshot(t) \/ Upload(t) \/ ObjectInfo(t)
         \/ DeleteRefused(t) \/ ObjectInfoFailed(t) \/ GiveUp(t)
  PROVE  \A u \in Threads : ThreadKept(u)
<1>0. /\ TypeOK
      /\ Busy(t) => /\ thread[t] \in Task /\ thread[t].key \in Names
                    /\ thread[t].snap \in Snapshot
                    /\ FitsStep(thread[t].pc, thread[t].snap)
  BY DEF IndInv, TypeOK, Busy, StepFitsPhase, Task
<1>1. ASSUME NEW pc \in Steps, NEW x,
             Busy(t), Goto(t, pc, x), Like(x, thread[t].snap), FitsStep(pc, x),
             pc \in TakingSteps => thread[t].pc \in TakingSteps
      PROVE  \A u \in Threads : ThreadKept(u)
  BY <1>1, GotoKept
<1>2. Busy(t) => Like(thread[t].snap, thread[t].snap)
  BY DEF Like
<1>3. CASE GetBucket(t)
  <2>1. Busy(t) /\ Goto(t, "take", thread[t].snap) /\ FitsStep("take", thread[t].snap)
    BY <1>0, <1>3 DEF GetBucket, At, FitsStep, TakingSteps
  <2> QED
    BY <1>1, <1>2, <1>3, <2>1 DEF GetBucket, At, Steps, TakingSteps
<1>4. CASE TakeSnapshot(t)
  <2> DEFINE s == thread[t].snap
             u == IF s.specUntil = 0 THEN now + s.ttl ELSE s.specUntil
             x == [s EXCEPT !.until = u]
  <2>1. Busy(t) /\ s \in Snapshot /\ FitsStep("take", s) /\ Goto(t, "upload", x)
    BY <1>0, <1>4 DEF TakeSnapshot, At
  <2>2. u \in Nat
    BY <1>0, <2>1 DEF Snapshot, TypeOK, StoreTypeOK
  <2>3. x \in Snapshot /\ Like(x, s) /\ x.phase = s.phase
    BY <2>1, <2>2 DEF Snapshot, Like
  <2>4. FitsStep("upload", x)
    BY <2>1, <2>3 DEF FitsStep, TakingSteps
  <2> HIDE DEF x
  <2> QED
    BY <1>1, <1>4, <2>1, <2>3, <2>4 DEF TakeSnapshot, At, Steps, TakingSteps
<1>5. CASE Upload(t)
  <2>1. Busy(t) /\ Goto(t, "info", thread[t].snap) /\ FitsStep("info", thread[t].snap)
    BY <1>0, <1>5 DEF Upload, At, FitsStep, TakingSteps
  <2> QED
    BY <1>1, <1>2, <1>5, <2>1 DEF Upload, At, Steps, TakingSteps
<1>6. CASE ObjectInfo(t)
  <2> DEFINE s == thread[t].snap
             o == objects[s.config][thread[t].key]
             x == [s EXCEPT !.stored = o.stamp]
  <2>1. Busy(t) /\ s \in Snapshot /\ FitsStep("info", s) /\ thread[t].key \in Names
    BY <1>0, <1>6 DEF ObjectInfo, At
  <2>2. CASE o # NoObject /\ Goto(t, "complete", x)
    <3>1. o \in Object
      BY <1>0, <2>1, <2>2 DEF TypeOK, StoreTypeOK, Snapshot
    <3>2. o.stamp \in Nat
      BY <3>1 DEF Object
    <3> HIDE DEF o
    <3>3. x \in Snapshot /\ Like(x, s) /\ x.phase = s.phase
      BY <2>1, <3>2 DEF Snapshot, Like
    <3>4. FitsStep("complete", x)
      BY <2>1, <3>3 DEF FitsStep, TakingSteps
    <3> HIDE DEF x
    <3> QED
      BY <1>1, <1>6, <2>1, <2>2, <3>3, <3>4 DEF ObjectInfo, At, Steps, TakingSteps
  <2>3. CASE Goto(t, "upload", s) \/ Goto(t, "fail", s)
    <3>1. FitsStep("upload", s) /\ FitsStep("fail", s)
      BY <2>1 DEF FitsStep, TakingSteps
    <3> QED
      BY <1>1, <1>2, <1>6, <2>1, <2>3, <3>1 DEF ObjectInfo, At, Steps, TakingSteps
  <2> QED
    BY <1>6, <2>2, <2>3 DEF ObjectInfo
<1>7. CASE DeleteRefused(t)
  <2>1. /\ Busy(t) /\ Goto(t, "deletefail", thread[t].snap)
        /\ FitsStep("deletefail", thread[t].snap)
    BY <1>0, <1>7 DEF DeleteRefused, At, FitsStep, TakingSteps
  <2> QED
    BY <1>1, <1>2, <2>1 DEF Steps, WriteSteps, TakingSteps
<1>8. CASE ObjectInfoFailed(t)
  <2>1. Busy(t) /\ Goto(t, "upload", thread[t].snap) /\ FitsStep("upload", thread[t].snap)
    BY <1>0, <1>8 DEF ObjectInfoFailed, At, FitsStep, TakingSteps
  <2> QED
    BY <1>1, <1>2, <1>8, <2>1 DEF ObjectInfoFailed, At, Steps, TakingSteps
<1>9. CASE GiveUp(t)
  <2>1. Busy(t) /\ Goto(t, "fail", thread[t].snap) /\ FitsStep("fail", thread[t].snap)
    BY <1>0, <1>9 DEF GiveUp, FitsStep, TakingSteps
  <2> QED
    BY <1>1, <1>2, <1>9, <2>1 DEF GiveUp, Steps, TakingSteps
<1> QED
  BY <1>3, <1>4, <1>5, <1>6, <1>7, <1>8, <1>9

\* The other steps of a thread: it keeps the version it has, or stops.
LEMMA OtherStepsInv ==
  ASSUME IndInv, TypeOK', NEW t \in Threads,
         ThreadNext(t), ~UpdateAccepted(t), ~UpdateUnanswered(t),
         ~\E n \in Names : StartSync(t, n)
  PROVE  IndInv' /\ PhaseStep
<1>0. /\ TypeOK /\ StepFitsPhase
      /\ Busy(t) => /\ thread[t] \in Task /\ thread[t].key \in Names
                    /\ thread[t].snap \in Snapshot
                    /\ FitsStep(thread[t].pc, thread[t].snap)
  BY DEF IndInv, TypeOK, Busy, StepFitsPhase, Task
<1>1. UNCHANGED lister
  BY DEF ThreadNext, Advance, Fault, UpdateRefused, UpdateFailed, GetBucket, TakeSnapshot,
         Upload, ObjectInfo, DeleteExpired, DeleteRefused, ObjectInfoFailed, GiveUp,
         DeleteFailed, storeVars
<1>2. ASSUME NEW m \in Names PROVE ListerStep(m)
  BY <1>1, ListerKept
<1>3. CASE \/ UpdateRefused(t) \/ UpdateFailed(t) \/ GetBucket(t) \/ TakeSnapshot(t)
           \/ Upload(t) \/ ObjectInfo(t) \/ DeleteRefused(t)
           \/ ObjectInfoFailed(t) \/ GiveUp(t)
  <2>1. UNCHANGED apiVars
    BY <1>3 DEF UpdateRefused, UpdateFailed, GetBucket, TakeSnapshot, Upload, ObjectInfo,
                DeleteRefused, ObjectInfoFailed, GiveUp, storeVars
  <2>2. CASE UpdateRefused(t) \/ UpdateFailed(t)
    <3>1. thread' = [thread EXCEPT ![t] = Idle]
      BY <2>2 DEF UpdateRefused, UpdateFailed, Requeue
    <3> QED
      BY <1>2, <2>1, <3>1, ApiKept, DoneKept, KeptInv
  <2>3. CASE ~(UpdateRefused(t) \/ UpdateFailed(t))
    <3>1. \A u \in Threads : ThreadKept(u)
      BY <1>3, <2>3, GotoStepsKept
    <3> QED
      BY <1>2, <2>1, <3>1, ApiKept, KeptInv
  <2> QED
    BY <2>2, <2>3
<1>4. CASE DeleteExpired(t)
  <2>1. Delete(thread[t].key) /\ thread[t].key \in Names /\ thread' = [thread EXCEPT ![t] = Idle]
    BY <1>0, <1>4 DEF DeleteExpired, At
  <2> QED
    BY <1>2, <2>1, DeleteStep, DoneKept, KeptInv
<1>5. CASE DeleteFailed(t)
  <2>1. /\ Busy(t) /\ Goto(t, "deletefail", thread[t].snap) /\ thread[t].key \in Names
        /\ FitsStep("delete", thread[t].snap)
        /\ Delete(thread[t].key) \/ UNCHANGED apiVars
    BY <1>0, <1>5 DEF DeleteFailed, At
  <2>2. FitsStep("deletefail", thread[t].snap)
    BY <2>1 DEF FitsStep, TakingSteps
  <2>3. Like(thread[t].snap, thread[t].snap) /\ "deletefail" \in Steps \ TakingSteps
    BY DEF Like, Steps, WriteSteps, TakingSteps
  <2>4. ASSUME NEW u \in Threads PROVE ThreadKept(u)
    BY <2>1, <2>2, <2>3, GotoKept
  <2>5. ASSUME NEW m \in Names PROVE StoreStep(m) /\ WatchStep(m) /\ PhaseKept(m)
    BY <2>1, DeleteStep, ApiKept
  <2> QED
    BY <1>2, <2>4, <2>5, KeptInv
<1> QED
  BY <1>3, <1>4, <1>5 DEF ThreadNext, Advance, Fault

\* The process dies and starts again.
LEMMA RestartInv ==
  ASSUME IndInv, TypeOK', Restart
  PROVE  IndInv' /\ PhaseStep
<1>1. ASSUME NEW n \in Names PROVE StoreStep(n) /\ PhaseKept(n)
  <2>1. /\ ver[n] \in Nat
        /\ Exists(n) => /\ snaps[n].uid <= snaps[n].rv /\ snaps[n].rv = ver[n]
                        /\ EndedIfUntil(snaps[n])
    BY DEF IndInv, TypeOK, StoreTypeOK, CopiesAgree, UntilOnlyWhenEnded
  <2> QED
    BY <2>1 DEF Restart, StoreStep, PhaseKept, Exists
<1>2. ASSUME NEW n \in Names PROVE WatchStep(n) /\ ListerStep(n)
  BY DEF Restart, WatchStep, ListerStep
<1>3. ASSUME NEW t \in Threads PROVE ThreadKept(t)
  BY DEF Restart, ThreadKept
<1> QED
  BY <1>1, <1>2, <1>3, KeptInv

\* The invariant holds at the start.
LEMMA InitInv == Constants /\ Init => IndInv
<1> SUFFICES ASSUME Constants, Init PROVE IndInv
  OBVIOUS
<1>1. TypeOK
  BY InitType
<1>2. OneThreadPerKey /\ StepFitsPhase /\ TakerOwnsResource
  BY DEF Init, OneThreadPerKey, StepFitsPhase, TakerOwnsResource, TakerOf, Busy
<1>3. CopiesAgree /\ UntilOnlyWhenEnded
  BY DEF Init, StoreInit, CopiesAgree, UntilOnlyWhenEnded, Exists, Busy
<1> QED
  BY <1>1, <1>2, <1>3 DEF IndInv

\* Every step keeps the invariant and the order of phases.
LEMMA NextInv ==
  ASSUME Constants, IndInv, [Next]_vars
  PROVE  IndInv' /\ (PhaseStep \/ UNCHANGED vars)
<1>0. TypeOK'
  BY NextType DEF IndInv
<1>1. CASE UNCHANGED vars
  <2>1. UNCHANGED apiVars /\ UNCHANGED lister /\ UNCHANGED thread
    BY <1>1 DEF vars, storeVars
  <2> QED
    BY <1>0, <1>1, <2>1, ApiKept, ListerKept, ThreadsKept, KeptInv
<1>2. ASSUME NEW t \in Threads, ThreadNext(t)
      PROVE  IndInv' /\ PhaseStep
  BY <1>0, <1>2, StartSyncInv, UpdateAcceptedInv, UpdateUnansweredInv, OtherStepsInv
<1> QED
  BY <1>0, <1>1, <1>2, EnvironmentInv, InformerInv, RestartInv DEF Next, ControllerNext

-----------------------------------------------------------------------------
(* The theorems.                                                           *)

\* The inductive invariant always holds.
THEOREM Invariance == Spec => []IndInv
<1>0. Constants
  BY StoreAssumption, ThreadAssumption DEF Constants
<1>1. Init => IndInv
  BY <1>0, InitInv
<1>2. IndInv /\ [Next]_vars => IndInv'
  BY <1>0, NextInv
<1> QED
  BY <1>1, <1>2, PTL DEF Spec

\* A thread that makes a snapshot owns the resource it was created for: as
\* long as that resource exists, it says InProgress.
THEOREM Ownership == Spec => []TakerOwnsResource
<1>1. IndInv => TakerOwnsResource
  BY DEF IndInv
<1> QED
  BY <1>1, Invariance, PTL

\* Every copy of a Snapshot agrees with the stored version it carries the
\* number of.
THEOREM Agreement == Spec => []CopiesAgree
<1>1. IndInv => CopiesAgree
  BY DEF IndInv
<1> QED
  BY <1>1, Invariance, PTL

\* The phase of a stored Snapshot never moves backwards: it is taken once.
THEOREM PhasesInOrder == Spec => PhaseOrder
<1>0. Constants
  BY StoreAssumption, ThreadAssumption DEF Constants
<1>1. IndInv /\ [Next]_vars => [PhaseStep]_vars
  BY <1>0, NextInv
<1> QED
  BY <1>1, Invariance, PTL DEF Spec, PhaseOrder

-----------------------------------------------------------------------------
(* The same of what the store does, without a word on expirations: a sweep *)
(* of the object syncer sets one in a copy that has not ended.             *)

\* The store only gives out new versions, and new uids to new resources.
StoreMove(n) ==
  /\ ver[n] <= ver'[n]
  /\ snaps'[n] # NoSnap =>
       /\ snaps'[n].uid <= snaps'[n].rv /\ snaps'[n].rv = ver'[n]
       /\ snaps'[n] = snaps[n] \/ snaps'[n].rv = ver[n] + 1
       /\ (Exists(n) /\ snaps'[n].uid = snaps[n].uid) \/ snaps'[n].uid = ver[n] + 1

\* A resource that is InProgress stays so.
CalmStep(n) ==
  Exists(n) /\ snaps'[n] # NoSnap /\ snaps'[n].uid = snaps[n].uid =>
    snaps'[n].phase = snaps[n].phase \/ snaps[n].phase # "InProgress"

\* Without a call to the API server.
LEMMA QuietMove ==
  ASSUME TypeOK, CopiesAgree, UNCHANGED <<snaps, ver>>, NEW n \in Names
  PROVE  StoreMove(n) /\ CalmStep(n)
<1>1. /\ ver[n] \in Nat
      /\ Exists(n) => snaps[n].uid <= snaps[n].rv /\ snaps[n].rv = ver[n]
  BY DEF TypeOK, StoreTypeOK, CopiesAgree
<1> QED
  BY <1>1 DEF StoreMove, CalmStep, Exists

\* Storing a version of the resource, or of a new one.
LEMMA PutMove ==
  ASSUME TypeOK, CopiesAgree, NEW n \in Names, NEW x \in Snapshot, Put(n, x),
         x.uid = ver[n] + 1 \/ (Exists(n) /\ x.uid = snaps[n].uid)
  PROVE  /\ \A m \in Names : StoreMove(m) /\ WatchStep(m)
         /\ \A m \in Names \ {n} : snaps'[m] = snaps[m] /\ CalmStep(m)
         /\ snaps'[n] # NoSnap /\ snaps'[n] = [x EXCEPT !.rv = ver[n] + 1]
<1>0. /\ ver[n] \in Nat
      /\ \A m \in Names : Exists(m) => snaps[m].uid <= snaps[m].rv /\ snaps[m].rv = ver[m]
  BY DEF TypeOK, StoreTypeOK, CopiesAgree
<1>1. /\ \A m \in Names : WatchStep(m)
      /\ \A m \in Names \ {n} : snaps'[m] = snaps[m] /\ ver'[m] = ver[m]
      /\ snaps'[n] # NoSnap /\ snaps'[n] = [x EXCEPT !.rv = ver[n] + 1]
      /\ ver'[n] = ver[n] + 1
  BY PutFacts
<1>2. StoreMove(n)
  <2>1. snaps'[n].rv = ver[n] + 1 /\ snaps'[n].uid = x.uid
    BY <1>0, <1>1 DEF Snapshot
  <2>2. x.uid <= ver[n] + 1
    BY <1>0 DEF TypeOK, StoreTypeOK, Exists, Snapshot
  <2> QED
    BY <1>0, <1>1, <2>1, <2>2 DEF StoreMove
<1>3. ASSUME NEW m \in Names \ {n} PROVE StoreMove(m) /\ CalmStep(m)
  <2>1. ver[m] \in Nat
    BY DEF TypeOK, StoreTypeOK
  <2> QED
    BY <1>0, <1>1, <2>1 DEF StoreMove, CalmStep, Exists
<1> QED
  BY <1>1, <1>2, <1>3

\* Creating a resource.
LEMMA CreateMove ==
  ASSUME TypeOK, CopiesAgree, NEW n \in Names, NEW x \in Snapshot, Create(n, x)
  PROVE  \A m \in Names : StoreMove(m) /\ WatchStep(m) /\ CalmStep(m)
<1> DEFINE y == [x EXCEPT !.uid = ver[n] + 1, !.created = now]
<1>1. ver[n] + 1 \in Nat /\ now \in Nat
  BY DEF TypeOK, StoreTypeOK
<1>2. y \in Snapshot /\ y.uid = ver[n] + 1
  BY <1>1 DEF Snapshot
<1>3. Put(n, y) /\ ~Exists(n)
  BY DEF Create
<1> HIDE DEF y
<1>4. CalmStep(n)
  BY <1>3 DEF CalmStep
<1> QED
  BY <1>2, <1>3, <1>4, PutMove

\* An update the API server accepts: of the stored resource.
LEMMA UpdateMove ==
  ASSUME TypeOK, CopiesAgree, NEW n \in Names, NEW x \in Snapshot, Exists(n),
         x.uid = snaps[n].uid, Update(n, x)
  PROVE  /\ \A m \in Names : StoreMove(m) /\ WatchStep(m)
         /\ \A m \in Names \ {n} : snaps'[m] = snaps[m] /\ CalmStep(m)
         /\ snaps'[n] # NoSnap /\ snaps'[n] = Returned(n, x) /\ snaps'[n].phase = x.phase
<1>1. CASE Unchanged(n, x)
  <2>1. UNCHANGED apiVars /\ Returned(n, x) = snaps[n]
    BY <1>1 DEF Update, Returned
  <2>2. ASSUME NEW m \in Names PROVE StoreMove(m) /\ WatchStep(m) /\ CalmStep(m)
    BY <2>1, QuietMove DEF apiVars, WatchStep
  <2>3. [x EXCEPT !.rv = snaps[n].rv].phase = x.phase
    BY DEF Snapshot
  <2>4. x.phase = snaps[n].phase
    BY <1>1, <2>3 DEF Unchanged
  <2> QED
    BY <2>1, <2>2, <2>4 DEF apiVars, Exists
<1>2. CASE ~Unchanged(n, x)
  <2>1. Put(n, x) /\ Returned(n, x) = [x EXCEPT !.rv = ver[n] + 1]
    BY <1>2 DEF Update, Returned
  <2>2. [x EXCEPT !.rv = ver[n] + 1].phase = x.phase
    BY DEF Snapshot
  <2> QED
    BY <2>1, <2>2, PutMove
<1> QED
  BY <1>1, <1>2

\* Deleting a resource.
LEMMA DeleteMove ==
  ASSUME TypeOK, CopiesAgree, NEW n \in Names, Delete(n)
  PROVE  \A m \in Names : StoreMove(m) /\ WatchStep(m) /\ CalmStep(m)
<1>1. /\ \A m \in Names : WatchStep(m)
      /\ \A m \in Names \ {n} : snaps'[m] = snaps[m]
      /\ snaps'[n] = NoSnap /\ ver' = ver
  BY DeleteFacts
<1>2. ASSUME NEW m \in Names PROVE StoreMove(m) /\ CalmStep(m)
  <2>1. /\ ver[m] \in Nat
        /\ Exists(m) => snaps[m].uid <= snaps[m].rv /\ snaps[m].rv = ver[m]
    BY DEF TypeOK, StoreTypeOK, CopiesAgree
  <2> QED
    BY <1>1, <2>1 DEF StoreMove, CalmStep, Exists
<1> QED
  BY <1>1, <1>2

-----------------------------------------------------------------------------
(* Every step is one of SnapshotLifecycle or none.                         *)

\* What the lifecycle sees of a name, and the names some thread is taking.
PhaseOf(n) == IF Exists(n) THEN snaps[n].phase ELSE "absent"

Taking == {n \in Names : \E t \in Threads : TakerOf(t, n)}

\* A task that is making a snapshot.
IsTaking(k) == k # Idle /\ k.pc \in TakingSteps

\* A step after which neither the phases nor the takers differ.
LEMMA LifeStutter ==
  ASSUME \A n \in Names : PhaseOf(n)' = PhaseOf(n), Taking' = Taking
  PROVE  UNCHANGED Lifecycle!lifeVars
  BY DEF Lifecycle!lifeVars, PhaseOf, Taking

\* Only the phase of n moves.
LEMMA LifeMove ==
  ASSUME NEW n \in Names, NEW from, NEW to, PhaseOf(n) \in from, PhaseOf(n)' = to,
         \A m \in Names \ {n} : PhaseOf(m)' = PhaseOf(m)
  PROVE  Lifecycle!Move(n, from, to)
  BY DEF Lifecycle!Move, PhaseOf

\* A step that leaves the store and the threads alone.
LEMMA QuietLife ==
  ASSUME snaps' = snaps, thread' = thread
  PROVE  UNCHANGED Lifecycle!lifeVars
<1>1. ASSUME NEW n \in Names PROVE PhaseOf(n)' = PhaseOf(n)
  BY DEF PhaseOf, Exists
<1>2. Taking' = Taking
  BY DEF Taking, TakerOf, Busy
<1> QED
  BY <1>1, <1>2, LifeStutter

\* As far as the lifecycle can tell, the phase of a thread's copy fits the call
\* it is about to make.
CallFits(pc, s) ==
  /\ pc \in {"past", "queue"} => s.phase = ""
  /\ pc = "start" => s.phase = "InQueue"
  /\ pc \in TakingSteps \cup {"stop"} => s.phase = "InProgress"
  /\ pc \in {"delete", "deletefail"} => s.phase # ""

CallsFit == \A t \in Threads : Busy(t) => CallFits(thread[t].pc, thread[t].snap)

\* What the lifecycle needs of the invariant.
LifeBase == TypeOK /\ CopiesAgree /\ OneThreadPerKey /\ CallsFit

LEMMA IndLife == IndInv => LifeBase
  BY DEF IndInv, LifeBase, StepFitsPhase, CallsFit, FitsStep, CallFits

\* A busy thread has a task for a name, and its call fits its copy.
LEMMA BusyFacts ==
  ASSUME LifeBase, NEW t \in Threads, Busy(t)
  PROVE  /\ thread[t] \in Task /\ thread[t].key \in Names /\ thread[t].snap \in Snapshot
         /\ thread[t].pc \in Steps /\ CallFits(thread[t].pc, thread[t].snap)
  BY DEF LifeBase, TypeOK, Busy, CallsFit, Task

\* When one thread moves, or stops, only its key may begin or end being taken.
LEMMA TakingMoves ==
  ASSUME LifeBase, NEW t \in Threads, Busy(t), NEW n \in Names, n = thread[t].key,
         \A u \in Threads \ {t} : thread'[u] = thread[u],
         thread'[t] = Idle \/ thread'[t].key = thread[t].key
  PROVE  /\ n \in Taking <=> IsTaking(thread[t])
         /\ IsTaking(thread'[t]) => Taking' = Taking \cup {n}
         /\ ~IsTaking(thread'[t]) => Taking' = Taking \ {n}
<1>0. OneThreadPerKey
  BY DEF LifeBase
<1>1. \A u \in Threads : TakerOf(u, n) => u = t
  BY <1>0 DEF OneThreadPerKey, TakerOf
<1>2. n \in Taking <=> IsTaking(thread[t])
  BY <1>1 DEF Taking, TakerOf, IsTaking, Busy
<1>3. ASSUME NEW m \in Names \ {n} PROVE m \in Taking' <=> m \in Taking
  <2>1. ASSUME NEW u \in Threads PROVE TakerOf(u, m)' <=> TakerOf(u, m)
    BY DEF TakerOf, Busy
  <2> QED
    BY <2>1 DEF Taking
<1>4. \A u \in Threads : TakerOf(u, n)' => u = t
  BY <1>0 DEF OneThreadPerKey, TakerOf, Busy
<1>5. TakerOf(t, n)' <=> IsTaking(thread'[t])
  BY DEF TakerOf, IsTaking, Busy
<1>6. n \in Taking' <=> IsTaking(thread'[t])
  BY <1>4, <1>5 DEF Taking
<1>7. Taking \subseteq Names /\ Taking' \subseteq Names
  BY DEF Taking
<1> QED
  BY <1>2, <1>3, <1>6, <1>7

\* The phase a write gives the resource.
LEMMA WrittenPhase ==
  ASSUME NEW s \in Snapshot
  PROVE  /\ Written("stop", s).phase = "Failed" /\ Written("start", s).phase = "InProgress"
         /\ Written("complete", s).phase = "Completed"
         /\ Written("fail", s).phase = "Failed" /\ Written("deletefail", s).phase = "Failed"
         /\ Written("past", s).phase = "Failed" /\ Written("queue", s).phase = "InQueue"
         /\ Written("expire", s).phase = s.phase /\ Written("edit", s).phase = s.phase
  BY DEF Written, Marked, Snapshot

\* What an accepted update returns has the phase that was to be written.
LEMMA ReturnedPhase ==
  ASSUME NEW n \in Names, NEW x \in Snapshot
  PROVE  Returned(n, x).phase = x.phase
<1>1. CASE Unchanged(n, x)
  <2>1. Returned(n, x) = [x EXCEPT !.rv = snaps[n].rv]
    BY <1>1 DEF Returned, Unchanged
  <2> QED
    BY <2>1 DEF Snapshot
<1>2. CASE ~Unchanged(n, x)
  BY <1>2 DEF Returned, Snapshot
<1> QED
  BY <1>1, <1>2

\* An accepted update stores what it returns, and nothing else.
LEMMA UpdateFacts ==
  ASSUME TypeOK, NEW n \in Names, Exists(n), NEW x \in Snapshot, Update(n, x)
  PROVE  /\ \A m \in Names \ {n} : snaps'[m] = snaps[m]
         /\ snaps'[n] # NoSnap /\ snaps'[n] = Returned(n, x)
<1>1. CASE Unchanged(n, x)
  BY <1>1 DEF Update, Returned, apiVars, Exists
<1>2. CASE ~Unchanged(n, x)
  <2>1. Put(n, x) /\ Returned(n, x) = [x EXCEPT !.rv = ver[n] + 1]
    BY <1>2 DEF Update, Returned
  <2> QED
    BY <2>1, PutFacts
<1> QED
  BY <1>1, <1>2

\* An accepted update is a step of the lifecycle, whether or not the thread
\* hears of it.
LEMMA WriteLife ==
  ASSUME LifeBase, NEW t \in Threads, Writing(t),
         thread[t].pc = "deletefail" => thread[t].snap.phase \in {"Completed", "Failed"},
         Fresh(thread[t].key, thread[t].snap.rv), Update(thread[t].key, Target(t)),
         \A u \in Threads \ {t} : thread'[u] = thread[u],
         \/ thread'[t] = Idle
         \/ /\ thread'[t].key = thread[t].key
            /\ thread'[t].pc \in TakingSteps => thread[t].pc = "start"
  PROVE  [Lifecycle!LifeNext]_Lifecycle!lifeVars
<1>0. /\ Busy(t) /\ thread[t].pc \in WriteSteps /\ thread[t].key \in Names
      /\ thread[t].snap \in Snapshot /\ CallFits(thread[t].pc, thread[t].snap)
  BY BusyFacts DEF Writing
<1>1. PICK n \in Names, s \in Snapshot, pc \in WriteSteps, x \in Snapshot :
        /\ n = thread[t].key /\ s = thread[t].snap /\ pc = thread[t].pc /\ x = Target(t)
  BY <1>0, TargetType DEF LifeBase
<1>2. /\ \A m \in Names \ {n} : snaps'[m] = snaps[m]
      /\ snaps'[n] # NoSnap /\ snaps'[n] = Returned(n, x)
  BY <1>1, UpdateFacts DEF LifeBase, Fresh
<1>3. Exists(n) /\ snaps[n].phase = s.phase
  BY <1>0, <1>1 DEF LifeBase, CopiesAgree, Agrees, Fresh
<1>4. /\ \A m \in Names \ {n} : PhaseOf(m)' = PhaseOf(m)
      /\ PhaseOf(n) = s.phase /\ PhaseOf(n)' = x.phase
  BY <1>2, <1>3, ReturnedPhase DEF PhaseOf, Exists
<1>5. x = Written(pc, s) /\ CallFits(pc, s)
  BY <1>0, <1>1 DEF Target
<1>6. /\ n \in Taking <=> IsTaking(thread[t])
      /\ IsTaking(thread'[t]) => Taking' = Taking \cup {n}
      /\ ~IsTaking(thread'[t]) => Taking' = Taking \ {n}
  BY <1>0, <1>1, TakingMoves
<1>7. n \in Taking <=> pc \in {"complete", "fail"}
  BY <1>0, <1>1, <1>6 DEF IsTaking, Busy, TakingSteps, WriteSteps
<1>8. Taking' = Taking \ {n} \/ (pc = "start" /\ Taking' = Taking \cup {n})
  BY <1>1, <1>6 DEF IsTaking
<1>9. CASE pc = "start"
  <2>1. Lifecycle!Move(n, {"InQueue"}, "InProgress")
    BY <1>4, <1>5, <1>9, WrittenPhase, LifeMove DEF CallFits
  <2>2. n \notin Taking
    BY <1>7, <1>9
  <2>3. Taking' = Taking \cup {n} \/ Taking' = Taking
    BY <1>8, <2>2
  <2>4. Lifecycle!Begin(n)
    BY <2>1, <2>2, <2>3 DEF Lifecycle!Begin, Taking
  <2> QED
    BY <2>4 DEF Lifecycle!LifeNext
<1>10. CASE pc \in {"complete", "fail"}
  <2>1. n \in Taking /\ Taking' = Taking \ {n} /\ s.phase = "InProgress"
    BY <1>5, <1>7, <1>8, <1>10 DEF CallFits, TakingSteps
  <2>2. \/ Lifecycle!Move(n, {"InProgress"}, "Completed")
        \/ Lifecycle!Move(n, {"InProgress"}, "Failed")
    BY <1>4, <1>5, <1>10, <2>1, WrittenPhase, LifeMove
  <2>3. Lifecycle!End(n)
    BY <2>1, <2>2 DEF Lifecycle!End, Taking
  <2> QED
    BY <2>3 DEF Lifecycle!LifeNext
<1>11. CASE pc \in {"stop", "past", "queue", "expire", "edit", "deletefail"}
  <2>1. n \notin Taking /\ Taking' = Taking
    BY <1>7, <1>8, <1>11
  <2>2. CASE PhaseOf(n)' = PhaseOf(n)
    BY <1>4, <2>1, <2>2, LifeStutter
  <2>3. CASE pc = "stop"
    <3>1. Lifecycle!Move(n, {"InProgress"}, "Failed")
      BY <1>4, <1>5, <2>3, WrittenPhase, LifeMove DEF CallFits
    <3>2. Lifecycle!Abandon(n)
      BY <2>1, <3>1 DEF Lifecycle!Abandon, Taking
    <3> QED
      BY <3>2 DEF Lifecycle!LifeNext
  <2>4. CASE pc = "past"
    <3>1. s.phase = "" /\ x.phase = "Failed"
      BY <1>5, <2>4, WrittenPhase DEF CallFits
    <3>2. PICK e : e = ""
      OBVIOUS
    <3>3. PhaseOf(n) \in {e} /\ PhaseOf(n)' = "Failed"
      BY <1>4, <3>1, <3>2
    <3>4. Lifecycle!Move(n, {e}, "Failed")
      BY <1>4, <3>3, LifeMove
    <3>5. Lifecycle!Reject(n)
      BY <2>1, <3>2, <3>4 DEF Lifecycle!Reject, Taking
    <3> QED
      BY <3>5 DEF Lifecycle!LifeNext
  <2>5. CASE pc = "queue"
    <3>1. s.phase = "" /\ x.phase = "InQueue"
      BY <1>5, <2>5, WrittenPhase DEF CallFits
    <3>2. PICK e : e = ""
      OBVIOUS
    <3>3. PhaseOf(n) \in {e} /\ PhaseOf(n)' = "InQueue"
      BY <1>4, <3>1, <3>2
    <3>4. Lifecycle!Move(n, {e}, "InQueue")
      BY <1>4, <3>3, LifeMove
    <3>5. Lifecycle!Accept(n)
      BY <2>1, <3>2, <3>4 DEF Lifecycle!Accept, Taking
    <3> QED
      BY <3>5 DEF Lifecycle!LifeNext
  <2>6. CASE pc \in {"expire", "edit"}
    BY <1>4, <1>5, <2>2, <2>6, WrittenPhase
  <2>7. CASE pc = "deletefail" /\ PhaseOf(n)' # PhaseOf(n)
    <3>1. PhaseOf(n) = "Completed" /\ PhaseOf(n)' = "Failed"
      BY <1>1, <1>4, <1>5, <2>7, WrittenPhase
    <3>2. Lifecycle!Move(n, {"Completed"} \cup {p \in {"InQueue"} : FALSE}, "Failed")
      BY <1>4, <3>1, LifeMove
    <3>3. Lifecycle!Condemn(n)
      BY <2>1, <3>2 DEF Lifecycle!Condemn, Taking
    <3> QED
      BY <3>3 DEF Lifecycle!LifeNext
  <2> QED
    BY <1>11, <2>2, <2>3, <2>4, <2>5, <2>6, <2>7
<1> QED
  BY <1>9, <1>10, <1>11 DEF WriteSteps

\* A thread that goes on, and is making a snapshot if it was.
LEMMA GotoLife ==
  ASSUME LifeBase, NEW t \in Threads, Busy(t), NEW pc \in Steps, NEW x \in Snapshot,
         Goto(t, pc, x), pc \in TakingSteps <=> thread[t].pc \in TakingSteps
  PROVE  Taking' = Taking
<1>0. PICK n \in Names : n = thread[t].key
  BY BusyFacts
<1>1. thread \in [Threads -> Task \cup {Idle}] /\ thread[t] \in Task
  BY DEF LifeBase, TypeOK, Busy
<1>2. /\ thread'[t] = [thread[t] EXCEPT !.pc = pc, !.snap = x]
      /\ \A u \in Threads \ {t} : thread'[u] = thread[u]
  BY <1>1 DEF Goto
<1>3. thread'[t] \in Task /\ thread'[t].pc = pc /\ thread'[t].key = thread[t].key
  BY <1>1, <1>2 DEF Task
<1>4. thread'[t] # Idle
  BY <1>3, ThreadAssumption
<1>5. /\ n \in Taking <=> IsTaking(thread[t])
      /\ IsTaking(thread'[t]) => Taking' = Taking \cup {n}
      /\ ~IsTaking(thread'[t]) => Taking' = Taking \ {n}
  BY <1>0, <1>2, <1>3, TakingMoves
<1> QED
  BY <1>3, <1>4, <1>5 DEF IsTaking, Busy

\* A thread that stops without having recorded a result.
LEMMA StopLife ==
  ASSUME LifeBase, NEW t \in Threads, Busy(t), thread' = [thread EXCEPT ![t] = Idle],
         snaps' = snaps
  PROVE  [Lifecycle!LifeNext]_Lifecycle!lifeVars
<1>0. PICK n \in Names : n = thread[t].key
  BY BusyFacts
<1>1. thread'[t] = Idle /\ \A u \in Threads \ {t} : thread'[u] = thread[u]
  BY DEF LifeBase, TypeOK
<1>2. Taking' = Taking \ {n}
  BY <1>0, <1>1, TakingMoves DEF IsTaking
<1>3. \A m \in Names : PhaseOf(m)' = PhaseOf(m)
  BY DEF PhaseOf, Exists
<1>4. CASE n \notin Taking
  <2>1. Taking' = Taking
    BY <1>2, <1>4
  <2> QED
    BY <1>3, <2>1, LifeStutter
<1>5. CASE n \in Taking
  <2>1. Lifecycle!End(n)
    BY <1>2, <1>3, <1>5 DEF Lifecycle!End, Taking, PhaseOf
  <2> QED
    BY <2>1 DEF Lifecycle!LifeNext
<1> QED
  BY <1>4, <1>5

\* A Snapshot is deleted by a user or by a thread that is not taking it.
LEMMA DeleteLife ==
  ASSUME LifeBase, NEW n \in Names, Delete(n), Taking' = Taking
  PROVE  [Lifecycle!LifeNext]_Lifecycle!lifeVars
<1>1. /\ Exists(n) /\ snaps'[n] = NoSnap
      /\ \A m \in Names \ {n} : snaps'[m] = snaps[m]
  BY DEF Delete, LifeBase, TypeOK, StoreTypeOK
<1>2. PhaseOf(n) \in Phases /\ PhaseOf(n)' = "absent"
  BY <1>1 DEF PhaseOf, Exists, LifeBase, TypeOK, StoreTypeOK, Snapshot
<1>3. \A m \in Names \ {n} : PhaseOf(m)' = PhaseOf(m)
  BY <1>1 DEF PhaseOf, Exists
<1>4. PhaseOf(n) \in Lifecycle!States \ {"absent"}
  BY <1>2 DEF Phases, Lifecycle!States
<1>5. Lifecycle!Move(n, Lifecycle!States \ {"absent"}, "absent")
  BY <1>2, <1>3, <1>4, LifeMove
<1>6. Lifecycle!Remove(n)
  BY <1>5 DEF Lifecycle!Remove, Taking
<1> QED
  BY <1>6 DEF Lifecycle!LifeNext

\* The users and the clock.
LEMMA EnvironmentLife ==
  ASSUME LifeBase, Environment
  PROVE  [Lifecycle!LifeNext]_Lifecycle!lifeVars
<1>0. TypeOK /\ Taking' = Taking
  BY DEF LifeBase, Environment, Taking, TakerOf, Busy
<1>1. CASE Tick
  BY <1>1, QuietLife DEF Tick, Environment, apiVars
<1>2. ASSUME NEW n \in Names, UserCreate(n)
      PROVE  [Lifecycle!LifeNext]_Lifecycle!lifeVars
  <2>1. PICK x \in Snapshot : Create(n, x) /\ x.phase = "" /\ x.until = 0
    BY <1>2, UserCreateFacts
  <2> DEFINE y == [x EXCEPT !.uid = ver[n] + 1, !.created = now]
  <2>2. ver[n] + 1 \in Nat /\ ver[n] \in Nat /\ now \in Nat
    BY <1>0 DEF TypeOK, StoreTypeOK
  <2>3. y \in Snapshot /\ y.uid = ver[n] + 1 /\ y.phase = ""
    BY <2>1, <2>2 DEF Snapshot
  <2>4. Put(n, y) /\ ~Exists(n)
    BY <2>1 DEF Create
  <2> HIDE DEF y
  <2>5. /\ \A m \in Names \ {n} : snaps'[m] = snaps[m]
        /\ snaps'[n] # NoSnap /\ snaps'[n] = [y EXCEPT !.rv = ver[n] + 1]
    BY <1>0, <2>3, <2>4, PutFacts
  <2>6. snaps'[n].phase = ""
    BY <2>3, <2>5 DEF Snapshot
  <2>7. PICK e : e = ""
    OBVIOUS
  <2>8. /\ PhaseOf(n) \in {"absent"} /\ PhaseOf(n)' = e
        /\ \A m \in Names \ {n} : PhaseOf(m)' = PhaseOf(m)
    BY <2>4, <2>5, <2>6, <2>7 DEF PhaseOf, Exists
  <2>9. Lifecycle!Move(n, {"absent"}, e)
    BY <2>8, LifeMove
  <2>10. Lifecycle!Make(n)
    BY <1>0, <2>7, <2>9 DEF Lifecycle!Make, Taking
  <2> QED
    BY <2>10 DEF Lifecycle!LifeNext
<1>3. ASSUME NEW n \in Names, UserEdit(n)
      PROVE  [Lifecycle!LifeNext]_Lifecycle!lifeVars
  <2>1. PICK u \in Untils \ {snaps[n].specUntil} : Put(n, [snaps[n] EXCEPT !.specUntil = u])
    BY <1>3 DEF UserEdit
  <2> DEFINE y == [snaps[n] EXCEPT !.specUntil = u]
  <2>2. u \in Nat
    BY StoreAssumption DEF StoreAssumption
  <2>3. Exists(n) /\ snaps[n] \in Snapshot
    BY <1>0, <1>3 DEF UserEdit, Exists, TypeOK, StoreTypeOK
  <2>4. y \in Snapshot /\ y.uid = snaps[n].uid /\ y.phase = snaps[n].phase
    BY <2>2, <2>3 DEF Snapshot
  <2>5. Put(n, y)
    BY <2>1
  <2> HIDE DEF y
  <2>6. /\ \A m \in Names \ {n} : snaps'[m] = snaps[m]
        /\ snaps'[n] # NoSnap /\ snaps'[n] = [y EXCEPT !.rv = ver[n] + 1]
    BY <1>0, <2>3, <2>4, <2>5, PutFacts
  <2>7. snaps'[n].phase = snaps[n].phase
    BY <2>4, <2>6 DEF Snapshot
  <2>8. \A m \in Names : PhaseOf(m)' = PhaseOf(m)
    BY <2>3, <2>6, <2>7 DEF PhaseOf, Exists
  <2> QED
    BY <1>0, <2>8, LifeStutter
<1>4. ASSUME NEW n \in Names, UserDelete(n)
      PROVE  [Lifecycle!LifeNext]_Lifecycle!lifeVars
  BY <1>0, <1>4, DeleteLife DEF UserDelete
<1> QED
  BY <1>1, <1>2, <1>3, <1>4 DEF Environment, User

\* The informer: the lifecycle does not see it.
LEMMA InformerLife ==
  ASSUME NEW n \in Names, Informer(n)
  PROVE  UNCHANGED Lifecycle!lifeVars
  BY QuietLife
     DEF Informer, Deliver, Relist, Resync, EnqueueSnapshot, DeleteSnapshot, Ready, apiVars

\* A thread takes a key: the lifecycle does not see it.
LEMMA StartSyncLife ==
  ASSUME Constants, LifeBase, NEW t \in Threads, NEW n \in Names, StartSync(t, n)
  PROVE  UNCHANGED Lifecycle!lifeVars
<1>0. TypeOK /\ snaps' = snaps /\ ~Busy(t)
  BY DEF LifeBase, StartSync, apiVars
<1>1. CASE thread' = thread
  BY <1>0, <1>1, QuietLife
<1>2. CASE lister[n] # NoSnap
  <2> DEFINE next == FirstCall(t, lister[n])
             k == [pc |-> next.pc, key |-> n, snap |-> next.snap, at |-> next.at]
  <2>1. lister[n] \in Snapshot /\ now \in Nat
    BY <1>0, <1>2 DEF TypeOK, StoreTypeOK
  <2>2. next.pc \in {"stop", "start", "past", "queue", "expire", "edit", "delete", "return"}
    BY <2>1, FirstCallFacts
  <2>3. Proceed(t, n, next)
    BY <1>2 DEF StartSync
  <2> HIDE DEF next
  <2>4. /\ thread'[t] = Idle \/ thread'[t] = k
        /\ \A u \in Threads \ {t} : thread'[u] = thread[u]
    BY <1>0, <2>3 DEF Proceed, TypeOK
  <2>5. k.pc \notin TakingSteps
    BY <2>2 DEF TakingSteps
  <2> HIDE DEF k
  <2>6. ASSUME NEW m \in Names, NEW u \in Threads PROVE TakerOf(u, m)' <=> TakerOf(u, m)
    BY <1>0, <2>4, <2>5 DEF TakerOf, Busy
  <2>7. Taking' = Taking
    BY <2>6 DEF Taking
  <2>8. \A m \in Names : PhaseOf(m)' = PhaseOf(m)
    BY <1>0 DEF PhaseOf, Exists
  <2> QED
    BY <2>7, <2>8, LifeStutter
<1> QED
  BY <1>1, <1>2 DEF StartSync

\* A thread's updates.
LEMMA UpdateLife ==
  ASSUME Constants, LifeBase, NEW t \in Threads,
         thread[t].pc = "deletefail" => thread[t].snap.phase \in {"Completed", "Failed"},
         UpdateAccepted(t) \/ UpdateUnanswered(t) \/ UpdateRefused(t) \/ UpdateFailed(t)
  PROVE  [Lifecycle!LifeNext]_Lifecycle!lifeVars
<1>0. TypeOK /\ Writing(t) /\ Busy(t)
  BY DEF LifeBase, UpdateAccepted, UpdateUnanswered, UpdateRefused, UpdateFailed, Writing
<1>1. CASE UpdateAccepted(t)
  <2> DEFINE n == thread[t].key
             x == Returned(n, Target(t))
             next == AfterWrite(thread[t], x)
             k == [pc |-> next.pc, key |-> n, snap |-> next.snap, at |-> next.at]
  <2>1. Fresh(n, thread[t].snap.rv) /\ Update(n, Target(t)) /\ Proceed(t, n, next)
    BY <1>1 DEF UpdateAccepted
  <2>2. /\ thread[t] \in Task /\ thread[t].pc \in WriteSteps /\ now \in Nat /\ x \in Snapshot
    BY <1>0, <2>1, TargetType, ReturnedType DEF TypeOK, StoreTypeOK, Busy, Task, Writing, Fresh
  <2> HIDE DEF x
  <2>3. /\ next.pc \in {"past", "queue", "expire", "edit", "delete", "return", "bucket"}
        /\ next.pc = "bucket" => thread[t].pc = "start"
    <3>1. next.pc \in {"past", "queue", "expire", "edit", "delete", "return", "bucket"}
      BY <2>2, AfterWriteFacts
    <3>2. ASSUME thread[t].pc # "start" PROVE next.pc # "bucket"
      <4>1. thread[t].at \in Nat
        BY <2>2 DEF Task
      <4>2. NextCall(x, now).pc # "bucket" /\ NextCall(x, thread[t].at).pc # "bucket"
        BY <2>2, <4>1, NextCallType
      <4> QED
        BY <3>2, <4>2 DEF AfterWrite
    <3> QED
      BY <3>1, <3>2
  <2> HIDE DEF next
  <2>4. /\ thread'[t] = Idle \/ thread'[t] = k
        /\ \A u \in Threads \ {t} : thread'[u] = thread[u]
    BY <1>0, <2>1 DEF Proceed, TypeOK
  <2>5. k.pc = next.pc /\ k.key = n
    OBVIOUS
  <2> HIDE DEF k
  <2>6. thread'[t] # Idle /\ thread'[t].pc \in TakingSteps => thread[t].pc = "start"
    BY <2>3, <2>4, <2>5 DEF TakingSteps
  <2> QED
    BY <1>0, <2>1, <2>4, <2>5, <2>6, WriteLife
<1>2. CASE UpdateUnanswered(t)
  <2>1. /\ thread' = [thread EXCEPT ![t] = Idle]
        /\ Fresh(thread[t].key, thread[t].snap.rv) /\ Update(thread[t].key, Target(t))
    BY <1>2 DEF UpdateUnanswered, Requeue
  <2>2. thread'[t] = Idle /\ \A u \in Threads \ {t} : thread'[u] = thread[u]
    BY <1>0, <2>1 DEF TypeOK
  <2> QED
    BY <1>0, <2>1, <2>2, WriteLife
<1>3. CASE UpdateRefused(t) \/ UpdateFailed(t)
  <2>1. thread' = [thread EXCEPT ![t] = Idle] /\ snaps' = snaps
    BY <1>3 DEF UpdateRefused, UpdateFailed, Requeue, apiVars
  <2> QED
    BY <1>0, <2>1, StopLife
<1> QED
  BY <1>1, <1>2, <1>3

\* The steps of making a snapshot: the lifecycle sees only its end.
LEMMA TakingLife ==
  ASSUME LifeBase, NEW t \in Threads,
         \/ GetBucket(t) \/ TakeSnapshot(t) \/ Upload(t) \/ ObjectInfo(t)
         \/ DeleteRefused(t) \/ ObjectInfoFailed(t) \/ GiveUp(t)
  PROVE  UNCHANGED Lifecycle!lifeVars
<1> USE DEF Steps, TakingSteps, WriteSteps
<1> DEFINE s == thread[t].snap
<1>0. Busy(t) /\ TypeOK /\ snaps' = snaps
  BY DEF GetBucket, TakeSnapshot, Upload, ObjectInfo, DeleteRefused, ObjectInfoFailed, GiveUp,
         At, LifeBase, storeVars, apiVars
<1>1. s \in Snapshot /\ thread[t].key \in Names
  BY <1>0, BusyFacts
<1>2. ASSUME NEW pc \in Steps, NEW x \in Snapshot, Goto(t, pc, x),
             pc \in TakingSteps <=> thread[t].pc \in TakingSteps
      PROVE  UNCHANGED Lifecycle!lifeVars
  <2>1. Taking' = Taking
    BY <1>0, <1>2, GotoLife
  <2>2. \A m \in Names : PhaseOf(m)' = PhaseOf(m)
    BY <1>0 DEF PhaseOf, Exists
  <2> QED
    BY <2>1, <2>2, LifeStutter
<1>3. CASE GetBucket(t)
  BY <1>1, <1>2, <1>3 DEF GetBucket, At
<1>4. CASE TakeSnapshot(t)
  <2> DEFINE u == IF s.specUntil = 0 THEN now + s.ttl ELSE s.specUntil
             x == [s EXCEPT !.until = u]
  <2>1. u \in Nat
    BY <1>0, <1>1 DEF Snapshot, TypeOK, StoreTypeOK
  <2>2. x \in Snapshot
    BY <1>1, <2>1 DEF Snapshot
  <2>3. thread[t].pc = "take" /\ Goto(t, "upload", x)
    BY <1>4 DEF TakeSnapshot, At
  <2> HIDE DEF x, s
  <2> QED
    BY <1>2, <2>2, <2>3
<1>5. CASE Upload(t)
  BY <1>1, <1>2, <1>5 DEF Upload, At
<1>6. CASE ObjectInfo(t)
  <2> DEFINE o == objects[s.config][thread[t].key]
             x == [s EXCEPT !.stored = o.stamp]
  <2>1. thread[t].pc = "info"
    BY <1>6 DEF ObjectInfo, At
  <2>2. CASE o # NoObject /\ Goto(t, "complete", x)
    <3>1. o \in Object
      BY <1>0, <1>1, <2>2 DEF TypeOK, StoreTypeOK, Snapshot
    <3>2. o.stamp \in Nat
      BY <3>1 DEF Object
    <3> HIDE DEF o
    <3>3. x \in Snapshot
      BY <1>1, <3>2 DEF Snapshot
    <3> HIDE DEF x, s
    <3> QED
      BY <1>2, <2>1, <2>2, <3>3
  <2>3. CASE Goto(t, "upload", s) \/ Goto(t, "fail", s)
    BY <1>1, <1>2, <2>1, <2>3
  <2> QED
    BY <1>6, <2>2, <2>3 DEF ObjectInfo
<1>7. CASE DeleteRefused(t)
  BY <1>1, <1>2, <1>7 DEF DeleteRefused, At
<1>8. CASE ObjectInfoFailed(t)
  BY <1>1, <1>2, <1>8 DEF ObjectInfoFailed, At
<1>9. CASE GiveUp(t)
  BY <1>1, <1>2, <1>9 DEF GiveUp
<1> QED
  BY <1>3, <1>4, <1>5, <1>6, <1>7, <1>8, <1>9

\* A thread deletes an expired Snapshot, or tries to.
LEMMA ExpiredLife ==
  ASSUME LifeBase, NEW t \in Threads, DeleteExpired(t) \/ DeleteFailed(t)
  PROVE  [Lifecycle!LifeNext]_Lifecycle!lifeVars
<1>0. /\ Busy(t) /\ TypeOK /\ thread[t].pc = "delete" /\ thread[t].pc \notin TakingSteps
  BY DEF DeleteExpired, DeleteFailed, At, LifeBase, TakingSteps
<1>1. thread[t].key \in Names /\ thread[t].snap \in Snapshot
  BY <1>0, BusyFacts
<1>2. PICK n \in Names : n = thread[t].key
  BY <1>1
<1>3. Taking' = Taking
  <2>1. CASE DeleteExpired(t)
    <3>1. thread'[t] = Idle /\ \A u \in Threads \ {t} : thread'[u] = thread[u]
      BY <1>0, <2>1 DEF DeleteExpired, TypeOK
    <3>2. Taking' = Taking \ {n} /\ n \notin Taking
      BY <1>0, <1>2, <3>1, TakingMoves DEF IsTaking
    <3> QED
      BY <3>2
  <2>2. CASE DeleteFailed(t)
    <3>1. Goto(t, "deletefail", thread[t].snap) /\ "deletefail" \in Steps \ TakingSteps
      BY <2>2 DEF DeleteFailed, Steps, WriteSteps, TakingSteps
    <3> QED
      BY <1>0, <1>1, <3>1, GotoLife
  <2> QED
    BY <2>1, <2>2
<1>4. CASE Delete(n)
  BY <1>3, <1>4, DeleteLife
<1>5. CASE UNCHANGED apiVars
  <2>1. \A m \in Names : PhaseOf(m)' = PhaseOf(m)
    BY <1>5 DEF PhaseOf, Exists, apiVars
  <2> QED
    BY <1>3, <2>1, LifeStutter
<1> QED
  BY <1>2, <1>4, <1>5 DEF DeleteExpired, DeleteFailed

\* The process dies.
LEMMA RestartLife ==
  ASSUME Restart
  PROVE  [Lifecycle!LifeNext]_Lifecycle!lifeVars
<1>1. \A n \in Names : PhaseOf(n)' = PhaseOf(n)
  BY DEF Restart, PhaseOf, Exists
<1>2. Taking' = {}
  BY DEF Restart, Taking, TakerOf, Busy
<1>3. Lifecycle!Die
  BY <1>1, <1>2 DEF Lifecycle!Die, PhaseOf, Taking
<1> QED
  BY <1>3 DEF Lifecycle!LifeNext

\* Every step.
LEMMA NextLife ==
  ASSUME Constants, IndInv, [Next]_vars
  PROVE  [Lifecycle!LifeNext]_Lifecycle!lifeVars
<1>0. LifeBase
  BY IndLife
<1>1. CASE UNCHANGED vars
  BY <1>1, QuietLife DEF vars, storeVars, apiVars
<1>2. ASSUME NEW t \in Threads, ThreadNext(t)
      PROVE  [Lifecycle!LifeNext]_Lifecycle!lifeVars
  <2>1. Busy(t) /\ thread[t].pc = "deletefail" =>
          thread[t].snap.phase \in {"Completed", "Failed"}
    BY DEF IndInv, StepFitsPhase, FitsStep
  <2>2. CASE UpdateAccepted(t) \/ UpdateUnanswered(t) \/ UpdateRefused(t) \/ UpdateFailed(t)
    <3>1. Busy(t)
      BY <2>2 DEF UpdateAccepted, UpdateUnanswered, UpdateRefused, UpdateFailed, Writing
    <3> QED
      BY <1>0, <2>1, <2>2, <3>1, UpdateLife
  <2> QED
    BY <1>0, <1>2, <2>2, StartSyncLife, TakingLife, ExpiredLife
       DEF ThreadNext, Advance, Fault
<1> QED
  BY <1>0, <1>1, <1>2, EnvironmentLife, InformerLife, RestartLife DEF Next, ControllerNext

\* The controller implements SnapshotLifecycle: a Snapshot is taken out of
\* InQueue once, and Completed only by the thread that took it.
THEOREM Refinement == Spec => ImplementsLifecycle
<1>0. Constants
  BY StoreAssumption, ThreadAssumption DEF Constants
<1>1. Init => Lifecycle!LifeInit
  <2> SUFFICES ASSUME Init PROVE Lifecycle!LifeInit
    OBVIOUS
  <2>1. ASSUME NEW n \in Names PROVE ~Exists(n) /\ \A t \in Threads : ~TakerOf(t, n)
    BY DEF Init, StoreInit, Exists, TakerOf, Busy
  <2> QED
    BY <2>1 DEF Lifecycle!LifeInit
<1>2. IndInv /\ [Next]_vars => [Lifecycle!LifeNext]_Lifecycle!lifeVars
  BY <1>0, NextLife
<1> QED
  BY <1>1, <1>2, Invariance, PTL DEF Spec, ImplementsLifecycle, Lifecycle!LifeSpec

=============================================================================
