----------------------- MODULE RestoreController_proofs -----------------------
(***************************************************************************)
(* Proofs about RestoreController for every set of names, Snapshots and    *)
(* workers and every bound: type correctness, the inductive invariant, and *)
(* what follows from it. They are laid out like SnapshotController_proofs; *)
(* what is new is the archive, which comes from a Snapshot that may be     *)
(* made again meanwhile, and the memory of the calls that were begun.      *)
(***************************************************************************)
EXTENDS RestoreController, TLAPS

\* What the constants are assumed to be, in one name.
Constants == RestoreAssumption /\ NothingAssumption

-----------------------------------------------------------------------------
(* What the API server's operations keep.                                  *)

\* The types of what the API server holds.
ApiTypes ==
  /\ restores \in [Names -> Restore \cup {NoRestore}]
  /\ ver \in [Names -> Nat]
  /\ watch \in [Names -> Seq(Restore \cup {NoRestore})]

\* Storing a Restore keeps the types.
LEMMA PutType ==
  ASSUME ApiTypes, NEW n \in Names, NEW x \in Restore, Put(n, x)
  PROVE  ApiTypes'
<1> DEFINE y == [x EXCEPT !.rv = ver[n] + 1]
<1>1. ver[n] + 1 \in Nat
  BY DEF ApiTypes
<1>2. y \in Restore
  BY <1>1 DEF Restore
<1>3. Append(watch[n], y) \in Seq(Restore \cup {NoRestore})
  BY <1>2 DEF ApiTypes
<1> QED
  BY <1>1, <1>2, <1>3 DEF Put, ApiTypes

\* So does an accepted update.
LEMMA UpdateType ==
  ASSUME ApiTypes, NEW n \in Names, NEW x \in Restore, Update(n, x)
  PROVE  ApiTypes'
  BY PutType DEF Update, ApiTypes, apiVars

\* What an accepted update returns is a Restore.
LEMMA ReturnedType ==
  ASSUME ApiTypes, NEW n \in Names, NEW x \in Restore, Exists(n)
  PROVE  Returned(n, x) \in Restore
<1>1. restores[n] \in Restore
  BY DEF ApiTypes, Exists
<1>2. ver[n] + 1 \in Nat
  BY DEF ApiTypes
<1>3. [x EXCEPT !.rv = ver[n] + 1] \in Restore
  BY <1>2 DEF Restore
<1> QED
  BY <1>1, <1>3 DEF Returned

\* Deleting a Restore keeps the types.
LEMMA DeleteType ==
  ASSUME ApiTypes, NEW n \in Names, Delete(n)
  PROVE  ApiTypes'
<1>1. Append(watch[n], NoRestore) \in Seq(Restore \cup {NoRestore})
  BY DEF ApiTypes
<1> QED
  BY <1>1 DEF Delete, ApiTypes

\* What a user creates has a uid of its own, no phase and an empty status.
LEMMA UserCreateFacts ==
  ASSUME Constants, TypeOK, NEW n \in Names, UserCreate(n)
  PROVE  \E x \in Restore :
           /\ Put(n, x) /\ ~Exists(n) /\ x.uid = ver[n] + 1
           /\ x.phase = "" /\ StatusFits(x)
<1>1. PICK s \in Snapshots, u \in Untils, d \in TTLs :
        Put(n, [uid |-> ver[n] + 1, rv |-> 0, created |-> now,
                from |-> s, specUntil |-> u, ttl |-> d,
                phase |-> "", reason |-> "", until |-> 0, contents |-> 0, archive |-> 0])
  BY DEF UserCreate
<1> DEFINE x == [uid |-> ver[n] + 1, rv |-> 0, created |-> now,
                 from |-> s, specUntil |-> u, ttl |-> d,
                 phase |-> "", reason |-> "", until |-> 0, contents |-> 0, archive |-> 0]
<1>2. u \in Nat /\ d \in Nat /\ ver[n] + 1 \in Nat /\ now \in Nat
  BY DEF Constants, RestoreAssumption, TypeOK
<1>3. x \in Restore
  BY <1>2 DEF Restore, Phases, Reasons
<1>4. x.uid = ver[n] + 1 /\ x.phase = "" /\ x.until = 0 /\ x.archive = 0
  OBVIOUS
<1>5. StatusFits(x)
  BY <1>4 DEF StatusFits
<1> QED
  BY <1>1, <1>3, <1>4, <1>5 DEF UserCreate

\* What a user edits stays the same resource with the same status.
LEMMA UserEditFacts ==
  ASSUME Constants, TypeOK, NEW n \in Names, UserEdit(n)
  PROVE  \E x \in Restore :
           /\ Put(n, x) /\ Exists(n) /\ x.uid = restores[n].uid
           /\ x.phase = restores[n].phase
           /\ StatusFits(restores[n]) => StatusFits(x)
<1>1. PICK u \in Untils : Put(n, [restores[n] EXCEPT !.specUntil = u])
  BY DEF UserEdit
<1> DEFINE x == [restores[n] EXCEPT !.specUntil = u]
<1>2. u \in Nat /\ Exists(n) /\ restores[n] \in Restore
  BY DEF UserEdit, Exists, TypeOK, Constants, RestoreAssumption
<1>3. x \in Restore
  BY <1>2 DEF Restore
<1>4. /\ x.uid = restores[n].uid /\ x.phase = restores[n].phase
      /\ x.until = restores[n].until /\ x.archive = restores[n].archive
      /\ x.contents = restores[n].contents
  BY <1>2 DEF Restore
<1>5. StatusFits(restores[n]) => StatusFits(x)
  BY <1>4 DEF StatusFits
<1> QED
  BY <1>1, <1>2, <1>3, <1>4, <1>5

\* Spending keeps a budget a budget.
LEMMA SpendType ==
  ASSUME TypeOK, NEW kind \in BudgetKinds \ {"any"}, Spend(kind)
  PROVE  budget' \in [BudgetKinds -> Nat]
<1>1. kind \in BudgetKinds /\ kind # "any" /\ "any" \in BudgetKinds
  BY DEF BudgetKinds
<1>2. /\ budget \in [BudgetKinds -> Nat]
      /\ budget[kind] - 1 \in Nat /\ budget["any"] - 1 \in Nat
  BY <1>1 DEF Spend, TypeOK
<1>3. budget' = [[budget EXCEPT ![kind] = budget[kind] - 1] EXCEPT !["any"] = budget["any"] - 1]
  BY <1>1, <1>2 DEF Spend
<1> QED
  BY <1>1, <1>2, <1>3

-----------------------------------------------------------------------------
(* What the handler computes between two calls.                            *)

\* The next call is a step or the return, with a Restore that differs from
\* the copy in ttl and until only.
LEMMA NextCallType ==
  ASSUME Constants, NEW s \in Restore, NEW at \in Nat
  PROVE  LET next == NextCall(s, at) IN
           /\ next.pc \in {"past", "queue", "expire", "edit", "delete", "return"}
           /\ next.at = at
           /\ next.copy \in Restore
           /\ next.copy.rv = s.rv /\ next.copy.uid = s.uid /\ next.copy.phase = s.phase
           /\ StatusFits(s) => StatusFits(next.copy) /\ FitsStep(next.pc, next.copy)
<1> USE DEF EarlySteps
<1> DEFINE next == NextCall(s, at)
           unset == s.phase = "Failed" /\ s.until = 0
           edited == /\ s.phase \in {"Completed", "Failed"} /\ ~unset
                     /\ s.specUntil \notin {0, s.until}
<1>0. RestoreAssumption /\ s.phase \in Phases
  BY DEF Constants, Restore
<1>1. CASE s.phase = "" /\ Past(s.specUntil, at)
  <2>1. next = [pc |-> "past", copy |-> s, at |-> at]
    BY <1>1 DEF NextCall
  <2>2. next.pc = "past" /\ next.copy = s /\ next.at = at
    BY <2>1
  <2>3. StatusFits(s) => FitsStep("past", s)
    BY <1>1 DEF FitsStep, RestoringSteps
  <2> QED
    BY <2>2, <2>3
<1>2. CASE s.phase = "" /\ ~Past(s.specUntil, at)
  <2>1. next = [pc |-> "queue", copy |-> WithTTL(s), at |-> at]
    BY <1>2 DEF NextCall
  <2>2. /\ WithTTL(s) \in Restore
        /\ WithTTL(s).rv = s.rv /\ WithTTL(s).uid = s.uid
        /\ WithTTL(s).phase = s.phase /\ WithTTL(s).until = s.until
        /\ WithTTL(s).archive = s.archive /\ WithTTL(s).contents = s.contents
    BY <1>0 DEF WithTTL, Restore, RestoreAssumption
  <2>3. next.pc = "queue" /\ next.copy = WithTTL(s) /\ next.at = at
    BY <2>1
  <2>4. StatusFits(s) => StatusFits(WithTTL(s)) /\ FitsStep("queue", WithTTL(s))
    BY <2>2, <1>2 DEF StatusFits, FitsStep, RestoringSteps
  <2> QED
    BY <2>2, <2>3, <2>4
<1>3. CASE unset
  <2> DEFINE x == [s EXCEPT !.until = FailedUntil(s)]
  <2>1. next = [pc |-> "expire", copy |-> x, at |-> at]
    BY <1>3 DEF NextCall
  <2>2. FailedUntil(s) \in Nat
    BY DEF FailedUntil, Restore
  <2>3. x \in Restore /\ x.rv = s.rv /\ x.uid = s.uid /\ x.phase = s.phase
    BY <2>2 DEF Restore
  <2>4. next.pc = "expire" /\ next.copy = x /\ next.at = at
    BY <2>1
  <2>5. StatusFits(x) /\ FitsStep("expire", x)
    BY <2>3, <1>3 DEF StatusFits, FitsStep, RestoringSteps
  <2> HIDE DEF x
  <2> QED
    BY <2>3, <2>4, <2>5
<1>4. CASE edited
  <2> DEFINE x == [s EXCEPT !.until = s.specUntil]
  <2>1. next = [pc |-> "edit", copy |-> x, at |-> at]
    BY <1>4 DEF NextCall
  <2>2. x \in Restore /\ x.rv = s.rv /\ x.uid = s.uid /\ x.phase = s.phase
    BY DEF Restore
  <2>3. x.until # 0 /\ x.contents = s.contents /\ x.archive = s.archive
    BY <1>4 DEF Restore
  <2>4. next.pc = "edit" /\ next.copy = x /\ next.at = at
    BY <2>1
  <2>5. StatusFits(s) => StatusFits(x) /\ FitsStep("edit", x)
    BY <2>2, <2>3, <1>4 DEF StatusFits, FitsStep, RestoringSteps
  <2> HIDE DEF x
  <2> QED
    BY <2>2, <2>4, <2>5
<1>5. CASE s.phase # "" /\ ~unset /\ ~edited
  <2> DEFINE pc == IF Past(s.until, at) THEN "delete" ELSE "return"
  <2>1. next = [pc |-> pc, copy |-> s, at |-> at]
    BY <1>5 DEF NextCall
  <2>2. next.pc = pc /\ next.copy = s /\ next.at = at
    BY <2>1
  <2>3. ASSUME StatusFits(s), Past(s.until, at) PROVE FitsStep("delete", s)
    BY <1>0, <2>3 DEF Past, StatusFits, FitsStep, RestoringSteps, Phases
  <2>4. StatusFits(s) => FitsStep("return", s)
    BY DEF FitsStep, RestoringSteps
  <2> QED
    BY <2>2, <2>3, <2>4
<1> QED
  BY <1>1, <1>2, <1>3, <1>4, <1>5

\* The resource a call writes: the copy with the phase that call may give it,
\* which is never an earlier one.
LEMMA WrittenFacts ==
  ASSUME NEW pc \in WriteSteps, NEW s \in Restore
  PROVE  /\ Written(pc, s) \in Restore
         /\ Written(pc, s).rv = s.rv /\ Written(pc, s).uid = s.uid
         /\ FitsStep(pc, s) =>
              /\ StatusFits(Written(pc, s))
              /\ s.phase \notin {"", "InQueue"} => Written(pc, s).phase \notin {"", "InQueue"}
              /\ pc = "start" => Written(pc, s).phase = "InProgress"
<1> USE DEF Phases, Reasons, FitsStep, StatusFits, RestoringSteps, EarlySteps
<1>1. ASSUME NEW ph \in Phases, NEW re \in Reasons
      PROVE  /\ Marked(s, ph, re) \in Restore
             /\ Marked(s, ph, re).phase = ph /\ Marked(s, ph, re).until = s.until
             /\ Marked(s, ph, re).contents = s.contents
             /\ Marked(s, ph, re).archive = s.archive
             /\ Marked(s, ph, re).rv = s.rv /\ Marked(s, ph, re).uid = s.uid
  BY DEF Marked, Restore
<1>3. CASE pc = "start"
  <2>1. Written(pc, s) = Marked(s, "InProgress", "")
    BY <1>3 DEF Written
  <2> QED
    BY <2>1, <1>1, <1>3
<1>4. CASE pc = "complete"
  <2>1. Written(pc, s) = Marked(s, "Completed", "")
    BY <1>4 DEF Written
  <2> QED
    BY <2>1, <1>1, <1>4
<1>5. CASE pc \in {"fail", "deletefail"}
  <2>1. Written(pc, s) = Marked(s, "Failed", "error")
    BY <1>5 DEF Written
  <2> QED
    BY <2>1, <1>1, <1>5
<1>6. CASE pc = "past"
  <2>1. Written(pc, s) = Marked(s, "Failed", "past")
    BY <1>6 DEF Written
  <2> QED
    BY <2>1, <1>1, <1>6
<1>7. CASE pc = "queue"
  <2>1. Written(pc, s) = Marked(s, "InQueue", "")
    BY <1>7 DEF Written
  <2> QED
    BY <2>1, <1>1, <1>7
<1>8. CASE pc \in {"expire", "edit"}
  <2>1. Written(pc, s) = s
    BY <1>8 DEF Written
  <2> QED
    BY <2>1, <1>8
<1> QED
  BY <1>3, <1>4, <1>5, <1>6, <1>7, <1>8 DEF WriteSteps

\* Where a worker goes after a write, with the resource x it wrote.
LEMMA AfterWriteFacts ==
  ASSUME Constants, now \in Nat, NEW k \in Task, k.pc \in WriteSteps, NEW x \in Restore
  PROVE  LET next == AfterWrite(k, x) IN
           /\ next.pc \in {"past", "queue", "expire", "edit", "delete", "return", "snapshot"}
           /\ next.pc = "snapshot" <=> k.pc = "start"
           /\ next.at \in Nat
           /\ next.copy \in Restore
           /\ next.copy.rv = x.rv /\ next.copy.uid = x.uid /\ next.copy.phase = x.phase
           /\ StatusFits(x) /\ (k.pc = "start" => x.phase = "InProgress") =>
                FitsStep(next.pc, next.copy)
<1> DEFINE next == AfterWrite(k, x)
<1>0. k.at \in Nat
  BY DEF Task
<1>1. CASE k.pc = "start"
  <2>1. next = [pc |-> "snapshot", copy |-> x, at |-> 0]
    BY <1>1 DEF AfterWrite
  <2>2. next.pc = "snapshot" /\ next.copy = x /\ next.at = 0
    BY <2>1
  <2>3. StatusFits(x) /\ x.phase = "InProgress" => FitsStep("snapshot", x)
    BY DEF FitsStep, StatusFits, RestoringSteps, EarlySteps
  <2> QED
    BY <2>2, <2>3, <1>1
<1>2. CASE k.pc \in {"fail", "past", "deletefail"}
  <2>1. next = [pc |-> "return", copy |-> x, at |-> k.at]
    BY <1>2 DEF AfterWrite
  <2>2. next.pc = "return" /\ next.copy = x /\ next.at = k.at
    BY <2>1
  <2>3. StatusFits(x) => FitsStep("return", x)
    BY DEF FitsStep, RestoringSteps, EarlySteps
  <2> QED
    BY <2>2, <2>3, <1>0, <1>2
<1>3. CASE k.pc = "complete"
  <2>1. next = NextCall(x, now)
    BY <1>3 DEF AfterWrite
  <2> QED
    BY <2>1, <1>3, NextCallType
<1>4. CASE k.pc \in {"queue", "expire", "edit"}
  <2>1. next = NextCall(x, k.at)
    BY <1>4 DEF AfterWrite
  <2> QED
    BY <2>1, <1>0, <1>4, NextCallType
<1> QED
  BY <1>1, <1>2, <1>3, <1>4 DEF WriteSteps

\* The first call of a handler, on a copy of the lister.
LEMMA FirstCallFacts ==
  ASSUME Constants, now \in Nat, NEW s \in Restore
  PROVE  LET next == FirstCall(s) IN
           /\ next.pc \in {"start", "past", "queue", "expire", "edit", "delete", "return"}
           /\ next.at \in Nat
           /\ next.copy \in Restore
           /\ next.copy.rv = s.rv /\ next.copy.uid = s.uid /\ next.copy.phase = s.phase
           /\ StatusFits(s) => StatusFits(next.copy) /\ FitsStep(next.pc, next.copy)
<1> DEFINE next == FirstCall(s)
<1>1. CASE s.phase = "InQueue"
  <2>1. next = [pc |-> "start", copy |-> s, at |-> 0]
    BY <1>1 DEF FirstCall
  <2>2. next.pc = "start" /\ next.copy = s /\ next.at = 0
    BY <2>1
  <2>3. StatusFits(s) => FitsStep("start", s)
    BY <1>1 DEF FitsStep, RestoringSteps, EarlySteps
  <2> QED
    BY <2>2, <2>3
<1>2. CASE s.phase # "InQueue"
  <2>1. next = NextCall(s, now)
    BY <1>2 DEF FirstCall
  <2> QED
    BY <2>1, NextCallType
<1> QED
  BY <1>1, <1>2

-----------------------------------------------------------------------------
(* Type correctness.                                                       *)

\* Moving to the next call keeps the workers' types.
LEMMA ProceedType ==
  ASSUME TypeOK, NEW t \in Workers, NEW n \in Names, NEW next,
         next.pc \in Steps \cup {"return"}, next.copy \in Restore, next.at \in Nat,
         Proceed(t, n, next)
  PROVE  thread' \in [Workers -> Task \cup {Idle}]
<1>1. next.pc # "return" =>
        [pc |-> next.pc, key |-> n, copy |-> next.copy, at |-> next.at] \in Task
  BY DEF Task
<1> QED
  BY <1>1 DEF Proceed, TypeOK

\* So does going on with the same key.
LEMMA GotoType ==
  ASSUME TypeOK, NEW t \in Workers, Busy(t), NEW pc \in Steps, NEW x \in Restore,
         Goto(t, pc, x)
  PROVE  thread' \in [Workers -> Task \cup {Idle}]
<1>1. thread[t] \in Task
  BY DEF TypeOK, Busy
<1>2. [thread[t] EXCEPT !.pc = pc, !.copy = x] \in Task
  BY <1>1 DEF Task
<1> QED
  BY <1>2 DEF Goto, TypeOK

\* The resource a worker is about to write.
LEMMA TargetType ==
  ASSUME TypeOK, NEW t \in Workers, Writing(t)
  PROVE  thread[t] \in Task /\ thread[t].pc \in WriteSteps /\ Target(t) \in Restore
<1>1. thread[t] \in Task
  BY DEF TypeOK, Writing, Busy
<1>2. thread[t].copy \in Restore /\ thread[t].pc \in WriteSteps
  BY <1>1 DEF Task, Writing
<1> QED
  BY <1>1, <1>2, WrittenFacts DEF Target

\* Every step of the users and the clock keeps the types.
LEMMA EnvironmentType ==
  ASSUME Constants, TypeOK, User \/ Tick
  PROVE  TypeOK'
<1> USE DEF apiVars, queueVars, snapshotVars
<1>0. ApiTypes
  BY DEF TypeOK, ApiTypes
<1>1. CASE Tick
  BY <1>1 DEF Tick, TypeOK
<1>2. ASSUME NEW n \in Names, UserCreate(n)
      PROVE  TypeOK'
  <2>1. budget' \in [BudgetKinds -> Nat]
    BY <1>2, SpendType DEF UserCreate, BudgetKinds
  <2>2. ApiTypes'
    BY <1>0, <1>2, UserCreateFacts, PutType
  <2> QED
    BY <1>2, <2>1, <2>2 DEF UserCreate, TypeOK, ApiTypes
<1>3. ASSUME NEW n \in Names, UserEdit(n)
      PROVE  TypeOK'
  <2>1. budget' \in [BudgetKinds -> Nat]
    BY <1>3, SpendType DEF UserEdit, BudgetKinds
  <2>2. ApiTypes'
    BY <1>0, <1>3, UserEditFacts, PutType
  <2> QED
    BY <1>3, <2>1, <2>2 DEF UserEdit, TypeOK, ApiTypes
<1>4. ASSUME NEW n \in Names, UserDelete(n)
      PROVE  TypeOK'
  <2>1. budget' \in [BudgetKinds -> Nat]
    BY <1>4, SpendType DEF UserDelete, BudgetKinds
  <2>2. ApiTypes'
    BY <1>0, <1>4, DeleteType DEF UserDelete
  <2> QED
    BY <1>4, <2>1, <2>2 DEF UserDelete, TypeOK, ApiTypes
<1> QED
  BY <1>1, <1>2, <1>3, <1>4 DEF User

\* Every step of a Snapshot keeps the types.
LEMMA SnapshotType ==
  ASSUME TypeOK, SnapshotNext
  PROVE  TypeOK'
<1>1. PICK s \in Snapshots :
        \/ SnapshotMade(s) \/ SnapshotUploaded(s) \/ SnapshotCompleted(s)
        \/ SnapshotGone(s) \/ FileDeleted(s)
  BY DEF SnapshotNext
<1>2. made[s] \in Nat /\ made[s] + 1 \in Nat
  BY DEF TypeOK
<1>3. /\ complete' \subseteq Snapshots
      /\ made' \in [Snapshots -> Nat]
      /\ file' \in [Snapshots -> Nat]
  <2>1. CASE SnapshotMade(s)
    BY <1>2, <2>1 DEF SnapshotMade, TypeOK
  <2>2. CASE SnapshotUploaded(s)
    BY <1>2, <2>2 DEF SnapshotUploaded, TypeOK
  <2>3. CASE SnapshotCompleted(s) \/ SnapshotGone(s)
    BY <2>3 DEF SnapshotCompleted, SnapshotGone, TypeOK
  <2>4. CASE FileDeleted(s)
    BY <2>4 DEF FileDeleted, TypeOK
  <2> QED
    BY <1>1, <2>1, <2>2, <2>3, <2>4
<1> QED
  BY <1>3 DEF SnapshotNext, TypeOK, apiVars, queueVars

\* Every step of the informer and its handlers keeps the types.
LEMMA InformerType ==
  ASSUME TypeOK, NEW n \in Names, Informer(n)
  PROVE  TypeOK'
<1> USE DEF TypeOK, apiVars, queueVars, snapshotVars
<1>1. CASE Deliver(n)
  <2>0. watch[n] \in Seq(Restore \cup {NoRestore})
    OBVIOUS
  <2>1. /\ watch[n] # <<>> /\ Head(watch[n]) \in Restore \cup {NoRestore}
        /\ Tail(watch[n]) \in Seq(Restore \cup {NoRestore})
    BY <1>1, <2>0 DEF Deliver
  <2>2. /\ lister' \in [Names -> Restore \cup {NoRestore}]
        /\ watch' \in [Names -> Seq(Restore \cup {NoRestore})]
        /\ delayed' \subseteq Names
    BY <1>1, <2>1 DEF Deliver
  <2> QED
    BY <1>1, <2>2 DEF Deliver
<1>2. CASE Resync(n)
  BY <1>2 DEF Resync
<1>3. CASE Ready(n)
  BY <1>3 DEF Ready
<1> QED
  BY <1>1, <1>2, <1>3 DEF Informer

\* Every step of a worker keeps the types.
LEMMA ThreadType ==
  ASSUME Constants, TypeOK, NEW t \in Workers, ThreadNext(t)
  PROVE  TypeOK'
<1> USE DEF apiVars, queueVars, snapshotVars
<1>0. now \in Nat /\ ApiTypes
  BY DEF TypeOK, ApiTypes
<1>1. ASSUME NEW n \in Names, StartSync(t, n)
      PROVE  TypeOK'
  <2>1. CASE lister[n] = NoRestore /\ UNCHANGED <<lister, thread>>
    BY <1>1, <2>1 DEF StartSync, TypeOK
  <2>2. CASE lister[n] # NoRestore
    <3> DEFINE next == FirstCall(lister[n])
    <3>1. lister[n] \in Restore
      BY <2>2 DEF TypeOK
    <3>2. next.pc \in Steps \cup {"return"} /\ next.at \in Nat /\ next.copy \in Restore
      BY <1>0, <3>1, FirstCallFacts DEF Steps, WriteSteps
    <3>3. Proceed(t, n, next) /\ lister' = [lister EXCEPT ![n] = next.copy]
      BY <1>1, <2>2 DEF StartSync
    <3>4. thread' \in [Workers -> Task \cup {Idle}]
      BY <3>2, <3>3, ProceedType
    <3> HIDE DEF next
    <3>5. lister' \in [Names -> Restore \cup {NoRestore}]
      BY <3>2, <3>3 DEF TypeOK
    <3> QED
      BY <1>1, <3>4, <3>5 DEF StartSync, TypeOK
  <2> QED
    BY <1>1, <2>1, <2>2 DEF StartSync
<1>2. Busy(t) => /\ thread[t] \in Task /\ thread[t].key \in Names
                 /\ thread[t].copy \in Restore
  BY DEF TypeOK, Busy, Task
<1>3. ASSUME Busy(t), Requeue(t)
      PROVE  /\ thread' \in [Workers -> Task \cup {Idle}]
             /\ delayed' \subseteq Names /\ dirty' = dirty
  BY <1>2, <1>3 DEF Requeue, TypeOK
<1>4. ASSUME Spend("fault")
      PROVE  budget' \in [BudgetKinds -> Nat]
  BY <1>4, SpendType DEF BudgetKinds
<1>5. CASE UpdateAccepted(t)
  <2> DEFINE x == Returned(thread[t].key, Target(t))
             next == AfterWrite(thread[t], x)
  <2>1. /\ thread[t] \in Task /\ thread[t].key \in Names
        /\ thread[t].pc \in WriteSteps /\ Target(t) \in Restore
    BY <1>2, <1>5, TargetType DEF UpdateAccepted, Writing
  <2>2. x \in Restore
    BY <1>0, <1>5, <2>1, ReturnedType DEF UpdateAccepted, Fresh
  <2>3. next.pc \in Steps \cup {"return"} /\ next.at \in Nat /\ next.copy \in Restore
    BY <1>0, <2>1, <2>2, AfterWriteFacts DEF Steps, WriteSteps, RestoringSteps
  <2>4. Proceed(t, thread[t].key, next) /\ Update(thread[t].key, Target(t))
    BY <1>5 DEF UpdateAccepted
  <2> HIDE DEF x, next
  <2>5. thread' \in [Workers -> Task \cup {Idle}]
    BY <2>1, <2>3, <2>4, ProceedType
  <2>6. ApiTypes'
    BY <1>0, <2>1, <2>4, UpdateType
  <2> QED
    BY <1>5, <2>5, <2>6 DEF UpdateAccepted, TypeOK, ApiTypes
<1>6. CASE UpdateRefused(t)
  BY <1>3, <1>6 DEF UpdateRefused, Writing, TypeOK
<1>7. CASE UpdateFailed(t)
  BY <1>3, <1>4, <1>7 DEF UpdateFailed, Writing, TypeOK
<1>8. CASE UpdateUnanswered(t)
  <2>1. thread[t].key \in Names /\ Target(t) \in Restore
    BY <1>2, <1>8, TargetType DEF UpdateUnanswered, Writing
  <2>2. ApiTypes'
    BY <1>0, <1>8, <2>1, UpdateType DEF UpdateUnanswered
  <2> QED
    BY <1>3, <1>4, <1>8, <2>2 DEF UpdateUnanswered, Writing, TypeOK, ApiTypes
<1>9. CASE GetSnapshot(t)
  <2> DEFINE s == thread[t].copy
             x == [s EXCEPT !.contents = made[s.from]]
  <2>1. Busy(t) /\ s \in Restore
    BY <1>2, <1>9 DEF GetSnapshot, At
  <2>2. made[s.from] \in Nat
    BY <2>1 DEF Restore, TypeOK
  <2>3. x \in Restore
    BY <2>1, <2>2 DEF Restore
  <2>4. Goto(t, "lookup", x) \/ Goto(t, "fail", s)
    BY <1>9 DEF GetSnapshot
  <2> HIDE DEF x, s
  <2>5. thread' \in [Workers -> Task \cup {Idle}]
    BY <2>1, <2>3, <2>4, GotoType DEF Steps, RestoringSteps
  <2> QED
    BY <2>5, <1>9 DEF GetSnapshot, TypeOK
<1>10. CASE Lookup(t)
  BY <1>2, <1>10, GotoType DEF Lookup, At, Steps, RestoringSteps, TypeOK
<1>11. CASE Download(t)
  <2> DEFINE s == thread[t].copy
             x == [s EXCEPT !.archive = file[s.from]]
  <2>1. Busy(t) /\ s \in Restore /\ thread[t].key \in Names
    BY <1>2, <1>11 DEF Download, At
  <2>2. file[s.from] \in Nat /\ s.uid \in Nat
    BY <2>1 DEF Restore, TypeOK
  <2>3. x \in Restore
    BY <2>1, <2>2 DEF Restore
  <2>4. Goto(t, "finish", x) \/ Goto(t, "fail", s)
    BY <1>11 DEF Download
  <2>5. begun' \subseteq Names \X Nat
    BY <1>11, <2>1, <2>2 DEF Download, TypeOK
  <2> HIDE DEF x, s
  <2>6. thread' \in [Workers -> Task \cup {Idle}]
    BY <2>1, <2>3, <2>4, GotoType DEF Steps, RestoringSteps
  <2> QED
    BY <2>5, <2>6, <1>11 DEF Download, TypeOK
<1>12. CASE Finish(t)
  <2> DEFINE s == thread[t].copy
             u == IF s.specUntil = 0 THEN now + s.ttl ELSE s.specUntil
  <2>1. Busy(t) /\ s \in Restore
    BY <1>2, <1>12 DEF Finish, At
  <2>2. u \in Nat
    BY <1>0, <2>1 DEF Restore
  <2>3. [s EXCEPT !.until = u] \in Restore
    BY <2>1, <2>2 DEF Restore
  <2> QED
    BY <2>1, <2>3, <1>12, GotoType DEF Finish, Steps, RestoringSteps, TypeOK
<1>13. CASE DeleteExpired(t)
  <2>1. ApiTypes'
    BY <1>0, <1>2, <1>13, DeleteType DEF DeleteExpired, At
  <2> QED
    BY <1>13, <2>1 DEF DeleteExpired, TypeOK, ApiTypes
<1>14. CASE DeleteRefused(t)
  BY <1>2, <1>14, GotoType DEF DeleteRefused, At, Steps, WriteSteps, TypeOK
<1>15. CASE GiveUp(t)
  <2>1. Busy(t) /\ thread[t].copy \in Restore /\ thread[t].key \in Names
    BY <1>2, <1>15 DEF GiveUp
  <2>2. begun' \subseteq Names \X Nat
    BY <1>15, <2>1 DEF GiveUp, TypeOK, Restore
  <2>3. thread' \in [Workers -> Task \cup {Idle}]
    BY <1>15, <2>1, GotoType DEF GiveUp, Steps, RestoringSteps
  <2> QED
    BY <1>4, <1>15, <2>2, <2>3 DEF GiveUp, TypeOK
<1>16. CASE DeleteFailed(t)
  <2>1. thread[t].key \in Names /\ Busy(t) /\ thread[t].copy \in Restore
    BY <1>2, <1>16 DEF DeleteFailed, At
  <2>2. thread' \in [Workers -> Task \cup {Idle}]
    BY <1>16, <2>1, GotoType DEF DeleteFailed, Steps, WriteSteps
  <2>3. ApiTypes'
    BY <1>0, <1>16, <2>1, DeleteType DEF DeleteFailed, ApiTypes
  <2> QED
    BY <1>4, <1>16, <2>2, <2>3 DEF DeleteFailed, TypeOK, ApiTypes
<1> QED
  BY <1>1, <1>5, <1>6, <1>7, <1>8, <1>9, <1>10, <1>11, <1>12, <1>13, <1>14, <1>15, <1>16
     DEF ThreadNext, Advance, Fault

\* A restart keeps the types.
LEMMA RestartType ==
  ASSUME TypeOK, Restart
  PROVE  TypeOK'
<1>1. budget' \in [BudgetKinds -> Nat]
  BY SpendType DEF Restart, BudgetKinds
<1>2. <<>> \in Seq(Restore \cup {NoRestore})
  OBVIOUS
<1> QED
  BY <1>1, <1>2 DEF Restart, TypeOK, snapshotVars

\* Every step keeps the types.
LEMMA NextType ==
  ASSUME Constants, TypeOK, [Next]_vars
  PROVE  TypeOK'
<1>1. CASE UNCHANGED vars
  BY <1>1 DEF vars, apiVars, queueVars, snapshotVars, TypeOK
<1> QED
  BY <1>1, EnvironmentType, SnapshotType, InformerType, ThreadType, RestartType DEF Next

\* The initial state has the types.
LEMMA InitType == Constants /\ Init => TypeOK
  BY DEF Constants, RestoreAssumption, Init, TypeOK

\* The state always has its types: every version, file and worker is what the
\* code's structures can hold.
THEOREM TypeCorrect == Spec => []TypeOK
<1>0. Constants
  BY RestoreAssumption, NothingAssumption DEF Constants
<1>1. Init => TypeOK
  BY <1>0, InitType
<1>2. TypeOK /\ [Next]_vars => TypeOK'
  BY <1>0, NextType
<1> QED
  BY <1>1, <1>2, PTL DEF Spec

-----------------------------------------------------------------------------
(* The inductive invariant. A step is described by what it does to the     *)
(* store, to the copies on their way to the lister, to the lister and to   *)
(* the workers; the invariant follows from these descriptions.             *)

\* s and r are copies of the same version, as far as ownership tells.
Like(s, r) == s.rv = r.rv /\ s.uid = r.uid /\ s.phase = r.phase

\* The store only gives out new versions, and new uids to new resources.
StoreStep(n) ==
  /\ ver[n] <= ver'[n]
  /\ restores'[n] # NoRestore =>
       /\ restores'[n].uid <= restores'[n].rv /\ restores'[n].rv = ver'[n]
       /\ StatusFits(restores'[n])
       /\ restores'[n] = restores[n] \/ restores'[n].rv = ver[n] + 1
       /\ (Exists(n) /\ restores'[n].uid = restores[n].uid) \/ restores'[n].uid = ver[n] + 1

\* A resource that stays keeps its phase.
PhaseKept(n) ==
  Exists(n) /\ restores'[n] # NoRestore /\ restores'[n].uid = restores[n].uid =>
    restores'[n].phase = restores[n].phase

\* A resource that stays and is past InQueue stays past it.
PastKept(n) ==
  /\ Exists(n) /\ restores'[n] # NoRestore /\ restores'[n].uid = restores[n].uid
  /\ restores[n].phase \notin {"", "InQueue"}
  => restores'[n].phase \notin {"", "InQueue"}

\* A new event carries what is stored.
WatchStep(n) ==
  \A i \in DOMAIN watch'[n] : watch'[n][i] # NoRestore =>
    \/ \E j \in DOMAIN watch[n] : watch'[n][i] = watch[n][j]
    \/ watch'[n][i] = restores'[n]

\* The lister gets what an event or the store has, or keeps its version.
ListerStep(n) ==
  lister'[n] # NoRestore =>
    \/ /\ lister[n] # NoRestore /\ Like(lister'[n], lister[n])
       /\ StatusFits(lister[n]) => StatusFits(lister'[n])
    \/ \E j \in DOMAIN watch[n] : lister'[n] = watch[n][j]
    \/ lister'[n] = restores'[n]

\* A worker holds a copy that agreed with the store, or the stored version,
\* and its call fits.
ThreadStep(t) ==
  thread'[t] # Idle =>
    /\ FitsStep(thread'[t].pc, thread'[t].copy)
    /\ \/ Agrees(thread'[t].key, thread'[t].copy)
       \/ restores'[thread'[t].key] # NoRestore /\ Like(thread'[t].copy, restores'[thread'[t].key])

\* A worker that keeps its key and its version, or stops.
ThreadKept(t) ==
  thread'[t] # Idle =>
    /\ Busy(t) /\ thread'[t].key = thread[t].key
    /\ Like(thread'[t].copy, thread[t].copy)
    /\ FitsStep(thread'[t].pc, thread'[t].copy)
    /\ thread'[t].pc \in RestoringSteps => thread[t].pc \in RestoringSteps
    /\ thread'[t].pc \in EarlySteps => thread[t].pc \in EarlySteps

\* A worker is not on its way to what was begun before the step.
EarlyStep(t) ==
  thread'[t] # Idle /\ thread'[t].pc \in EarlySteps =>
    <<thread'[t].key, thread'[t].copy.uid>> \notin begun

\* A worker that has looked the Snapshot up did so before the step.
LookedKept(t) ==
  thread'[t] # Idle /\ thread'[t].pc \in EarlySteps \ {"snapshot"} =>
    /\ Busy(t) /\ thread[t].pc \in EarlySteps \ {"snapshot"}
    /\ thread'[t].copy.contents = thread[t].copy.contents
    /\ thread'[t].copy.from = thread[t].copy.from

\* A copy that agrees with the store still does after a step of the store.
LEMMA AgreesLater ==
  ASSUME TypeOK, TypeOK', NEW n \in Names, StoreStep(n), NEW s \in Restore, Agrees(n, s)
  PROVE  /\ s.uid <= s.rv /\ s.rv <= ver'[n]
         /\ restores'[n] # NoRestore /\ restores'[n].rv = s.rv =>
              restores'[n].uid = s.uid /\ s.phase = restores'[n].phase
<1>1. /\ ver[n] \in Nat /\ ver'[n] \in Nat /\ s.rv \in Nat
      /\ s.uid <= s.rv /\ s.rv <= ver[n]
  BY DEF TypeOK, Restore, Agrees
<1>2. ASSUME restores'[n] # NoRestore, restores'[n].rv = s.rv
      PROVE  restores'[n].uid = s.uid /\ s.phase = restores'[n].phase
  <2>1. restores'[n] = restores[n]
    BY <1>1, <1>2 DEF StoreStep
  <2> QED
    BY <1>2, <2>1 DEF Agrees, Fresh, SameResource, Exists
<1> QED
  BY <1>1, <1>2 DEF StoreStep

\* The invariant follows from the descriptions of a step.
LEMMA StepsKeepInv ==
  ASSUME IndInv, TypeOK', OneWorkerPerKey', RestorerOwnsResource',
         FilesFit', LookedUpFits', BegunIsPast',
         \A n \in Names : StoreStep(n) /\ WatchStep(n) /\ ListerStep(n),
         \A t \in Workers : ThreadStep(t)
  PROVE  IndInv'
<1>0. TypeOK /\ CopiesAgree /\ CopiesFit
  BY DEF IndInv
<1>1. ASSUME NEW n \in Names, NEW i \in DOMAIN watch'[n], watch'[n][i] # NoRestore
      PROVE  Agrees(n, watch[n][i])' /\ StatusFits(watch'[n][i])
  <2>1. watch'[n][i] \in Restore
    <3>1. watch'[n] \in Seq(Restore \cup {NoRestore})
      BY DEF TypeOK
    <3> QED
      BY <3>1, <1>1
  <2>2. CASE \E j \in DOMAIN watch[n] : watch'[n][i] = watch[n][j]
    <3>1. Agrees(n, watch'[n][i]) /\ StatusFits(watch'[n][i])
      BY <1>0, <1>1, <2>2 DEF CopiesAgree, CopiesFit
    <3> QED
      BY <1>0, <2>1, <3>1, AgreesLater DEF Agrees, Fresh, Exists, SameResource
  <2>3. CASE watch'[n][i] = restores'[n]
    BY <1>1, <2>1, <2>3 DEF StoreStep, Agrees, Fresh, Exists, SameResource, Restore
  <2> QED
    BY <1>1, <2>2, <2>3 DEF WatchStep
<1>2. ASSUME NEW n \in Names, lister'[n] # NoRestore
      PROVE  Agrees(n, lister[n])' /\ StatusFits(lister'[n])
  <2>1. lister'[n] \in Restore
    BY <1>2 DEF TypeOK
  <2>2. CASE /\ lister[n] # NoRestore /\ Like(lister'[n], lister[n])
             /\ StatusFits(lister[n]) => StatusFits(lister'[n])
    <3>1. Agrees(n, lister'[n]) /\ StatusFits(lister'[n])
      BY <1>0, <2>2 DEF CopiesAgree, CopiesFit, Like, Agrees, Fresh, SameResource
    <3> QED
      BY <1>0, <2>1, <3>1, AgreesLater DEF Agrees, Fresh, Exists, SameResource
  <2>3. CASE \E j \in DOMAIN watch[n] : lister'[n] = watch[n][j]
    <3>1. Agrees(n, lister'[n]) /\ StatusFits(lister'[n])
      BY <1>0, <1>2, <2>3 DEF CopiesAgree, CopiesFit
    <3> QED
      BY <1>0, <2>1, <3>1, AgreesLater DEF Agrees, Fresh, Exists, SameResource
  <2>4. CASE lister'[n] = restores'[n]
    BY <1>2, <2>1, <2>4 DEF StoreStep, Agrees, Fresh, Exists, SameResource, Restore
  <2> QED
    BY <1>2, <2>2, <2>3, <2>4 DEF ListerStep
<1>3. ASSUME NEW t \in Workers, thread'[t] # Idle
      PROVE  Agrees(thread[t].key, thread[t].copy)'
  <2> DEFINE n == thread'[t].key
             s == thread'[t].copy
  <2>1. n \in Names /\ s \in Restore
    BY <1>3 DEF TypeOK, Task
  <2>2. CASE Agrees(n, s)
    <3> HIDE DEF n, s
    <3>1. StoreStep(n)
      BY <2>1
    <3>2. /\ s.uid <= s.rv /\ s.rv <= ver'[n]
          /\ restores'[n] # NoRestore /\ restores'[n].rv = s.rv =>
               restores'[n].uid = s.uid /\ s.phase = restores'[n].phase
      BY <1>0, <2>1, <2>2, <3>1, AgreesLater
    <3> QED
      BY <3>2 DEF Agrees, Fresh, Exists, SameResource, n, s
  <2>3. CASE restores'[n] # NoRestore /\ Like(s, restores'[n])
    <3>1. StoreStep(n) /\ ver'[n] \in Nat
      BY <2>1 DEF TypeOK
    <3> QED
      BY <2>1, <2>3, <3>1 DEF StoreStep, Like, Agrees, Fresh, Exists, SameResource
  <2> QED
    BY <1>3, <2>2, <2>3 DEF ThreadStep
<1>4. CopiesAgree'
  <2>1. ASSUME NEW n \in Names, restores'[n] # NoRestore
        PROVE  Agrees(n, restores[n])' /\ restores'[n].rv = ver'[n]
    <3>1. StoreStep(n) /\ ver'[n] \in Nat
      BY DEF TypeOK
    <3> QED
      BY <2>1, <3>1 DEF StoreStep, Agrees, Fresh, Exists, SameResource
  <2> QED
    BY <1>1, <1>2, <1>3, <2>1 DEF CopiesAgree, Exists, Busy
<1>5. CopiesFit'
  BY <1>1, <1>2 DEF CopiesFit, Exists, StoreStep
<1>6. StepsFit'
  BY DEF StepsFit, Busy, ThreadStep, FitsStep, StatusFits
<1> QED
  BY <1>4, <1>5, <1>6 DEF IndInv

\* Workers that keep what they hold, over a store that keeps the phases,
\* keep their part of the invariant.
LEMMA KeptThreads ==
  ASSUME IndInv, TypeOK',
         \A n \in Names : StoreStep(n) /\ PhaseKept(n),
         \A t \in Workers : ThreadKept(t)
  PROVE  /\ \A t \in Workers : ThreadStep(t) /\ EarlyStep(t)
         /\ OneWorkerPerKey'
         /\ RestorerOwnsResource'
<1>0. /\ TypeOK /\ CopiesAgree /\ OneWorkerPerKey /\ RestorerOwnsResource /\ BegunIsPast
  BY DEF IndInv
<1>1. ASSUME NEW t \in Workers PROVE ThreadStep(t)
  BY <1>0 DEF ThreadKept, ThreadStep, CopiesAgree, Busy, Like, Agrees, Fresh, SameResource
<1>2. ASSUME NEW t \in Workers PROVE EarlyStep(t)
  BY <1>0 DEF ThreadKept, EarlyStep, BegunIsPast, Like
<1>3. OneWorkerPerKey'
  BY <1>0 DEF ThreadKept, OneWorkerPerKey, Busy
<1>4. ASSUME NEW t \in Workers, NEW n \in Names,
             thread'[t] # Idle, thread'[t].key = n, thread'[t].pc \in RestoringSteps,
             restores'[n] # NoRestore, restores'[n].uid = thread'[t].copy.uid
      PROVE  restores'[n].phase = "InProgress"
  <2>1. RestorerOf(t, n) /\ thread[t].copy.uid = restores'[n].uid
    BY <1>4 DEF ThreadKept, RestorerOf, Like
  <2>2. /\ thread[t].copy \in Restore /\ ver[n] \in Nat
        /\ Agrees(n, thread[t].copy)
    BY <1>0, <2>1 DEF RestorerOf, CopiesAgree, TypeOK, Busy, Task
  <2>3. restores'[n].uid # ver[n] + 1
    BY <2>1, <2>2 DEF Agrees, Restore
  <2>4. Exists(n) /\ restores'[n].uid = restores[n].uid
    BY <1>4, <2>3 DEF StoreStep
  <2>5. restores[n].phase = "InProgress"
    BY <1>0, <2>1, <2>4 DEF RestorerOwnsResource, SameResource
  <2> QED
    BY <1>4, <2>4, <2>5 DEF PhaseKept
<1>5. RestorerOwnsResource'
  BY <1>4 DEF RestorerOwnsResource, RestorerOf, Busy, SameResource, Exists
<1> QED
  BY <1>1, <1>2, <1>3, <1>5

\* As long as no further Restore is begun.
LEMMA BegunKept ==
  ASSUME IndInv, TypeOK', begun' = begun,
         \A n \in Names : StoreStep(n) /\ PastKept(n),
         \A t \in Workers : EarlyStep(t)
  PROVE  BegunIsPast'
<1>0. TypeOK /\ BegunIsPast
  BY DEF IndInv
<1>1. ASSUME NEW b \in begun PROVE b[2] <= ver'[b[1]]
  <2>1. /\ b[1] \in Names /\ b[2] \in Nat /\ ver[b[1]] \in Nat /\ ver'[b[1]] \in Nat
        /\ b[2] <= ver[b[1]]
    BY <1>0 DEF TypeOK, BegunIsPast
  <2> QED
    BY <2>1 DEF StoreStep
<1>2. ASSUME NEW n \in Names, restores'[n] # NoRestore, <<n, restores'[n].uid>> \in begun
      PROVE  restores'[n].phase \notin {"", "InQueue"}
  <2>1. restores'[n].uid <= ver[n] /\ ver[n] \in Nat
    <3>1. <<n, restores'[n].uid>>[1] = n /\ <<n, restores'[n].uid>>[2] = restores'[n].uid
      OBVIOUS
    <3> QED
      BY <1>0, <1>2, <3>1 DEF BegunIsPast, TypeOK
  <2>2. restores'[n].uid # ver[n] + 1
    BY <2>1
  <2>3. Exists(n) /\ restores'[n].uid = restores[n].uid
    BY <1>2, <2>2 DEF StoreStep
  <2> QED
    BY <1>0, <1>2, <2>3 DEF BegunIsPast, PastKept
<1> QED
  BY <1>1, <1>2 DEF BegunIsPast, EarlyStep, Exists, Busy

\* As long as neither the Snapshots nor the lookups move.
LEMMA FilesKept ==
  ASSUME IndInv, UNCHANGED snapshotVars, \A t \in Workers : LookedKept(t)
  PROVE  FilesFit' /\ LookedUpFits'
<1>1. complete' = complete /\ made' = made /\ file' = file
  BY DEF snapshotVars
<1>2. FilesFit'
  BY <1>1 DEF IndInv, FilesFit
<1>3. LookedUpFits'
  BY <1>1 DEF IndInv, LookedUpFits, LookedKept, Busy
<1> QED
  BY <1>2, <1>3

\* A step after which all of this holds.
LEMMA KeptInv ==
  ASSUME IndInv, TypeOK', begun' = begun, UNCHANGED snapshotVars,
         \A n \in Names : StoreStep(n) /\ PhaseKept(n) /\ WatchStep(n) /\ ListerStep(n),
         \A t \in Workers : ThreadKept(t) /\ LookedKept(t)
  PROVE  IndInv'
<1>1. /\ \A t \in Workers : ThreadStep(t) /\ EarlyStep(t)
      /\ OneWorkerPerKey' /\ RestorerOwnsResource'
  BY KeptThreads
<1>2. \A n \in Names : PastKept(n)
  BY DEF PastKept, PhaseKept
<1>3. BegunIsPast'
  BY <1>1, <1>2, BegunKept
<1>4. FilesFit' /\ LookedUpFits'
  BY FilesKept
<1> QED
  BY <1>1, <1>3, <1>4, StepsKeepInv

-----------------------------------------------------------------------------
(* What the store's operations do, in these terms.                         *)

\* A stored Restore carries the last version given out, and a fitting status.
StoredFits ==
  \A m \in Names : Exists(m) =>
    /\ restores[m].uid <= restores[m].rv /\ restores[m].rv = ver[m]
    /\ StatusFits(restores[m])

\* The invariant says so.
LEMMA Stored == ASSUME IndInv PROVE StoredFits
  BY DEF IndInv, StoredFits, CopiesAgree, CopiesFit, Agrees

\* Without a write of the API server the store stays.
LEMMA StoreKept ==
  ASSUME IndInv, restores' = restores, ver' = ver, NEW n \in Names
  PROVE  StoreStep(n) /\ PhaseKept(n)
<1>1. ver[n] \in Nat /\ StoredFits
  BY Stored DEF IndInv, TypeOK
<1> QED
  BY <1>1 DEF StoredFits, StoreStep, PhaseKept, Exists

\* And so does the watch, without a call of the API server.
LEMMA ApiKept ==
  ASSUME IndInv, UNCHANGED apiVars, NEW n \in Names
  PROVE  StoreStep(n) /\ PhaseKept(n) /\ WatchStep(n)
<1>1. restores' = restores /\ ver' = ver /\ watch' = watch
  BY DEF apiVars
<1> QED
  BY <1>1, StoreKept DEF WatchStep

\* Storing a version of the resource, or of a new one.
LEMMA PutStep ==
  ASSUME IndInv, NEW n \in Names, NEW x \in Restore, Put(n, x), StatusFits(x),
         x.uid = ver[n] + 1 \/ (Exists(n) /\ x.uid = restores[n].uid)
  PROVE  /\ \A m \in Names : StoreStep(m) /\ WatchStep(m)
         /\ \A m \in Names \ {n} : PhaseKept(m) /\ restores'[m] = restores[m]
         /\ restores'[n] # NoRestore /\ restores'[n] = [x EXCEPT !.rv = ver[n] + 1]
<1> DEFINE y == [x EXCEPT !.rv = ver[n] + 1]
<1>0. /\ TypeOK /\ ver[n] \in Nat /\ watch[n] \in Seq(Restore \cup {NoRestore}) /\ StoredFits
  BY Stored DEF IndInv, TypeOK
<1>1. y \in Restore /\ y.rv = ver[n] + 1 /\ y.uid = x.uid /\ StatusFits(y)
  <2>1. ver[n] + 1 \in Nat
    BY <1>0
  <2>2. /\ y \in Restore /\ y.rv = ver[n] + 1 /\ y.uid = x.uid
        /\ y.phase = x.phase /\ y.until = x.until
        /\ y.contents = x.contents /\ y.archive = x.archive
    BY <2>1 DEF Restore
  <2>3. StatusFits(y)
    BY <2>2 DEF StatusFits
  <2> QED
    BY <2>2, <2>3
<1>2. /\ restores' = [restores EXCEPT ![n] = y]
      /\ ver' = [ver EXCEPT ![n] = @ + 1]
      /\ watch' = [watch EXCEPT ![n] = Append(watch[n], y)]
  BY DEF Put
<1>3. y # NoRestore
  BY <1>1, NothingAssumption
<1> HIDE DEF y
<1>4. /\ restores'[n] = y /\ ver'[n] = ver[n] + 1
      /\ watch'[n] = Append(watch[n], y)
  BY <1>0, <1>2 DEF TypeOK
<1>5. ASSUME NEW m \in Names \ {n}
      PROVE  restores'[m] = restores[m] /\ ver'[m] = ver[m] /\ watch'[m] = watch[m]
  BY <1>0, <1>2 DEF TypeOK
<1>6. StoreStep(n)
  <2>1. x.uid <= ver[n] + 1
    BY <1>0 DEF TypeOK, StoredFits, Exists, Restore
  <2> QED
    BY <1>0, <1>1, <1>4, <2>1 DEF StoreStep
<1>7. WatchStep(n)
  <2> SUFFICES ASSUME NEW i \in DOMAIN watch'[n]
               PROVE  \/ \E j \in DOMAIN watch[n] : watch'[n][i] = watch[n][j]
                      \/ watch'[n][i] = y
    BY <1>4 DEF WatchStep
  <2>1. CASE i \in DOMAIN watch[n]
    <3>1. watch'[n][i] = watch[n][i]
      BY <1>0, <1>4, <2>1
    <3> QED
      BY <2>1, <3>1
  <2>2. CASE i \notin DOMAIN watch[n]
    <3>1. i = Len(watch[n]) + 1
      BY <1>0, <1>4, <2>2
    <3> QED
      BY <1>0, <1>4, <3>1
  <2> QED
    BY <2>1, <2>2
<1>8. ASSUME NEW m \in Names \ {n}
      PROVE  StoreStep(m) /\ WatchStep(m) /\ PhaseKept(m)
  <2>1. ver[m] \in Nat
    BY <1>0 DEF TypeOK
  <2> QED
    BY <1>0, <1>5, <2>1 DEF StoredFits, StoreStep, WatchStep, PhaseKept, Exists
<1> QED
  BY <1>3, <1>4, <1>5, <1>6, <1>7, <1>8 DEF y

\* Deleting a resource.
LEMMA DeleteStep ==
  ASSUME IndInv, NEW n \in Names, Delete(n)
  PROVE  /\ \A m \in Names : StoreStep(m) /\ WatchStep(m) /\ PhaseKept(m)
         /\ \A m \in Names \ {n} : restores'[m] = restores[m]
         /\ Exists(n) /\ restores'[n] = NoRestore
<1>0. /\ TypeOK /\ watch[n] \in Seq(Restore \cup {NoRestore}) /\ StoredFits
  BY Stored DEF IndInv, TypeOK
<1>1. /\ restores'[n] = NoRestore /\ watch'[n] = Append(watch[n], NoRestore)
      /\ ver' = ver /\ Exists(n)
  BY <1>0 DEF Delete, TypeOK
<1>2. ASSUME NEW m \in Names \ {n}
      PROVE  restores'[m] = restores[m] /\ watch'[m] = watch[m]
  BY <1>0 DEF Delete, TypeOK
<1>3. StoreStep(n) /\ PhaseKept(n)
  <2>1. ver[n] \in Nat
    BY <1>0 DEF TypeOK
  <2> QED
    BY <1>1, <2>1 DEF StoreStep, PhaseKept
<1>4. WatchStep(n)
  <2> SUFFICES ASSUME NEW i \in DOMAIN watch'[n], watch'[n][i] # NoRestore
               PROVE  \E j \in DOMAIN watch[n] : watch'[n][i] = watch[n][j]
    BY DEF WatchStep
  <2>1. CASE i \in DOMAIN watch[n]
    <3>1. watch'[n][i] = watch[n][i]
      BY <1>0, <1>1, <2>1
    <3> QED
      BY <2>1, <3>1
  <2>2. CASE i \notin DOMAIN watch[n]
    <3>1. i = Len(watch[n]) + 1
      BY <1>0, <1>1, <2>2
    <3> QED
      BY <1>0, <1>1, <3>1
  <2> QED
    BY <2>1, <2>2
<1>5. ASSUME NEW m \in Names \ {n}
      PROVE  StoreStep(m) /\ WatchStep(m) /\ PhaseKept(m)
  <2>1. ver[m] \in Nat /\ ver'[m] = ver[m]
    BY <1>0, <1>1 DEF TypeOK
  <2> QED
    BY <1>0, <1>2, <2>1 DEF StoredFits, StoreStep, WatchStep, PhaseKept, Exists
<1> QED
  BY <1>1, <1>2, <1>3, <1>4, <1>5

\* An update the API server accepts from a worker: the stored resource is
\* the one the worker has, and moves to the phase its call may give it.
LEMMA UpdateStep ==
  ASSUME IndInv, TypeOK', NEW t \in Workers, Writing(t),
         Fresh(thread[t].key, thread[t].copy.rv), Update(thread[t].key, Target(t))
  PROVE  LET n == thread[t].key
             x == Returned(n, Target(t))
         IN /\ \A m \in Names : StoreStep(m) /\ WatchStep(m) /\ PastKept(m)
            /\ \A m \in Names \ {n} : PhaseKept(m) /\ restores'[m] = restores[m]
            /\ restores'[n] # NoRestore /\ restores'[n] = x
            /\ Exists(n) /\ restores[n].uid = thread[t].copy.uid
            /\ restores[n].phase = thread[t].copy.phase
            /\ x \in Restore /\ StatusFits(x) /\ x.uid = restores[n].uid
            /\ x.phase = Target(t).phase
            /\ thread[t].pc = "start" => x.phase = "InProgress"
<1> DEFINE n == thread[t].key
           s == thread[t].copy
           w == Target(t)
<1>1. /\ TypeOK /\ n \in Names /\ s \in Restore /\ thread[t].pc \in WriteSteps /\ w \in Restore
  BY TargetType DEF IndInv, Task
<1>2. Exists(n) /\ restores[n].rv = s.rv /\ restores[n].uid = s.uid /\ restores[n].phase = s.phase
  BY DEF IndInv, CopiesAgree, Writing, Agrees, Fresh, SameResource
<1>3. FitsStep(thread[t].pc, s)
  BY DEF IndInv, StepsFit, Writing
<1>4. /\ w.rv = s.rv /\ w.uid = s.uid /\ StatusFits(w)
      /\ s.phase \notin {"", "InQueue"} => w.phase \notin {"", "InQueue"}
      /\ thread[t].pc = "start" => w.phase = "InProgress"
  BY <1>1, <1>3, WrittenFacts DEF Target
<1>5. ASSUME NEW m \in Names, PhaseKept(m)
      PROVE  PastKept(m)
  BY <1>5 DEF PhaseKept, PastKept
<1>6. CASE Unchanged(n, w)
  <2>1. UNCHANGED apiVars /\ Returned(n, w) = restores[n]
    BY <1>6 DEF Update, Returned
  <2>2. \A m \in Names : StoreStep(m) /\ PhaseKept(m) /\ WatchStep(m)
    BY <2>1, ApiKept
  <2>3. [w EXCEPT !.rv = restores[n].rv].phase = w.phase
    BY <1>1 DEF Restore
  <2>4. w.phase = restores[n].phase
    BY <1>6, <2>3 DEF Unchanged
  <2>5. restores[n] \in Restore /\ StatusFits(restores[n])
    BY <1>1, <1>2 DEF IndInv, TypeOK, Exists, CopiesFit
  <2> QED
    BY <1>1, <1>2, <1>4, <1>5, <2>1, <2>2, <2>4, <2>5 DEF apiVars, Exists
<1>7. CASE ~Unchanged(n, w)
  <2>1. Put(n, w) /\ Returned(n, w) = [w EXCEPT !.rv = ver[n] + 1]
    BY <1>7 DEF Update, Returned
  <2> HIDE DEF n, s, w
  <2>5. w.uid = restores[n].uid
    BY <1>2, <1>4
  <2>2. /\ \A m \in Names : StoreStep(m) /\ WatchStep(m)
        /\ \A m \in Names \ {n} : PhaseKept(m) /\ restores'[m] = restores[m]
        /\ restores'[n] # NoRestore /\ restores'[n] = [w EXCEPT !.rv = ver[n] + 1]
    BY <1>1, <1>2, <1>4, <2>1, <2>5, PutStep
  <2>3. /\ restores'[n] \in Restore /\ restores'[n].phase = w.phase /\ restores'[n].uid = w.uid
    BY <1>1, <2>2 DEF TypeOK, Restore
  <2>4. PastKept(n)
    BY <1>2, <1>4, <2>3 DEF PastKept
  <2>6. StatusFits(restores'[n])
    BY <1>1, <2>2 DEF StoreStep
  <2> QED
    BY <1>1, <1>2, <1>4, <1>5, <2>1, <2>2, <2>3, <2>4, <2>6 DEF n, s, w
<1> QED
  BY <1>6, <1>7

-----------------------------------------------------------------------------
(* The workers.                                                            *)

\* A worker that does not move, in a step that leaves it alone.
LEMMA SameKept ==
  ASSUME IndInv, NEW t \in Workers, thread'[t] = Idle \/ thread'[t] = thread[t]
  PROVE  ThreadKept(t) /\ LookedKept(t)
  BY DEF IndInv, StepsFit, ThreadKept, LookedKept, Busy, Like

\* A worker goes on with the version it has, and the others stay.
LEMMA GotoKept ==
  ASSUME IndInv, NEW t \in Workers, Busy(t), NEW pc \in Steps, NEW x,
         Goto(t, pc, x), Like(x, thread[t].copy), FitsStep(pc, x),
         pc \in RestoringSteps => thread[t].pc \in RestoringSteps,
         pc \in EarlySteps => thread[t].pc \in EarlySteps,
         NEW u \in Workers
  PROVE  ThreadKept(u) /\ (u # t => LookedKept(u))
<1>1. thread \in [Workers -> Task \cup {Idle}] /\ thread[t] \in Task
  BY DEF IndInv, TypeOK, Busy
<1>2. CASE u = t
  <2>1. thread'[t] = [thread[t] EXCEPT !.pc = pc, !.copy = x]
    BY <1>1 DEF Goto
  <2>2. thread'[t].pc = pc /\ thread'[t].copy = x /\ thread'[t].key = thread[t].key
    BY <1>1, <2>1 DEF Task
  <2> QED
    BY <1>2, <2>2 DEF ThreadKept
<1>3. CASE u # t
  <2>1. thread'[u] = thread[u]
    BY <1>1, <1>3 DEF Goto
  <2> QED
    BY <2>1, SameKept
<1> QED
  BY <1>2, <1>3

\* What Goto leaves the worker with.
LEMMA GotoFacts ==
  ASSUME IndInv, NEW t \in Workers, Busy(t), NEW pc \in Steps, NEW x, Goto(t, pc, x)
  PROVE  /\ thread'[t].pc = pc /\ thread'[t].copy = x /\ thread'[t].key = thread[t].key
         /\ \A u \in Workers \ {t} : thread'[u] = thread[u]
<1>1. thread \in [Workers -> Task \cup {Idle}] /\ thread[t] \in Task
  BY DEF IndInv, TypeOK, Busy
<1>2. thread'[t] = [thread[t] EXCEPT !.pc = pc, !.copy = x]
  BY <1>1 DEF Goto
<1>3. thread'[t].pc = pc /\ thread'[t].copy = x /\ thread'[t].key = thread[t].key
  BY <1>1, <1>2 DEF Task
<1>4. \A u \in Workers \ {t} : thread'[u] = thread[u]
  BY <1>1 DEF Goto
<1> QED
  BY <1>3, <1>4

\* A worker finishes with its key.
LEMMA DoneKept ==
  ASSUME IndInv, NEW t \in Workers, thread' = [thread EXCEPT ![t] = Idle],
         NEW u \in Workers
  PROVE  ThreadKept(u) /\ LookedKept(u)
<1>1. thread \in [Workers -> Task \cup {Idle}]
  BY DEF IndInv, TypeOK
<1>2. thread'[u] = Idle \/ thread'[u] = thread[u]
  BY <1>1
<1> QED
  BY <1>2, SameKept

\* A lister nobody touches.
LEMMA ListerKept ==
  ASSUME UNCHANGED lister, NEW n \in Names
  PROVE  ListerStep(n)
  BY DEF ListerStep, Like

-----------------------------------------------------------------------------
(* One lemma for each part of the next-state relation.                     *)

\* A step that leaves the API server, the lister and the workers alone.
LEMMA QuietSteps ==
  ASSUME IndInv, UNCHANGED apiVars, UNCHANGED lister, UNCHANGED thread
  PROVE  /\ \A n \in Names : StoreStep(n) /\ PhaseKept(n) /\ WatchStep(n) /\ ListerStep(n)
         /\ \A t \in Workers : ThreadKept(t) /\ LookedKept(t)
  BY ApiKept, ListerKept, SameKept

\* The users and the clock.
LEMMA EnvironmentInv ==
  ASSUME Constants, IndInv, TypeOK', User \/ Tick
  PROVE  IndInv'
<1>0. TypeOK /\ CopiesFit /\ UNCHANGED <<lister, thread, begun, snapshotVars>>
  BY DEF IndInv, User, Tick, UserCreate, UserEdit, UserDelete
<1>1. /\ \A n \in Names : ListerStep(n)
      /\ \A t \in Workers : ThreadKept(t) /\ LookedKept(t)
  BY <1>0, ListerKept, SameKept
<1>2. ASSUME \A n \in Names : StoreStep(n) /\ PhaseKept(n) /\ WatchStep(n)
      PROVE  IndInv'
  BY <1>0, <1>1, <1>2, KeptInv
<1>3. CASE Tick
  BY <1>2, <1>3, ApiKept DEF Tick
<1>4. ASSUME NEW n \in Names, UserCreate(n)
      PROVE  IndInv'
  <2>1. PICK x \in Restore : /\ Put(n, x) /\ ~Exists(n) /\ x.uid = ver[n] + 1
                             /\ x.phase = "" /\ StatusFits(x)
    BY <1>0, <1>4, UserCreateFacts
  <2>2. /\ \A m \in Names : StoreStep(m) /\ WatchStep(m)
        /\ \A m \in Names \ {n} : PhaseKept(m)
    BY <2>1, PutStep
  <2>3. PhaseKept(n)
    BY <2>1 DEF PhaseKept
  <2> QED
    BY <1>2, <2>2, <2>3
<1>5. ASSUME NEW n \in Names, UserEdit(n)
      PROVE  IndInv'
  <2>1. PICK x \in Restore : /\ Put(n, x) /\ Exists(n) /\ x.uid = restores[n].uid
                             /\ x.phase = restores[n].phase
                             /\ StatusFits(restores[n]) => StatusFits(x)
    BY <1>0, <1>5, UserEditFacts
  <2>2. StatusFits(x)
    BY <1>0, <2>1 DEF CopiesFit
  <2>3. /\ \A m \in Names : StoreStep(m) /\ WatchStep(m)
        /\ \A m \in Names \ {n} : PhaseKept(m)
        /\ restores'[n] = [x EXCEPT !.rv = ver[n] + 1]
    BY <2>1, <2>2, PutStep
  <2>4. restores'[n].phase = x.phase
    BY <2>3 DEF Restore
  <2>5. PhaseKept(n)
    BY <2>1, <2>4 DEF PhaseKept
  <2> QED
    BY <1>2, <2>3, <2>5
<1>6. ASSUME NEW n \in Names, UserDelete(n)
      PROVE  IndInv'
  BY <1>2, <1>6, DeleteStep DEF UserDelete
<1> QED
  BY <1>3, <1>4, <1>5, <1>6 DEF User

\* The Snapshots and their files: a file that was not removed is that of its
\* Snapshot or of the one before, and no number is used twice.
LEMMA SnapshotInv ==
  ASSUME IndInv, TypeOK', SnapshotNext
  PROVE  IndInv'
<1>0. /\ TypeOK /\ FilesFit /\ LookedUpFits /\ OneWorkerPerKey /\ RestorerOwnsResource
      /\ UNCHANGED apiVars /\ UNCHANGED lister /\ UNCHANGED thread /\ begun' = begun
  BY DEF IndInv, SnapshotNext
<1>1. PICK s \in Snapshots :
        \/ SnapshotMade(s) \/ SnapshotUploaded(s) \/ SnapshotCompleted(s)
        \/ SnapshotGone(s) \/ FileDeleted(s)
  BY DEF SnapshotNext
<1>2. ASSUME NEW z \in Snapshots
      PROVE  /\ made[z] <= made'[z]
             /\ file'[z] \in {0, file[z], made[z]}
             /\ file'[z] <= made'[z]
             /\ z \in complete' => 0 < made'[z] /\ file'[z] \in {0, made'[z]}
  <2>0. /\ made[z] \in Nat /\ file[z] \in Nat /\ file[z] <= made[z]
        /\ z \in complete => 0 < made[z] /\ file[z] \in {0, made[z]}
    BY <1>0 DEF TypeOK, FilesFit
  <2>1. CASE SnapshotMade(s)
    <3>1. made'[z] = made[z] \/ (z = s /\ made'[z] = made[z] + 1)
      BY <1>0, <2>1 DEF SnapshotMade, TypeOK
    <3>2. file' = file /\ complete' = complete \ {s} /\ (z # s => made'[z] = made[z])
      BY <1>0, <2>1 DEF SnapshotMade, TypeOK
    <3> QED
      BY <2>0, <3>1, <3>2
  <2>2. CASE SnapshotUploaded(s)
    <3>1. /\ made' = made /\ complete' = complete /\ s \notin complete
          /\ file'[z] = IF z = s THEN made[z] ELSE file[z]
      BY <1>0, <2>2 DEF SnapshotUploaded, TypeOK
    <3> QED
      BY <2>0, <3>1
  <2>3. CASE SnapshotCompleted(s)
    BY <2>0, <2>3 DEF SnapshotCompleted
  <2>4. CASE SnapshotGone(s)
    BY <2>0, <2>4 DEF SnapshotGone
  <2>5. CASE FileDeleted(s)
    <3>1. /\ made' = made /\ complete' = complete
          /\ file'[z] = IF z = s THEN 0 ELSE file[z]
      BY <1>0, <2>5 DEF FileDeleted, TypeOK
    <3> QED
      BY <2>0, <3>1
  <2> QED
    BY <1>1, <2>1, <2>2, <2>3, <2>4, <2>5
<1>3. FilesFit'
  BY <1>2 DEF FilesFit
<1>4. LookedUpFits'
  <2> SUFFICES ASSUME NEW t \in Workers, thread[t] # Idle,
                      thread[t].pc \in EarlySteps \ {"snapshot"}
               PROVE  /\ thread[t].copy.contents <= made'[thread[t].copy.from]
                      /\ \/ file'[thread[t].copy.from] = 0
                         \/ thread[t].copy.contents <= file'[thread[t].copy.from]
    BY <1>0 DEF LookedUpFits, Busy
  <2> DEFINE c == thread[t].copy.contents
             z == thread[t].copy.from
  <2>1. z \in Snapshots /\ c \in Nat
    BY <1>0 DEF TypeOK, Task, Restore
  <2>2. c <= made[z] /\ (file[z] = 0 \/ c <= file[z])
    BY <1>0 DEF LookedUpFits, Busy
  <2>3. made[z] \in Nat /\ made'[z] \in Nat /\ file[z] \in Nat
    BY <1>0, <2>1 DEF TypeOK
  <2>4. made[z] <= made'[z] /\ file'[z] \in {0, file[z], made[z]}
    BY <1>2, <2>1
  <2> HIDE DEF c, z
  <2>5. c <= made'[z] /\ (file'[z] = 0 \/ c <= file'[z])
    BY <2>1, <2>2, <2>3, <2>4
  <2> QED
    BY <2>5 DEF c, z
<1>5. /\ \A n \in Names : StoreStep(n) /\ PhaseKept(n) /\ WatchStep(n) /\ ListerStep(n)
      /\ \A t \in Workers : ThreadKept(t)
  BY <1>0, QuietSteps
<1>6. /\ \A t \in Workers : ThreadStep(t) /\ EarlyStep(t)
      /\ OneWorkerPerKey' /\ RestorerOwnsResource'
  BY <1>5, KeptThreads
<1>7. BegunIsPast'
  BY <1>0, <1>5, <1>6, BegunKept DEF PhaseKept, PastKept
<1> QED
  BY <1>3, <1>4, <1>5, <1>6, <1>7, StepsKeepInv

\* The informer and the queue.
LEMMA InformerInv ==
  ASSUME IndInv, TypeOK', NEW n \in Names, Informer(n)
  PROVE  IndInv'
<1>0. TypeOK /\ UNCHANGED <<restores, ver, thread, begun, snapshotVars>>
  BY DEF IndInv, Informer, Deliver, Resync, Ready, apiVars
<1>1. ASSUME NEW m \in Names PROVE StoreStep(m) /\ PhaseKept(m)
  BY <1>0, StoreKept
<1>2. ASSUME NEW t \in Workers PROVE ThreadKept(t) /\ LookedKept(t)
  BY <1>0, SameKept
<1>3. CASE Deliver(n)
  <2>1. /\ watch[n] \in Seq(Restore \cup {NoRestore}) /\ watch[n] # <<>>
        /\ watch'[n] = Tail(watch[n]) /\ lister'[n] = Head(watch[n])
    BY <1>0, <1>3 DEF Deliver, TypeOK
  <2>2. ASSUME NEW m \in Names \ {n}
        PROVE  watch'[m] = watch[m] /\ lister'[m] = lister[m]
    BY <1>0, <1>3 DEF Deliver, TypeOK
  <2>3. WatchStep(n)
    <3> SUFFICES ASSUME NEW i \in DOMAIN watch'[n]
                 PROVE  \E j \in DOMAIN watch[n] : watch'[n][i] = watch[n][j]
      BY DEF WatchStep
    <3>1. i + 1 \in DOMAIN watch[n] /\ watch'[n][i] = watch[n][i + 1]
      BY <2>1
    <3> QED
      BY <3>1
  <2>4. ListerStep(n)
    <3>1. 1 \in DOMAIN watch[n] /\ Head(watch[n]) = watch[n][1]
      BY <2>1
    <3> QED
      BY <2>1, <3>1 DEF ListerStep
  <2>5. ASSUME NEW m \in Names \ {n} PROVE WatchStep(m) /\ ListerStep(m)
    BY <2>2 DEF WatchStep, ListerStep, Like
  <2> QED
    BY <1>0, <1>1, <1>2, <2>3, <2>4, <2>5, KeptInv
<1>4. CASE Resync(n) \/ Ready(n)
  <2>1. UNCHANGED apiVars /\ UNCHANGED lister
    BY <1>4 DEF Resync, Ready
  <2> QED
    BY <1>0, <1>1, <1>2, <2>1, ApiKept, ListerKept, KeptInv
<1> QED
  BY <1>3, <1>4 DEF Informer

\* A worker takes a key.
LEMMA StartSyncInv ==
  ASSUME Constants, IndInv, TypeOK', NEW t \in Workers, NEW n \in Names, StartSync(t, n)
  PROVE  IndInv'
<1>0. /\ TypeOK /\ CopiesAgree /\ CopiesFit /\ OneWorkerPerKey /\ RestorerOwnsResource
      /\ StepsFit /\ BegunIsPast /\ UNCHANGED apiVars /\ begun' = begun
      /\ UNCHANGED snapshotVars
  BY DEF IndInv, StartSync
<1>1. ASSUME NEW m \in Names PROVE StoreStep(m) /\ PhaseKept(m) /\ WatchStep(m)
  BY <1>0, ApiKept
<1>2. CASE lister[n] = NoRestore /\ UNCHANGED <<lister, thread>>
  BY <1>0, <1>1, <1>2, QuietSteps, KeptInv
<1>3. CASE lister[n] # NoRestore
  <2> DEFINE next == FirstCall(lister[n])
             x == next.copy
             k == [pc |-> next.pc, key |-> n, copy |-> x, at |-> next.at]
  <2>1. /\ lister[n] \in Restore /\ Agrees(n, lister[n]) /\ StatusFits(lister[n])
        /\ now \in Nat
    BY <1>0, <1>3 DEF TypeOK, CopiesAgree, CopiesFit
  <2>2. /\ next.pc \in {"start", "past", "queue", "expire", "edit", "delete", "return"}
        /\ x.rv = lister[n].rv /\ x.uid = lister[n].uid /\ x.phase = lister[n].phase
        /\ StatusFits(x) /\ FitsStep(next.pc, x)
    BY <2>1, FirstCallFacts
  <2>3. Proceed(t, n, next) /\ lister' = [lister EXCEPT ![n] = x]
    BY <1>3 DEF StartSync
  <2> HIDE DEF next
  <2>4. Agrees(n, x)
    BY <2>1, <2>2 DEF Agrees, Fresh, SameResource
  <2>5. ASSUME NEW m \in Names PROVE ListerStep(m)
    <3>1. CASE m = n
      BY <1>0, <1>3, <2>2, <2>3, <3>1 DEF ListerStep, Like, TypeOK
    <3>2. CASE m # n
      BY <1>0, <2>3, <3>2 DEF ListerStep, Like, TypeOK
    <3> QED
      BY <3>1, <3>2
  <2>6. /\ thread'[t] = Idle \/ thread'[t] = k
        /\ \A u \in Workers \ {t} : thread'[u] = thread[u]
        /\ ~Busy(t)
    BY <1>0, <2>3 DEF Proceed, TypeOK, StartSync
  <2>7. /\ k.pc = next.pc /\ k.key = n /\ k.copy = x
        /\ k.pc \notin RestoringSteps /\ k.pc \notin EarlySteps
    BY <2>2 DEF RestoringSteps, EarlySteps
  <2> HIDE DEF k
  <2>8. ASSUME NEW u \in Workers PROVE ThreadStep(u) /\ EarlyStep(u) /\ LookedKept(u)
    <3>1. CASE u = t
      BY <2>2, <2>4, <2>6, <2>7, <3>1 DEF ThreadStep, EarlyStep, LookedKept
    <3>2. CASE u # t
      <4>1. thread'[u] = thread[u]
        BY <2>6, <3>2
      <4> QED
        BY <1>0, <4>1 DEF ThreadStep, EarlyStep, LookedKept, Busy, StepsFit, CopiesAgree,
                          BegunIsPast
    <3> QED
      BY <3>1, <3>2
  <2>9. OneWorkerPerKey'
    <3>1. n \notin Processing
      BY DEF StartSync
    <3>2. \A u \in Workers : Busy(u) => thread[u].key # n
      BY <3>1 DEF Processing
    <3> QED
      BY <1>0, <2>6, <2>7, <3>2 DEF OneWorkerPerKey, Busy
  <2>10. RestorerOwnsResource'
    <3>1. ASSUME NEW u \in Workers, NEW m \in Names, RestorerOf(u, m)'
          PROVE  thread'[u] = thread[u] /\ RestorerOf(u, m)
      BY <2>6, <2>7, <3>1 DEF RestorerOf, Busy
    <3>2. restores' = restores
      BY <1>0 DEF apiVars
    <3> QED
      BY <1>0, <3>1, <3>2 DEF RestorerOwnsResource, SameResource, Exists
  <2>11. FilesFit' /\ LookedUpFits'
    BY <1>0, <2>8, FilesKept
  <2>12. BegunIsPast'
    BY <1>0, <1>1, <2>8, BegunKept DEF PhaseKept, PastKept
  <2> QED
    BY <1>1, <2>5, <2>8, <2>9, <2>10, <2>11, <2>12, StepsKeepInv
<1> QED
  BY <1>2, <1>3 DEF StartSync

\* A worker's update is accepted, and it goes on or stops. Only one that
\* started a Restore may come to be on its way to clusterCmd.Restore.
LEMMA UpdateAcceptedInv ==
  ASSUME Constants, IndInv, TypeOK', NEW t \in Workers, UpdateAccepted(t)
  PROVE  IndInv'
<1> DEFINE n == thread[t].key
           x == Returned(n, Target(t))
           next == AfterWrite(thread[t], x)
           k == [pc |-> next.pc, key |-> n, copy |-> next.copy, at |-> next.at]
<1>0. /\ TypeOK /\ CopiesAgree /\ OneWorkerPerKey /\ RestorerOwnsResource
      /\ StepsFit /\ BegunIsPast /\ UNCHANGED lister /\ begun' = begun /\ UNCHANGED snapshotVars
  BY DEF IndInv, UpdateAccepted
<1>1. /\ Writing(t) /\ Busy(t) /\ Fresh(n, thread[t].copy.rv) /\ Update(n, Target(t))
      /\ thread[t] \in Task /\ n \in Names /\ thread[t].pc \in WriteSteps /\ now \in Nat
  BY <1>0, TargetType DEF UpdateAccepted, Writing, Task, TypeOK
<1>2. /\ \A m \in Names : StoreStep(m) /\ WatchStep(m) /\ PastKept(m)
      /\ \A m \in Names \ {n} : PhaseKept(m) /\ restores'[m] = restores[m]
      /\ restores'[n] # NoRestore /\ restores'[n] = x
      /\ Exists(n) /\ restores[n].uid = thread[t].copy.uid
      /\ restores[n].phase = thread[t].copy.phase
      /\ x \in Restore /\ StatusFits(x) /\ x.uid = restores[n].uid
      /\ thread[t].pc = "start" => x.phase = "InProgress"
  BY <1>1, UpdateStep
<1>3. Proceed(t, n, next)
  BY DEF UpdateAccepted
<1> HIDE DEF x
<1>4. /\ next.pc \in {"past", "queue", "expire", "edit", "delete", "return", "snapshot"}
      /\ next.pc = "snapshot" => thread[t].pc = "start"
      /\ next.copy.rv = x.rv /\ next.copy.uid = x.uid /\ next.copy.phase = x.phase
      /\ FitsStep(next.pc, next.copy)
  BY <1>1, <1>2, AfterWriteFacts
<1> HIDE DEF next
<1>5. /\ thread'[t] = Idle \/ thread'[t] = k
      /\ \A u \in Workers \ {t} : thread'[u] = thread[u]
  BY <1>0, <1>3 DEF Proceed, TypeOK
<1>6. k.pc = next.pc /\ k.key = n /\ k.copy = next.copy
  OBVIOUS
<1> HIDE DEF k, n
<1>7. ASSUME NEW u \in Workers PROVE ThreadStep(u) /\ EarlyStep(u) /\ LookedKept(u)
  <2>1. CASE u = t
    <3>1. ThreadStep(u)
      BY <1>2, <1>4, <1>5, <1>6, <2>1 DEF ThreadStep, Like
    <3>2. LookedKept(u)
      BY <1>4, <1>5, <1>6, <2>1 DEF LookedKept, EarlySteps
    <3>3. EarlyStep(u)
      <4> SUFFICES ASSUME thread'[t] # Idle, thread'[t].pc \in EarlySteps
                   PROVE  <<thread'[t].key, thread'[t].copy.uid>> \notin begun
        BY <2>1 DEF EarlyStep
      <4>1. thread[t].pc = "start" /\ thread'[t].key = n /\ thread'[t].copy.uid = restores[n].uid
        BY <1>2, <1>4, <1>5, <1>6 DEF EarlySteps
      <4>2. FitsStep("start", thread[t].copy)
        BY <1>0, <1>1, <4>1 DEF StepsFit
      <4>3. restores[n].phase = "InQueue"
        BY <1>2, <4>2 DEF FitsStep
      <4> QED
        BY <1>0, <1>1, <1>2, <4>1, <4>3 DEF BegunIsPast
    <3> QED
      BY <3>1, <3>2, <3>3
  <2>2. CASE u # t
    <3>1. thread'[u] = thread[u]
      BY <1>5, <2>2
    <3> QED
      BY <1>0, <3>1 DEF ThreadStep, EarlyStep, LookedKept, Busy, StepsFit, CopiesAgree,
                        BegunIsPast
  <2> QED
    BY <2>1, <2>2
<1>8. OneWorkerPerKey'
  BY <1>0, <1>1, <1>5, <1>6 DEF OneWorkerPerKey, Busy, n
<1>9. RestorerOwnsResource'
  <2> SUFFICES ASSUME NEW u \in Workers, NEW m \in Names, thread'[u] # Idle,
                      thread'[u].key = m, thread'[u].pc \in RestoringSteps,
                      restores'[m] # NoRestore, restores'[m].uid = thread'[u].copy.uid
               PROVE  restores'[m].phase = "InProgress"
    BY DEF RestorerOwnsResource, RestorerOf, Busy, SameResource, Exists
  <2>1. CASE u = t
    <3>1. m = n /\ next.pc \in RestoringSteps
      BY <1>5, <1>6, <2>1
    <3>2. next.copy.phase = "InProgress"
      BY <1>4, <3>1 DEF FitsStep
    <3> QED
      BY <1>2, <1>4, <3>1, <3>2
  <2>2. CASE u # t
    <3>1. thread'[u] = thread[u] /\ RestorerOf(u, m)
      BY <1>5, <2>2 DEF RestorerOf, Busy
    <3>2. m # n
      BY <1>0, <1>1, <2>2, <3>1 DEF OneWorkerPerKey, RestorerOf, n
    <3>3. restores'[m] = restores[m]
      BY <1>2, <3>2
    <3> QED
      BY <1>0, <3>1, <3>3 DEF RestorerOwnsResource, SameResource, Exists
  <2> QED
    BY <2>1, <2>2
<1>10. ASSUME NEW m \in Names PROVE ListerStep(m)
  BY <1>0, ListerKept
<1>11. FilesFit' /\ LookedUpFits'
  BY <1>0, <1>7, FilesKept
<1>12. BegunIsPast'
  BY <1>0, <1>2, <1>7, BegunKept
<1> QED
  BY <1>2, <1>7, <1>8, <1>9, <1>10, <1>11, <1>12, StepsKeepInv

\* A worker's update is accepted and it does not hear of it.
LEMMA UpdateUnansweredInv ==
  ASSUME IndInv, TypeOK', NEW t \in Workers, UpdateUnanswered(t)
  PROVE  IndInv'
<1> DEFINE n == thread[t].key
<1>0. /\ TypeOK /\ CopiesAgree /\ OneWorkerPerKey /\ RestorerOwnsResource
      /\ StepsFit /\ BegunIsPast /\ UNCHANGED lister /\ begun' = begun /\ UNCHANGED snapshotVars
  BY DEF IndInv, UpdateUnanswered
<1>1. /\ Writing(t) /\ Busy(t) /\ Fresh(n, thread[t].copy.rv) /\ Update(n, Target(t))
      /\ n \in Names
  BY <1>0, TargetType DEF UpdateUnanswered, Writing, Task
<1>2. /\ \A m \in Names : StoreStep(m) /\ WatchStep(m) /\ PastKept(m)
      /\ \A m \in Names \ {n} : restores'[m] = restores[m]
  BY <1>1, UpdateStep
<1>3. thread' = [thread EXCEPT ![t] = Idle]
  BY DEF UpdateUnanswered, Requeue
<1>4. ASSUME NEW u \in Workers
      PROVE  thread'[u] = Idle \/ (u # t /\ thread'[u] = thread[u])
  BY <1>0, <1>3 DEF TypeOK
<1> HIDE DEF n
<1>5. ASSUME NEW u \in Workers PROVE ThreadStep(u) /\ EarlyStep(u) /\ LookedKept(u)
  BY <1>0, <1>4 DEF ThreadStep, EarlyStep, LookedKept, Busy, StepsFit, CopiesAgree, BegunIsPast
<1>6. OneWorkerPerKey'
  BY <1>0, <1>4 DEF OneWorkerPerKey, Busy
<1>7. RestorerOwnsResource'
  <2> SUFFICES ASSUME NEW u \in Workers, NEW m \in Names, thread'[u] # Idle,
                      thread'[u].key = m, thread'[u].pc \in RestoringSteps,
                      restores'[m] # NoRestore, restores'[m].uid = thread'[u].copy.uid
               PROVE  restores'[m].phase = "InProgress"
    BY DEF RestorerOwnsResource, RestorerOf, Busy, SameResource, Exists
  <2>1. u # t /\ thread'[u] = thread[u] /\ RestorerOf(u, m)
    BY <1>4 DEF RestorerOf, Busy
  <2>2. m # n
    BY <1>0, <1>1, <2>1 DEF OneWorkerPerKey, RestorerOf, n
  <2>3. restores'[m] = restores[m]
    BY <1>2, <2>2
  <2> QED
    BY <1>0, <2>1, <2>3 DEF RestorerOwnsResource, SameResource, Exists
<1>8. ASSUME NEW m \in Names PROVE ListerStep(m)
  BY <1>0, ListerKept
<1>9. FilesFit' /\ LookedUpFits'
  BY <1>0, <1>5, FilesKept
<1>10. BegunIsPast'
  BY <1>0, <1>2, <1>5, BegunKept
<1> QED
  BY <1>2, <1>5, <1>6, <1>7, <1>8, <1>9, <1>10, StepsKeepInv

\* What the invariant says of a worker that is busy.
LEMMA BusyFacts ==
  ASSUME IndInv, NEW t \in Workers, Busy(t)
  PROVE  /\ thread[t] \in Task /\ thread[t].key \in Names /\ thread[t].copy \in Restore
         /\ FitsStep(thread[t].pc, thread[t].copy)
         /\ Like(thread[t].copy, thread[t].copy)
  BY DEF IndInv, TypeOK, Busy, StepsFit, Task, Like

\* The worker looks the Snapshot up: it is Completed, and its file is its own.
LEMMA GetSnapshotInv ==
  ASSUME IndInv, TypeOK', NEW t \in Workers, GetSnapshot(t)
  PROVE  IndInv'
<1> DEFINE s == thread[t].copy
           x == [s EXCEPT !.contents = made[s.from]]
<1>0. /\ UNCHANGED apiVars /\ UNCHANGED lister /\ begun' = begun /\ UNCHANGED snapshotVars
      /\ TypeOK /\ FilesFit /\ LookedUpFits
  BY DEF IndInv, GetSnapshot
<1>1. Busy(t) /\ thread[t].pc = "snapshot" /\ s \in Restore /\ FitsStep("snapshot", s) /\ Like(s, s)
  BY BusyFacts DEF GetSnapshot, At
<1>2. \A n \in Names : StoreStep(n) /\ PhaseKept(n) /\ WatchStep(n) /\ ListerStep(n)
  BY <1>0, ApiKept, ListerKept
<1>3. CASE s.from \notin complete /\ Goto(t, "fail", s)
  <2>1. FitsStep("fail", s) /\ "fail" \in Steps \ EarlySteps
    BY <1>1 DEF FitsStep, Steps, RestoringSteps, EarlySteps
  <2>2. "snapshot" \in RestoringSteps
    BY DEF RestoringSteps
  <2>3. \A u \in Workers : ThreadKept(u) /\ (u # t => LookedKept(u))
    BY <1>1, <1>3, <2>1, <2>2, GotoKept
  <2>4. LookedKept(t)
    BY <1>1, <1>3, <2>1, GotoFacts DEF LookedKept
  <2> QED
    BY <1>0, <1>2, <2>3, <2>4, KeptInv
<1>4. CASE s.from \in complete /\ Goto(t, "lookup", x)
  <2>1. /\ s.from \in Snapshots /\ made[s.from] \in Nat
        /\ 0 < made[s.from] /\ file[s.from] \in {0, made[s.from]}
    BY <1>0, <1>1, <1>4 DEF TypeOK, Restore, FilesFit
  <2>2. /\ x.phase = s.phase /\ x.archive = s.archive /\ x.rv = s.rv /\ x.uid = s.uid
        /\ x.contents = made[s.from] /\ x.from = s.from
    BY <1>1, <2>1 DEF Restore
  <2>3. "lookup" \in Steps /\ "lookup" \in RestoringSteps /\ "lookup" \in EarlySteps
        /\ "snapshot" \in RestoringSteps /\ "snapshot" \in EarlySteps
    BY DEF Steps, RestoringSteps, EarlySteps
  <2>4. FitsStep("lookup", x)
    BY <1>1, <2>1, <2>2, <2>3 DEF FitsStep
  <2>5. Like(x, s)
    BY <2>2 DEF Like
  <2>6. Goto(t, "lookup", x)
    BY <1>4
  <2> HIDE DEF x
  <2>7. \A u \in Workers : ThreadKept(u) /\ (u # t => LookedKept(u))
    BY <1>1, <2>3, <2>4, <2>5, <2>6, GotoKept
  <2>8. thread'[t].copy = x
    BY <1>1, <2>3, <2>6, GotoFacts
  <2>9. complete' = complete /\ made' = made /\ file' = file
    BY <1>0 DEF snapshotVars
  <2>10. FilesFit'
    BY <1>0, <2>9 DEF FilesFit
  <2>11. ASSUME NEW u \in Workers, thread'[u] # Idle,
                thread'[u].pc \in EarlySteps \ {"snapshot"}
         PROVE  LET r == thread'[u].copy IN
                  r.contents <= made[r.from] /\ (file[r.from] = 0 \/ r.contents <= file[r.from])
    <3>1. CASE u = t
      BY <2>1, <2>2, <2>8, <3>1
    <3>2. CASE u # t
      BY <1>0, <2>7, <2>11, <3>2 DEF LookedKept, LookedUpFits
    <3> QED
      BY <3>1, <3>2
  <2>12. LookedUpFits'
    BY <2>9, <2>11 DEF LookedUpFits, Busy
  <2>13. /\ \A u \in Workers : ThreadStep(u) /\ EarlyStep(u)
         /\ OneWorkerPerKey' /\ RestorerOwnsResource'
    BY <1>2, <2>7, KeptThreads
  <2>14. BegunIsPast'
    BY <1>0, <1>2, <2>13, BegunKept DEF PhaseKept, PastKept
  <2> QED
    BY <1>2, <2>10, <2>12, <2>13, <2>14, StepsKeepInv
<1> QED
  BY <1>3, <1>4 DEF GetSnapshot

\* The worker calls clusterCmd.Restore, which is remembered. The stored
\* Restore, if it is this one, is InProgress, and nobody else has the key.
LEMMA BegunAdded ==
  ASSUME IndInv, TypeOK', NEW t \in Workers, At(t, "restore"),
         begun' = begun \cup {<<thread[t].key, thread[t].copy.uid>>},
         UNCHANGED apiVars,
         thread'[t].pc \notin EarlySteps,
         \A u \in Workers \ {t} : thread'[u] = thread[u]
  PROVE  BegunIsPast'
<1> DEFINE n == thread[t].key
           i == thread[t].copy.uid
<1>0. /\ OneWorkerPerKey /\ RestorerOwnsResource /\ BegunIsPast /\ CopiesAgree
      /\ restores' = restores /\ ver' = ver /\ Busy(t) /\ TypeOK
      /\ thread[t].pc \in RestoringSteps
  BY DEF IndInv, At, apiVars, RestoringSteps
<1>1. n \in Names /\ thread[t].copy \in Restore
  BY <1>0, BusyFacts
<1>2. i <= ver[n]
  <2>1. Agrees(n, thread[t].copy)
    BY <1>0 DEF CopiesAgree
  <2>2. ver[n] \in Nat /\ i \in Nat /\ thread[t].copy.rv \in Nat
    BY <1>0, <1>1 DEF TypeOK, Restore
  <2> QED
    BY <2>1, <2>2 DEF Agrees
<1>3. ASSUME NEW b \in begun' PROVE b[2] <= ver[b[1]]
  <2>1. CASE b \in begun
    BY <1>0, <2>1 DEF BegunIsPast
  <2>2. CASE b = <<n, i>>
    BY <1>2, <2>2
  <2> QED
    BY <2>1, <2>2
<1>4. ASSUME NEW m \in Names, restores[m] # NoRestore, <<m, restores[m].uid>> \in begun'
      PROVE  restores[m].phase \notin {"", "InQueue"}
  <2>1. CASE <<m, restores[m].uid>> \in begun
    BY <1>0, <1>4, <2>1 DEF BegunIsPast, Exists
  <2>2. CASE m = n /\ restores[m].uid = i
    <3>1. restores[m].phase = "InProgress"
      BY <1>0, <1>1, <1>4, <2>2 DEF RestorerOwnsResource, RestorerOf, SameResource, Exists
    <3> QED
      BY <3>1
  <2> QED
    BY <1>4, <2>1, <2>2
<1>5. ASSUME NEW u \in Workers, thread'[u] # Idle, thread'[u].pc \in EarlySteps
      PROVE  <<thread'[u].key, thread'[u].copy.uid>> \notin begun'
  <2>1. u # t /\ thread'[u] = thread[u]
    BY <1>5
  <2>2. thread[u].key # n
    BY <1>0, <1>5, <2>1 DEF OneWorkerPerKey, Busy
  <2>3. <<thread[u].key, thread[u].copy.uid>> \notin begun
    BY <1>0, <1>5, <2>1 DEF BegunIsPast, Busy
  <2> QED
    BY <2>1, <2>2, <2>3
<1> QED
  BY <1>0, <1>3, <1>4, <1>5 DEF BegunIsPast, Exists, Busy

\* A step with which a worker goes on and does not write.
LEMMA GotoInv ==
  ASSUME IndInv, TypeOK', NEW t \in Workers, Busy(t), NEW pc \in Steps, NEW x,
         Goto(t, pc, x), Like(x, thread[t].copy), FitsStep(pc, x),
         pc \in RestoringSteps => thread[t].pc \in RestoringSteps,
         pc \in EarlySteps => thread[t].pc \in EarlySteps,
         pc \in EarlySteps \ {"snapshot"} =>
           thread[t].pc \in EarlySteps \ {"snapshot"} /\ x = thread[t].copy,
         UNCHANGED apiVars, UNCHANGED lister, UNCHANGED snapshotVars,
         \/ begun' = begun
         \/ /\ At(t, "restore") /\ pc \notin EarlySteps
            /\ begun' = begun \cup {<<thread[t].key, thread[t].copy.uid>>}
  PROVE  IndInv'
<1>1. \A n \in Names : StoreStep(n) /\ PhaseKept(n) /\ WatchStep(n) /\ ListerStep(n)
  BY ApiKept, ListerKept
<1>2. \A u \in Workers : ThreadKept(u) /\ (u # t => LookedKept(u))
  BY GotoKept
<1>3. /\ thread'[t].pc = pc /\ thread'[t].copy = x
      /\ \A u \in Workers \ {t} : thread'[u] = thread[u]
  BY GotoFacts
<1>4. LookedKept(t)
  BY <1>3 DEF LookedKept
<1>5. CASE begun' = begun
  BY <1>1, <1>2, <1>4, <1>5, KeptInv
<1>6. CASE /\ At(t, "restore") /\ pc \notin EarlySteps
           /\ begun' = begun \cup {<<thread[t].key, thread[t].copy.uid>>}
  <2>1. BegunIsPast'
    BY <1>3, <1>6, BegunAdded
  <2>2. /\ \A u \in Workers : ThreadStep(u)
        /\ OneWorkerPerKey' /\ RestorerOwnsResource'
    BY <1>1, <1>2, KeptThreads
  <2>3. FilesFit' /\ LookedUpFits'
    BY <1>2, <1>4, FilesKept
  <2> QED
    BY <1>1, <2>1, <2>2, <2>3, StepsKeepInv
<1> QED
  BY <1>5, <1>6

\* Lookups, download and end of clusterCmd.Restore, and what may fail in them.
LEMMA RestoringInv ==
  ASSUME IndInv, TypeOK', NEW t \in Workers,
         Lookup(t) \/ Download(t) \/ Finish(t) \/ GiveUp(t) \/ DeleteRefused(t)
  PROVE  IndInv'
<1> USE DEF FitsStep, Steps, RestoringSteps, WriteSteps, EarlySteps
<1> DEFINE s == thread[t].copy
           pc == thread[t].pc
<1>0. Busy(t) /\ TypeOK /\ LookedUpFits
  BY DEF Lookup, Download, Finish, GiveUp, DeleteRefused, At, IndInv
<1>1. s \in Restore /\ FitsStep(pc, s) /\ Like(s, s)
  BY <1>0, BusyFacts
<1>2. CASE Lookup(t)
  <2>1. /\ pc = "lookup" /\ Goto(t, "restore", s) /\ begun' = begun
        /\ UNCHANGED apiVars /\ UNCHANGED lister /\ UNCHANGED snapshotVars
    BY <1>2 DEF Lookup, At
  <2>2. FitsStep("restore", s)
    BY <1>1, <2>1
  <2> QED
    BY <1>0, <1>1, <2>1, <2>2, GotoInv
<1>3. CASE Download(t)
  <2> DEFINE x == [s EXCEPT !.archive = file[s.from]]
  <2>1. /\ pc = "restore" /\ At(t, "restore")
        /\ begun' = begun \cup {<<thread[t].key, s.uid>>}
        /\ UNCHANGED apiVars /\ UNCHANGED lister /\ UNCHANGED snapshotVars
    BY <1>3 DEF Download, At
  <2>2. CASE file[s.from] # 0 /\ Goto(t, "finish", x)
    <3>1. s.contents <= file[s.from] /\ file[s.from] \in Nat
      BY <1>0, <1>1, <2>1, <2>2 DEF LookedUpFits, Restore, TypeOK
    <3>2. /\ x.phase = s.phase /\ x.rv = s.rv /\ x.uid = s.uid
          /\ x.contents = s.contents /\ x.archive = file[s.from]
      BY <1>1 DEF Restore
    <3>3. Like(x, s)
      BY <3>2 DEF Like
    <3>4. FitsStep("finish", x)
      BY <1>1, <2>1, <3>1, <3>2
    <3>5. Goto(t, "finish", x)
      BY <2>2
    <3> HIDE DEF x
    <3> QED
      BY <1>0, <1>1, <2>1, <3>3, <3>4, <3>5, GotoInv
  <2>3. CASE file[s.from] = 0 /\ Goto(t, "fail", s)
    <3>1. FitsStep("fail", s)
      BY <1>1, <2>1
    <3> QED
      BY <1>0, <1>1, <2>1, <2>3, <3>1, GotoInv
  <2> QED
    BY <1>3, <2>2, <2>3 DEF Download
<1>4. CASE Finish(t)
  <2> DEFINE u == IF s.specUntil = 0 THEN now + s.ttl ELSE s.specUntil
             x == [s EXCEPT !.until = u]
  <2>1. /\ pc = "finish" /\ Goto(t, "complete", x) /\ begun' = begun
        /\ UNCHANGED apiVars /\ UNCHANGED lister /\ UNCHANGED snapshotVars
    BY <1>4 DEF Finish, At
  <2>2. u # 0
    <3>1. now \in Nat \ {0} /\ s.ttl \in Nat
      BY <1>0, <1>1 DEF Restore, TypeOK
    <3>2. now + s.ttl # 0
      BY <3>1
    <3> QED
      BY <3>2
  <2>3. /\ x.phase = s.phase /\ x.rv = s.rv /\ x.uid = s.uid
        /\ x.contents = s.contents /\ x.archive = s.archive /\ x.until = u
    BY <1>1 DEF Restore
  <2>4. Like(x, s)
    BY <2>3 DEF Like
  <2>5. FitsStep("complete", x)
    BY <1>1, <2>1, <2>2, <2>3
  <2> HIDE DEF x
  <2> QED
    BY <1>0, <1>1, <2>1, <2>4, <2>5, GotoInv
<1>5. CASE GiveUp(t)
  <2>1. /\ pc \in {"snapshot", "lookup", "restore", "finish"} /\ Goto(t, "fail", s)
        /\ UNCHANGED apiVars /\ UNCHANGED lister /\ UNCHANGED snapshotVars
        /\ \/ begun' = begun
           \/ At(t, "restore") /\ begun' = begun \cup {<<thread[t].key, s.uid>>}
    BY <1>5 DEF GiveUp
  <2>2. FitsStep("fail", s)
    BY <1>1, <2>1
  <2> QED
    BY <1>0, <1>1, <2>1, <2>2, GotoInv
<1>6. CASE DeleteRefused(t)
  <2>1. /\ pc = "delete" /\ Goto(t, "deletefail", s) /\ begun' = begun
        /\ UNCHANGED apiVars /\ UNCHANGED lister /\ UNCHANGED snapshotVars
    BY <1>6 DEF DeleteRefused, At
  <2>2. FitsStep("deletefail", s)
    BY <1>1, <2>1
  <2> QED
    BY <1>0, <1>1, <2>1, <2>2, GotoInv
<1> QED
  BY <1>2, <1>3, <1>4, <1>5, <1>6

\* A refused or failed update, and the deletion of an expired Restore.
LEMMA StoppingInv ==
  ASSUME IndInv, TypeOK', NEW t \in Workers,
         UpdateRefused(t) \/ UpdateFailed(t) \/ DeleteExpired(t) \/ DeleteFailed(t)
  PROVE  IndInv'
<1>0. /\ Busy(t) /\ UNCHANGED lister /\ begun' = begun /\ UNCHANGED snapshotVars
  BY DEF UpdateRefused, UpdateFailed, Writing, DeleteExpired, DeleteFailed, At
<1>1. ASSUME NEW n \in Names PROVE ListerStep(n)
  BY <1>0, ListerKept
<1>2. thread[t].key \in Names /\ FitsStep(thread[t].pc, thread[t].copy)
      /\ Like(thread[t].copy, thread[t].copy)
  BY <1>0, BusyFacts
<1>3. CASE UpdateRefused(t) \/ UpdateFailed(t)
  <2>1. thread' = [thread EXCEPT ![t] = Idle] /\ UNCHANGED apiVars
    BY <1>3 DEF UpdateRefused, UpdateFailed, Requeue
  <2> QED
    BY <1>0, <1>1, <2>1, ApiKept, DoneKept, KeptInv
<1>4. CASE DeleteExpired(t)
  <2>1. Delete(thread[t].key) /\ thread' = [thread EXCEPT ![t] = Idle]
    BY <1>4 DEF DeleteExpired
  <2> QED
    BY <1>0, <1>1, <1>2, <2>1, DeleteStep, DoneKept, KeptInv
<1>5. CASE DeleteFailed(t)
  <2>1. /\ thread[t].pc = "delete" /\ Goto(t, "deletefail", thread[t].copy)
        /\ Delete(thread[t].key) \/ UNCHANGED apiVars
    BY <1>5 DEF DeleteFailed, At
  <2>2. FitsStep("deletefail", thread[t].copy)
    BY <1>2, <2>1 DEF FitsStep, RestoringSteps, EarlySteps
  <2>3. "deletefail" \in Steps /\ "deletefail" \notin RestoringSteps /\ "deletefail" \notin EarlySteps
    BY DEF Steps, WriteSteps, RestoringSteps, EarlySteps
  <2>4. \A u \in Workers : ThreadKept(u) /\ (u # t => LookedKept(u))
    BY <1>0, <1>2, <2>1, <2>2, <2>3, GotoKept
  <2>5. LookedKept(t)
    BY <1>0, <2>1, <2>3, GotoFacts DEF LookedKept
  <2>6. ASSUME NEW m \in Names PROVE StoreStep(m) /\ WatchStep(m) /\ PhaseKept(m)
    BY <1>2, <2>1, DeleteStep, ApiKept
  <2> QED
    BY <1>0, <1>1, <2>4, <2>5, <2>6, KeptInv
<1> QED
  BY <1>3, <1>4, <1>5

\* The process dies and starts again.
LEMMA RestartInv ==
  ASSUME IndInv, TypeOK', Restart
  PROVE  IndInv'
<1>0. restores' = restores /\ ver' = ver /\ begun' = begun /\ UNCHANGED snapshotVars
  BY DEF Restart
<1>1. ASSUME NEW n \in Names PROVE StoreStep(n) /\ PhaseKept(n)
  BY <1>0, StoreKept
<1>2. ASSUME NEW n \in Names PROVE WatchStep(n) /\ ListerStep(n)
  BY DEF Restart, WatchStep, ListerStep
<1>3. ASSUME NEW t \in Workers PROVE ThreadKept(t) /\ LookedKept(t)
  BY SameKept DEF Restart
<1> QED
  BY <1>0, <1>1, <1>2, <1>3, KeptInv

\* The invariant holds at the start.
LEMMA InitInv == Constants /\ Init => IndInv
<1> SUFFICES ASSUME Constants, Init PROVE IndInv
  OBVIOUS
<1>1. TypeOK
  BY InitType
<1>2. OneWorkerPerKey /\ StepsFit /\ RestorerOwnsResource /\ LookedUpFits
  BY DEF Init, OneWorkerPerKey, StepsFit, RestorerOwnsResource, RestorerOf, LookedUpFits, Busy
<1>3. CopiesAgree /\ CopiesFit
  BY DEF Init, CopiesAgree, CopiesFit, Exists, Busy
<1>4. FilesFit /\ BegunIsPast
  BY DEF Init, FilesFit, BegunIsPast, Exists, Busy
<1> QED
  BY <1>1, <1>2, <1>3, <1>4 DEF IndInv

\* Every step keeps the invariant.
LEMMA NextInv ==
  ASSUME Constants, IndInv, [Next]_vars
  PROVE  IndInv'
<1>0. TypeOK'
  BY NextType DEF IndInv
<1>1. CASE UNCHANGED vars
  <2>1. /\ UNCHANGED apiVars /\ UNCHANGED lister /\ UNCHANGED thread
        /\ begun' = begun /\ UNCHANGED snapshotVars
    BY <1>1 DEF vars
  <2> QED
    BY <1>0, <2>1, QuietSteps, KeptInv
<1>2. ASSUME NEW t \in Workers, ThreadNext(t)
      PROVE  IndInv'
  BY <1>0, <1>2, StartSyncInv, UpdateAcceptedInv, UpdateUnansweredInv, GetSnapshotInv,
     RestoringInv, StoppingInv DEF ThreadNext, Advance, Fault
<1> QED
  BY <1>0, <1>1, <1>2, EnvironmentInv, SnapshotInv, InformerInv, RestartInv DEF Next

-----------------------------------------------------------------------------
(* The theorems.                                                           *)

\* The inductive invariant always holds.
THEOREM Invariance == Spec => []IndInv
<1>0. Constants
  BY RestoreAssumption, NothingAssumption DEF Constants
<1>1. Init => IndInv
  BY <1>0, InitInv
<1>2. IndInv /\ [Next]_vars => IndInv'
  BY <1>0, NextInv
<1> QED
  BY <1>1, <1>2, PTL DEF Spec

\* A worker that carries out a Restore owns the resource it was created for:
\* as long as that resource exists, it says InProgress.
THEOREM Ownership == Spec => []RestorerOwnsResource
<1>1. IndInv => RestorerOwnsResource
  BY DEF IndInv
<1> QED
  BY <1>1, Invariance, PTL

\* clusterCmd.Restore is called once at most for a Restore.
THEOREM Once == Spec => []NotTwice
<1>1. IndInv => NotTwice
  BY DEF IndInv, BegunIsPast, NotTwice, At, EarlySteps
<1> QED
  BY <1>1, Invariance, PTL

\* A Completed Restore has fetched no older archive than that of the Snapshot
\* it looked up, however often Snapshots of that name are deleted and made.
THEOREM NeverOlder == Spec => []NeverOlderArchive
<1>1. IndInv => NeverOlderArchive
  BY DEF IndInv, CopiesFit, StatusFits, NeverOlderArchive
<1> QED
  BY <1>1, Invariance, PTL

-----------------------------------------------------------------------------
(* Every step is one of RestoreLifecycle or none.                          *)

\* What the lifecycle sees of a name.
PhaseOf(n) == IF Exists(n) THEN restores[n].phase ELSE "absent"

\* What a task is doing.
StageOfTask(k) ==
  IF k = Idle \/ k.pc \notin RestoringSteps THEN "none"
  ELSE IF k.copy.archive # 0 THEN "restoring" ELSE "checking"

\* A step after which neither the phases nor the stages differ.
LEMMA LifeStutter ==
  ASSUME \A n \in Names : PhaseOf(n)' = PhaseOf(n) /\ StageOf(n)' = StageOf(n)
  PROVE  UNCHANGED Lifecycle!lifeVars
  BY DEF Lifecycle!lifeVars, PhaseOf

\* Only the phase of n moves.
LEMMA LifeMove ==
  ASSUME NEW n \in Names, NEW from, NEW to, PhaseOf(n) \in from, PhaseOf(n)' = to,
         \A m \in Names \ {n} : PhaseOf(m)' = PhaseOf(m)
  PROVE  Lifecycle!Move(n, from, to)
  BY DEF Lifecycle!Move, PhaseOf

\* Only the stage of n moves.
LEMMA LifeTurn ==
  ASSUME NEW n \in Names, NEW from, NEW to, StageOf(n) \in from, StageOf(n)' = to,
         \A m \in Names \ {n} : StageOf(m)' = StageOf(m)
  PROVE  Lifecycle!Turn(n, from, to)
  BY DEF Lifecycle!Turn

\* Workers that do the same with the same name.
LEMMA StageKept ==
  ASSUME NEW n \in Names,
         \A t \in Workers : /\ RestorerOf(t, n)' <=> RestorerOf(t, n)
                            /\ RestorerOf(t, n) => thread'[t].copy.archive = thread[t].copy.archive
  PROVE  StageOf(n)' = StageOf(n)
  BY DEF StageOf

\* The stage of a name is what the only worker that has its key is doing.
LEMMA StageHeld ==
  ASSUME OneWorkerPerKey, NEW t \in Workers, Busy(t)
  PROVE  StageOf(thread[t].key) = StageOfTask(thread[t])
<1>1. \A u \in Workers : RestorerOf(u, thread[t].key) => u = t
  BY DEF OneWorkerPerKey, RestorerOf
<1> QED
  BY <1>1 DEF StageOf, StageOfTask, RestorerOf, Busy

\* When one worker moves, or stops, only the stage of its key does.
LEMMA StageMoves ==
  ASSUME IndInv, NEW t \in Workers, Busy(t),
         \A u \in Workers \ {t} : thread'[u] = thread[u],
         thread'[t] = Idle \/ thread'[t].key = thread[t].key
  PROVE  /\ StageOf(thread[t].key) = StageOfTask(thread[t])
         /\ \A n \in Names \ {thread[t].key} : StageOf(n)' = StageOf(n)
         /\ \A n \in Names : n = thread[t].key => StageOf(n)' = StageOfTask(thread'[t])
<1>0. OneWorkerPerKey
  BY DEF IndInv
<1>1. StageOf(thread[t].key) = StageOfTask(thread[t])
  BY <1>0, StageHeld
<1>2. ASSUME NEW n \in Names \ {thread[t].key} PROVE StageOf(n)' = StageOf(n)
  <2>1. ASSUME NEW u \in Workers
        PROVE  /\ RestorerOf(u, n)' <=> RestorerOf(u, n)
               /\ RestorerOf(u, n) => thread'[u].copy.archive = thread[u].copy.archive
    BY DEF RestorerOf, Busy
  <2> QED
    BY <2>1, StageKept
<1>3. ASSUME NEW n \in Names, n = thread[t].key
      PROVE  StageOf(n)' = StageOfTask(thread'[t])
  <2>1. \A u \in Workers : RestorerOf(u, n)' => u = t
    BY <1>0, <1>3 DEF OneWorkerPerKey, RestorerOf, Busy
  <2>2. RestorerOf(t, n)' <=> thread'[t] # Idle /\ thread'[t].pc \in RestoringSteps
    BY <1>3 DEF RestorerOf, Busy
  <2> QED
    BY <2>1, <2>2 DEF StageOf, StageOfTask
<1> QED
  BY <1>1, <1>2, <1>3

\* A step that leaves the store and the workers alone.
LEMMA QuietLife ==
  ASSUME restores' = restores, thread' = thread
  PROVE  UNCHANGED Lifecycle!lifeVars
<1>1. ASSUME NEW n \in Names PROVE PhaseOf(n)' = PhaseOf(n)
  BY DEF PhaseOf, Exists
<1>2. ASSUME NEW n \in Names PROVE StageOf(n)' = StageOf(n)
  BY StageKept DEF RestorerOf, Busy
<1> QED
  BY <1>1, <1>2, LifeStutter

\* The phase a write gives the resource.
LEMMA WrittenPhase ==
  ASSUME NEW s \in Restore
  PROVE  /\ Written("start", s).phase = "InProgress"
         /\ Written("complete", s).phase = "Completed"
         /\ Written("fail", s).phase = "Failed" /\ Written("deletefail", s).phase = "Failed"
         /\ Written("past", s).phase = "Failed" /\ Written("queue", s).phase = "InQueue"
         /\ Written("expire", s).phase = s.phase /\ Written("edit", s).phase = s.phase
  BY DEF Written, Marked, Restore

\* An accepted update is a step of the lifecycle, whether or not the worker
\* hears of it.
LEMMA WriteLife ==
  ASSUME IndInv, TypeOK', NEW t \in Workers, Writing(t),
         Fresh(thread[t].key, thread[t].copy.rv), Update(thread[t].key, Target(t)),
         \A u \in Workers \ {t} : thread'[u] = thread[u],
         \/ thread'[t] = Idle
         \/ /\ thread'[t].key = thread[t].key
            /\ thread'[t].pc \in RestoringSteps =>
                 thread[t].pc = "start" /\ thread'[t].copy.archive = 0
  PROVE  [Lifecycle!LifeNext]_Lifecycle!lifeVars
<1>0. /\ Busy(t) /\ thread[t].pc \in WriteSteps /\ thread[t].key \in Names
      /\ thread[t].copy \in Restore /\ FitsStep(thread[t].pc, thread[t].copy)
      /\ thread[t].copy.contents \in Nat /\ thread[t].copy.archive \in Nat
  BY BusyFacts DEF Writing, Restore
<1>1. PICK n \in Names, s \in Restore, pc \in WriteSteps, x \in Restore :
        /\ n = thread[t].key /\ s = thread[t].copy /\ pc = thread[t].pc /\ x = Target(t)
  BY <1>0, TargetType DEF IndInv
<1>2. /\ \A m \in Names \ {n} : restores'[m] = restores[m]
      /\ restores'[n] # NoRestore /\ restores'[n].phase = x.phase
      /\ Exists(n) /\ restores[n].phase = s.phase
  BY <1>1, UpdateStep
<1>3. /\ StageOf(n) = StageOfTask(thread[t])
      /\ \A m \in Names \ {n} : StageOf(m)' = StageOf(m)
      /\ StageOf(n)' = StageOfTask(thread'[t])
  BY <1>0, <1>1, StageMoves
<1>4. /\ \A m \in Names \ {n} : PhaseOf(m)' = PhaseOf(m)
      /\ PhaseOf(n) = s.phase /\ PhaseOf(n)' = x.phase
  BY <1>2 DEF PhaseOf, Exists
<1>5. x = Written(pc, s) /\ FitsStep(pc, s)
  BY <1>0, <1>1 DEF Target
<1>6. StageOf(n)' = "none" \/ (pc = "start" /\ StageOf(n)' = "checking")
  BY <1>1, <1>3 DEF StageOfTask
<1>7. pc \notin {"complete", "fail"} => StageOf(n) = "none"
  BY <1>1, <1>3 DEF StageOfTask, RestoringSteps, WriteSteps
<1>8. (\A m \in Names \ {n} : StageOf(m)' = StageOf(m))
  BY <1>3
<1>9. CASE pc = "start"
  <2>1. Lifecycle!Move(n, {"InQueue"}, "InProgress")
    BY <1>4, <1>5, <1>9, WrittenPhase, LifeMove DEF FitsStep
  <2>2. StageOf(n) = "none"
    BY <1>7, <1>9
  <2>3. CASE StageOf(n)' = "checking"
    <3>1. Lifecycle!Turn(n, {"none"}, "checking")
      BY <1>8, <2>2, <2>3, LifeTurn
    <3>2. Lifecycle!Begin(n)
      BY <2>1, <3>1 DEF Lifecycle!Begin
    <3> QED
      BY <3>2 DEF Lifecycle!LifeNext
  <2>4. CASE StageOf(n)' = "none"
    <3>1. \A m \in Names : StageOf(m)' = StageOf(m)
      BY <1>8, <2>2, <2>4
    <3>2. Lifecycle!Begin(n)
      BY <2>1, <3>1 DEF Lifecycle!Begin
    <3> QED
      BY <3>2 DEF Lifecycle!LifeNext
  <2> QED
    BY <1>6, <2>3, <2>4
<1>10. CASE pc = "complete"
  <2>1. StageOf(n) = "restoring" /\ StageOf(n)' = "none" /\ s.phase = "InProgress"
    <3>1. 0 < s.contents /\ s.contents <= s.archive
      BY <1>5, <1>10 DEF FitsStep
    <3>2. s.archive # 0
      BY <1>0, <1>1, <3>1
    <3> QED
      BY <1>0, <1>1, <1>3, <1>5, <1>6, <1>10, <3>2
         DEF StageOfTask, RestoringSteps, FitsStep, Busy
  <2>2. Lifecycle!Turn(n, {"restoring"}, "none")
    BY <1>8, <2>1, LifeTurn
  <2>3. Lifecycle!Move(n, {"InProgress"}, "Completed")
    BY <1>4, <1>5, <1>10, <2>1, WrittenPhase, LifeMove
  <2> QED
    BY <2>2, <2>3 DEF Lifecycle!Complete, Lifecycle!LifeNext
<1>11. CASE pc = "fail"
  <2>1. StageOf(n) \in {"checking", "restoring"} /\ StageOf(n)' = "none" /\ s.phase = "InProgress"
    BY <1>0, <1>1, <1>3, <1>5, <1>6, <1>11 DEF StageOfTask, RestoringSteps, FitsStep, Busy
  <2>2. Lifecycle!Turn(n, Lifecycle!Stages \ {"none"}, "none")
    BY <1>8, <2>1, LifeTurn DEF Lifecycle!Stages
  <2>3. Lifecycle!Move(n, {"InProgress"}, "Failed")
    BY <1>4, <1>5, <1>11, <2>1, WrittenPhase, LifeMove
  <2> QED
    BY <2>2, <2>3 DEF Lifecycle!Fail, Lifecycle!LifeNext
<1>12. CASE pc \in {"past", "queue", "expire", "edit", "deletefail"}
  <2>1. \A m \in Names : StageOf(m)' = StageOf(m)
    BY <1>6, <1>7, <1>8, <1>12
  <2>2. CASE PhaseOf(n)' = PhaseOf(n)
    BY <1>4, <2>1, <2>2, LifeStutter
  <2>3. CASE pc = "past"
    <3>0. s.phase = "" /\ x.phase = "Failed"
      BY <1>5, <2>3, WrittenPhase DEF FitsStep
    <3>1. PICK e : e = ""
      OBVIOUS
    <3>2. Lifecycle!Move(n, {e}, "Failed")
      <4>1. PhaseOf(n) \in {e} /\ PhaseOf(n)' = "Failed"
        BY <1>4, <3>0, <3>1
      <4> QED
        BY <1>4, <4>1, LifeMove
    <3>3. Lifecycle!Reject(n)
      BY <2>1, <3>1, <3>2 DEF Lifecycle!Reject
    <3> QED
      BY <3>3 DEF Lifecycle!LifeNext
  <2>4. CASE pc = "queue"
    <3>0. s.phase = "" /\ x.phase = "InQueue"
      BY <1>5, <2>4, WrittenPhase DEF FitsStep
    <3>1. PICK e : e = ""
      OBVIOUS
    <3>2. Lifecycle!Move(n, {e}, "InQueue")
      <4>1. PhaseOf(n) \in {e} /\ PhaseOf(n)' = "InQueue"
        BY <1>4, <3>0, <3>1
      <4> QED
        BY <1>4, <4>1, LifeMove
    <3>3. Lifecycle!Accept(n)
      BY <2>1, <3>1, <3>2 DEF Lifecycle!Accept
    <3> QED
      BY <3>3 DEF Lifecycle!LifeNext
  <2>5. CASE pc \in {"expire", "edit"}
    BY <1>4, <1>5, <2>2, <2>5, WrittenPhase
  <2>6. CASE pc = "deletefail" /\ PhaseOf(n)' # PhaseOf(n)
    <3>1. Lifecycle!Move(n, {"Completed"}, "Failed")
      BY <1>4, <1>5, <2>6, WrittenPhase, LifeMove DEF FitsStep
    <3>2. Lifecycle!Condemn(n)
      BY <2>1, <3>1 DEF Lifecycle!Condemn
    <3> QED
      BY <3>2 DEF Lifecycle!LifeNext
  <2> QED
    BY <1>12, <2>2, <2>3, <2>4, <2>5, <2>6
<1> QED
  BY <1>9, <1>10, <1>11, <1>12 DEF WriteSteps

\* A worker that goes on with what it is doing.
LEMMA GotoLife ==
  ASSUME IndInv, NEW t \in Workers, Busy(t), NEW pc \in Steps, NEW x, Goto(t, pc, x),
         restores' = restores,
         StageOfTask(thread'[t]) = StageOfTask(thread[t])
  PROVE  UNCHANGED Lifecycle!lifeVars
<1>1. /\ thread'[t].key = thread[t].key
      /\ \A u \in Workers \ {t} : thread'[u] = thread[u]
  BY GotoFacts
<1>2. ASSUME NEW m \in Names PROVE StageOf(m)' = StageOf(m)
  <2>1. CASE m = thread[t].key
    BY <1>1, <2>1, StageMoves
  <2>2. CASE m # thread[t].key
    BY <1>1, <2>2, StageMoves
  <2> QED
    BY <2>1, <2>2
<1>3. ASSUME NEW m \in Names PROVE PhaseOf(m)' = PhaseOf(m)
  BY DEF PhaseOf, Exists
<1> QED
  BY <1>2, <1>3, LifeStutter

\* A worker that stops without having recorded a result.
LEMMA StopLife ==
  ASSUME IndInv, NEW t \in Workers, Busy(t), thread' = [thread EXCEPT ![t] = Idle],
         restores' = restores
  PROVE  [Lifecycle!LifeNext]_Lifecycle!lifeVars
<1>0. PICK n \in Names : n = thread[t].key
  BY BusyFacts
<1>1. thread'[t] = Idle /\ \A u \in Workers \ {t} : thread'[u] = thread[u]
  BY DEF IndInv, TypeOK
<1>2. /\ StageOf(n) = StageOfTask(thread[t])
      /\ \A m \in Names \ {n} : StageOf(m)' = StageOf(m)
      /\ StageOf(n)' = "none"
  BY <1>0, <1>1, StageMoves DEF StageOfTask
<1>3. \A m \in Names : PhaseOf(m)' = PhaseOf(m)
  BY DEF PhaseOf, Exists
<1>4. CASE StageOf(n) = "none"
  BY <1>2, <1>3, <1>4, LifeStutter
<1>5. CASE StageOf(n) # "none"
  <2>1. StageOf(n) \in {"checking", "restoring"}
    BY <1>5 DEF StageOf
  <2>2. Lifecycle!Turn(n, Lifecycle!Stages \ {"none"}, "none")
    BY <1>2, <2>1, LifeTurn DEF Lifecycle!Stages
  <2>3. Lifecycle!Lose(n)
    BY <1>3, <2>2 DEF Lifecycle!Lose, PhaseOf
  <2> QED
    BY <2>3 DEF Lifecycle!LifeNext
<1> QED
  BY <1>4, <1>5

\* A Restore is deleted by a user or by a worker that is not carrying it out.
LEMMA DeleteLife ==
  ASSUME IndInv, NEW n \in Names, Delete(n),
         \A m \in Names : StageOf(m)' = StageOf(m)
  PROVE  [Lifecycle!LifeNext]_Lifecycle!lifeVars
<1>1. /\ Exists(n) /\ restores'[n] = NoRestore
      /\ \A m \in Names \ {n} : restores'[m] = restores[m]
  BY DeleteStep
<1>2. PhaseOf(n) \in Phases /\ PhaseOf(n)' = "absent"
  BY <1>1 DEF PhaseOf, Exists, IndInv, TypeOK, Restore
<1>3. \A m \in Names \ {n} : PhaseOf(m)' = PhaseOf(m)
  BY <1>1 DEF PhaseOf, Exists
<1>4. PhaseOf(n) \in Lifecycle!States \ {"absent"}
  BY <1>2 DEF Phases, Lifecycle!States
<1>5. Lifecycle!Move(n, Lifecycle!States \ {"absent"}, "absent")
  BY <1>2, <1>3, <1>4, LifeMove
<1>6. Lifecycle!Remove(n)
  BY <1>5 DEF Lifecycle!Remove
<1> QED
  BY <1>6 DEF Lifecycle!LifeNext

\* The users, the clock, the Snapshots and the informer.
LEMMA EnvironmentLife ==
  ASSUME Constants, IndInv,
         User \/ Tick \/ SnapshotNext \/ \E n \in Names : Informer(n)
  PROVE  [Lifecycle!LifeNext]_Lifecycle!lifeVars
<1>0. TypeOK /\ CopiesFit
  BY DEF IndInv
<1>1. CASE Tick \/ SnapshotNext
  BY <1>1, QuietLife DEF Tick, SnapshotNext, apiVars
<1>2. ASSUME NEW n \in Names, Informer(n)
      PROVE  UNCHANGED Lifecycle!lifeVars
  BY <1>2, QuietLife DEF Informer, Deliver, Resync, Ready, apiVars
<1>3. ASSUME thread' = thread, NEW n \in Names PROVE StageOf(n)' = StageOf(n)
  BY <1>3, StageKept DEF RestorerOf, Busy
<1>4. ASSUME NEW n \in Names, UserCreate(n)
      PROVE  [Lifecycle!LifeNext]_Lifecycle!lifeVars
  <2>1. PICK x \in Restore : /\ Put(n, x) /\ ~Exists(n) /\ x.uid = ver[n] + 1
                             /\ x.phase = "" /\ StatusFits(x)
    BY <1>0, <1>4, UserCreateFacts
  <2>2. /\ \A m \in Names \ {n} : restores'[m] = restores[m]
        /\ restores'[n] # NoRestore /\ restores'[n] = [x EXCEPT !.rv = ver[n] + 1]
    BY <2>1, PutStep
  <2>3. restores'[n].phase = ""
    BY <2>1, <2>2 DEF Restore
  <2>4. /\ PhaseOf(n) = "absent" /\ PhaseOf(n)' = ""
        /\ \A m \in Names \ {n} : PhaseOf(m)' = PhaseOf(m)
    BY <2>1, <2>2, <2>3 DEF PhaseOf, Exists
  <2>5. PICK e : e = ""
    OBVIOUS
  <2>6. Lifecycle!Move(n, {"absent"}, e)
    <3>1. /\ PhaseOf(n) \in {"absent"} /\ PhaseOf(n)' = e
          /\ \A m \in Names \ {n} : PhaseOf(m)' = PhaseOf(m)
      BY <2>4, <2>5
    <3> QED
      BY <3>1, LifeMove
  <2>7. \A m \in Names : StageOf(m)' = StageOf(m)
    BY <1>3, <1>4 DEF UserCreate
  <2>8. Lifecycle!Make(n)
    BY <2>5, <2>6, <2>7 DEF Lifecycle!Make
  <2> QED
    BY <2>8 DEF Lifecycle!LifeNext
<1>5. ASSUME NEW n \in Names, UserEdit(n)
      PROVE  [Lifecycle!LifeNext]_Lifecycle!lifeVars
  <2>1. PICK x \in Restore : /\ Put(n, x) /\ Exists(n) /\ x.uid = restores[n].uid
                             /\ x.phase = restores[n].phase
                             /\ StatusFits(restores[n]) => StatusFits(x)
    BY <1>0, <1>5, UserEditFacts
  <2>2. StatusFits(x)
    BY <1>0, <2>1 DEF CopiesFit
  <2>3. /\ \A m \in Names \ {n} : restores'[m] = restores[m]
        /\ restores'[n] # NoRestore /\ restores'[n] = [x EXCEPT !.rv = ver[n] + 1]
    BY <2>1, <2>2, PutStep
  <2>4. restores'[n].phase = restores[n].phase
    BY <2>1, <2>3 DEF Restore
  <2>5. \A m \in Names : PhaseOf(m)' = PhaseOf(m)
    BY <2>1, <2>3, <2>4 DEF PhaseOf, Exists
  <2>6. \A m \in Names : StageOf(m)' = StageOf(m)
    BY <1>3, <1>5 DEF UserEdit
  <2> QED
    BY <2>5, <2>6, LifeStutter
<1>6. ASSUME NEW n \in Names, UserDelete(n)
      PROVE  [Lifecycle!LifeNext]_Lifecycle!lifeVars
  BY <1>3, <1>6, DeleteLife DEF UserDelete
<1> QED
  BY <1>1, <1>2, <1>4, <1>5, <1>6 DEF User

\* A worker that goes on is busy.
LEMMA GotoBusy ==
  ASSUME IndInv, NEW t \in Workers, Busy(t), NEW pc \in Steps, NEW x \in Restore,
         Goto(t, pc, x)
  PROVE  thread'[t] # Idle
<1>1. thread \in [Workers -> Task \cup {Idle}] /\ thread[t] \in Task
  BY DEF IndInv, TypeOK, Busy
<1>2. thread'[t] = [thread[t] EXCEPT !.pc = pc, !.copy = x]
  BY <1>1 DEF Goto
<1>3. thread'[t] \in Task
  BY <1>1, <1>2 DEF Task
<1> QED
  BY <1>3, NothingAssumption

\* A worker takes a key: the lifecycle does not see it.
LEMMA StartSyncLife ==
  ASSUME Constants, IndInv, NEW t \in Workers, NEW n \in Names, StartSync(t, n)
  PROVE  UNCHANGED Lifecycle!lifeVars
<1>0. TypeOK /\ restores' = restores /\ ~Busy(t)
  BY DEF IndInv, StartSync, apiVars
<1>1. CASE thread' = thread
  BY <1>0, <1>1, QuietLife
<1>2. CASE lister[n] # NoRestore
  <2> DEFINE next == FirstCall(lister[n])
             k == [pc |-> next.pc, key |-> n, copy |-> next.copy, at |-> next.at]
  <2>1. next.pc \in {"start", "past", "queue", "expire", "edit", "delete", "return"}
    BY <1>0, <1>2, FirstCallFacts DEF TypeOK
  <2>2. Proceed(t, n, next)
    BY <1>2 DEF StartSync
  <2> HIDE DEF next
  <2>3. /\ thread'[t] = Idle \/ thread'[t] = k
        /\ \A u \in Workers \ {t} : thread'[u] = thread[u]
    BY <1>0, <2>2 DEF Proceed, TypeOK
  <2>4. k.pc \notin RestoringSteps
    BY <2>1 DEF RestoringSteps
  <2> HIDE DEF k
  <2>5. ASSUME NEW m \in Names PROVE StageOf(m)' = StageOf(m)
    <3>1. ASSUME NEW u \in Workers
          PROVE  /\ RestorerOf(u, m)' <=> RestorerOf(u, m)
                 /\ RestorerOf(u, m) => thread'[u].copy.archive = thread[u].copy.archive
      BY <1>0, <2>3, <2>4 DEF RestorerOf, Busy
    <3> QED
      BY <3>1, StageKept
  <2>6. \A m \in Names : PhaseOf(m)' = PhaseOf(m)
    BY <1>0 DEF PhaseOf, Exists
  <2> QED
    BY <2>5, <2>6, LifeStutter
<1> QED
  BY <1>1, <1>2 DEF StartSync

\* A worker's updates.
LEMMA UpdateLife ==
  ASSUME Constants, IndInv, IndInv', NEW t \in Workers,
         UpdateAccepted(t) \/ UpdateUnanswered(t) \/ UpdateRefused(t) \/ UpdateFailed(t)
  PROVE  [Lifecycle!LifeNext]_Lifecycle!lifeVars
<1>0. /\ TypeOK /\ TypeOK' /\ StepsFit' /\ Writing(t) /\ Busy(t)
  BY DEF IndInv, UpdateAccepted, UpdateUnanswered, UpdateRefused, UpdateFailed, Writing
<1>1. CASE UpdateAccepted(t)
  <2> DEFINE n == thread[t].key
             x == Returned(n, Target(t))
             next == AfterWrite(thread[t], x)
             k == [pc |-> next.pc, key |-> n, copy |-> next.copy, at |-> next.at]
  <2>1. /\ Fresh(n, thread[t].copy.rv) /\ Update(n, Target(t)) /\ Proceed(t, n, next)
    BY <1>1 DEF UpdateAccepted
  <2>2. /\ thread[t] \in Task /\ n \in Names /\ thread[t].pc \in WriteSteps /\ now \in Nat
        /\ x \in Restore
    BY <1>0, <2>1, TargetType, UpdateStep DEF Task, TypeOK
  <2> HIDE DEF x
  <2>3. /\ next.pc \in {"past", "queue", "expire", "edit", "delete", "return", "snapshot"}
        /\ next.pc = "snapshot" => thread[t].pc = "start"
    BY <2>2, AfterWriteFacts
  <2> HIDE DEF next
  <2>4. /\ thread'[t] = Idle \/ thread'[t] = k
        /\ \A u \in Workers \ {t} : thread'[u] = thread[u]
    BY <1>0, <2>1 DEF Proceed, TypeOK
  <2>5. k.pc = next.pc /\ k.key = n
    OBVIOUS
  <2> HIDE DEF k
  <2>6. ASSUME thread'[t] # Idle, thread'[t].pc \in RestoringSteps
        PROVE  thread[t].pc = "start" /\ thread'[t].copy.archive = 0
    <3>1. thread'[t].pc = "snapshot" /\ thread[t].pc = "start"
      BY <2>3, <2>4, <2>5, <2>6 DEF RestoringSteps
    <3>2. FitsStep(thread'[t].pc, thread'[t].copy)
      BY <1>0, <2>6 DEF StepsFit, Busy, FitsStep, StatusFits
    <3> QED
      BY <3>1, <3>2 DEF FitsStep, EarlySteps
  <2> QED
    BY <1>0, <2>1, <2>4, <2>5, <2>6, WriteLife
<1>2. CASE UpdateUnanswered(t)
  <2>1. /\ thread' = [thread EXCEPT ![t] = Idle]
        /\ Fresh(thread[t].key, thread[t].copy.rv) /\ Update(thread[t].key, Target(t))
    BY <1>2 DEF UpdateUnanswered, Requeue
  <2>2. thread'[t] = Idle /\ \A u \in Workers \ {t} : thread'[u] = thread[u]
    BY <1>0, <2>1 DEF TypeOK
  <2> QED
    BY <1>0, <2>1, <2>2, WriteLife
<1>3. CASE UpdateRefused(t) \/ UpdateFailed(t)
  <2>1. thread' = [thread EXCEPT ![t] = Idle] /\ restores' = restores
    BY <1>3 DEF UpdateRefused, UpdateFailed, Requeue, apiVars
  <2> QED
    BY <1>0, <2>1, StopLife
<1> QED
  BY <1>1, <1>2, <1>3

\* The steps of a Restore that is carried out: only the download is seen.
LEMMA RestoringLife ==
  ASSUME IndInv, NEW t \in Workers,
         \/ GetSnapshot(t) \/ Lookup(t) \/ Download(t) \/ Finish(t)
         \/ GiveUp(t) \/ DeleteRefused(t)
  PROVE  [Lifecycle!LifeNext]_Lifecycle!lifeVars
<1> USE DEF Steps, RestoringSteps, WriteSteps
<1> DEFINE s == thread[t].copy
<1>0. Busy(t) /\ TypeOK /\ restores' = restores
  BY DEF GetSnapshot, Lookup, Download, Finish, GiveUp, DeleteRefused, At, IndInv, apiVars
<1>1. s \in Restore /\ FitsStep(thread[t].pc, s) /\ thread[t].key \in Names
  BY <1>0, BusyFacts
<1>2. ASSUME NEW pc \in Steps, NEW x \in Restore, Goto(t, pc, x),
             x.archive = s.archive, pc \in RestoringSteps <=> thread[t].pc \in RestoringSteps
      PROVE  UNCHANGED Lifecycle!lifeVars
  <2>1. thread'[t] # Idle /\ thread'[t].pc = pc /\ thread'[t].copy = x
    BY <1>0, <1>2, GotoFacts, GotoBusy
  <2>2. StageOfTask(thread'[t]) = StageOfTask(thread[t])
    BY <1>0, <1>2, <2>1 DEF StageOfTask, Busy
  <2> QED
    BY <1>0, <1>2, <2>2, GotoLife
<1>3. CASE GetSnapshot(t)
  <2> DEFINE x == [s EXCEPT !.contents = made[s.from]]
  <2>1. made[s.from] \in Nat
    BY <1>0, <1>1 DEF Restore, TypeOK
  <2>2. x \in Restore /\ x.archive = s.archive
    BY <1>1, <2>1 DEF Restore
  <2>3. thread[t].pc = "snapshot" /\ (Goto(t, "lookup", x) \/ Goto(t, "fail", s))
    BY <1>3 DEF GetSnapshot, At
  <2> HIDE DEF x, s
  <2> QED
    BY <1>1, <1>2, <2>2, <2>3
<1>4. CASE Lookup(t)
  BY <1>1, <1>2, <1>4 DEF Lookup, At
<1>5. CASE Finish(t)
  <2> DEFINE u == IF s.specUntil = 0 THEN now + s.ttl ELSE s.specUntil
             x == [s EXCEPT !.until = u]
  <2>1. u \in Nat
    BY <1>0, <1>1 DEF Restore, TypeOK
  <2>2. x \in Restore /\ x.archive = s.archive
    BY <1>1, <2>1 DEF Restore
  <2>3. thread[t].pc = "finish" /\ Goto(t, "complete", x)
    BY <1>5 DEF Finish, At
  <2> HIDE DEF x, s
  <2> QED
    BY <1>1, <1>2, <2>2, <2>3
<1>6. CASE GiveUp(t)
  BY <1>1, <1>2, <1>6 DEF GiveUp
<1>7. CASE DeleteRefused(t)
  BY <1>1, <1>2, <1>7 DEF DeleteRefused, At
<1>8. CASE Download(t)
  <2> DEFINE x == [s EXCEPT !.archive = file[s.from]]
  <2>1. thread[t].pc = "restore"
    BY <1>8 DEF Download, At
  <2>2. CASE Goto(t, "fail", s)
    BY <1>1, <1>2, <2>1, <2>2
  <2>3. CASE file[s.from] # 0 /\ Goto(t, "finish", x)
    <3>1. s.archive = 0
      BY <1>1, <2>1 DEF FitsStep, EarlySteps
    <3>2. file[s.from] \in Nat
      BY <1>0, <1>1 DEF Restore, TypeOK
    <3>3. x \in Restore /\ x.archive # 0
      BY <1>1, <2>3, <3>2 DEF Restore
    <3>4. Goto(t, "finish", x)
      BY <2>3
    <3> HIDE DEF x
    <3>5. thread'[t] # Idle /\ thread'[t].pc = "finish" /\ thread'[t].copy = x
          /\ thread'[t].key = thread[t].key /\ \A u \in Workers \ {t} : thread'[u] = thread[u]
      BY <1>0, <3>3, <3>4, GotoFacts, GotoBusy
    <3>6. PICK n \in Names : n = thread[t].key
      BY <1>1
    <3>7. /\ StageOf(n) = StageOfTask(thread[t])
          /\ \A m \in Names \ {n} : StageOf(m)' = StageOf(m)
          /\ StageOf(n)' = StageOfTask(thread'[t])
      BY <1>0, <3>5, <3>6, StageMoves
    <3>8. StageOf(n) = "checking" /\ StageOf(n)' = "restoring"
      BY <1>0, <2>1, <3>1, <3>3, <3>5, <3>7 DEF StageOfTask, Busy
    <3>9. Lifecycle!Turn(n, {"checking"}, "restoring")
      BY <3>7, <3>8, LifeTurn
    <3>10. \A m \in Names : PhaseOf(m)' = PhaseOf(m)
      BY <1>0 DEF PhaseOf, Exists
    <3>11. Lifecycle!Fetch(n)
      BY <3>9, <3>10 DEF Lifecycle!Fetch, PhaseOf
    <3> QED
      BY <3>11 DEF Lifecycle!LifeNext
  <2> QED
    BY <1>8, <2>2, <2>3 DEF Download
<1> QED
  BY <1>3, <1>4, <1>5, <1>6, <1>7, <1>8

\* A worker deletes an expired Restore, or tries to.
LEMMA ExpiredLife ==
  ASSUME IndInv, NEW t \in Workers, DeleteExpired(t) \/ DeleteFailed(t)
  PROVE  [Lifecycle!LifeNext]_Lifecycle!lifeVars
<1>0. /\ Busy(t) /\ TypeOK /\ thread[t].pc = "delete" /\ thread[t].pc \notin RestoringSteps
  BY DEF DeleteExpired, DeleteFailed, At, IndInv, RestoringSteps
<1>1. PICK n \in Names : n = thread[t].key
  BY <1>0, BusyFacts
<1>2. /\ \A u \in Workers \ {t} : thread'[u] = thread[u]
      /\ \/ thread'[t] = Idle
         \/ thread'[t].key = thread[t].key /\ thread'[t].pc = "deletefail"
  <2>1. CASE DeleteExpired(t)
    BY <1>0, <2>1 DEF DeleteExpired, TypeOK
  <2>2. CASE DeleteFailed(t)
    <3>1. Goto(t, "deletefail", thread[t].copy) /\ "deletefail" \in Steps
      BY <2>2 DEF DeleteFailed, Steps, WriteSteps
    <3> QED
      BY <1>0, <3>1, GotoFacts
  <2> QED
    BY <2>1, <2>2
<1>3. /\ StageOf(n) = StageOfTask(thread[t])
      /\ \A m \in Names \ {n} : StageOf(m)' = StageOf(m)
      /\ StageOf(n)' = StageOfTask(thread'[t])
  BY <1>0, <1>1, <1>2, StageMoves
<1>4. StageOf(n) = "none" /\ StageOf(n)' = "none"
  BY <1>0, <1>2, <1>3 DEF StageOfTask, RestoringSteps
<1>5. \A m \in Names : StageOf(m)' = StageOf(m)
  BY <1>3, <1>4
<1>6. CASE Delete(n)
  BY <1>5, <1>6, DeleteLife
<1>7. CASE UNCHANGED apiVars
  <2>1. \A m \in Names : PhaseOf(m)' = PhaseOf(m)
    BY <1>7 DEF PhaseOf, Exists, apiVars
  <2> QED
    BY <1>5, <2>1, LifeStutter
<1> QED
  BY <1>1, <1>6, <1>7 DEF DeleteExpired, DeleteFailed

\* The process dies.
LEMMA RestartLife ==
  ASSUME Restart
  PROVE  [Lifecycle!LifeNext]_Lifecycle!lifeVars
<1>1. \A n \in Names : PhaseOf(n)' = PhaseOf(n)
  BY DEF Restart, PhaseOf, Exists
<1>2. \A n \in Names : StageOf(n)' = "none"
  BY DEF Restart, StageOf, RestorerOf, Busy
<1>3. Lifecycle!Die
  BY <1>1, <1>2 DEF Lifecycle!Die, PhaseOf
<1> QED
  BY <1>3 DEF Lifecycle!LifeNext

\* Every step.
LEMMA NextLife ==
  ASSUME Constants, IndInv, IndInv', [Next]_vars
  PROVE  [Lifecycle!LifeNext]_Lifecycle!lifeVars
<1>1. CASE UNCHANGED vars
  BY <1>1, QuietLife DEF vars, apiVars
<1>2. ASSUME NEW t \in Workers, ThreadNext(t)
      PROVE  [Lifecycle!LifeNext]_Lifecycle!lifeVars
  BY <1>2, StartSyncLife, UpdateLife, RestoringLife, ExpiredLife DEF ThreadNext, Advance, Fault
<1> QED
  BY <1>1, <1>2, EnvironmentLife, RestartLife DEF Next

\* The controller implements RestoreLifecycle: a Restore is taken out of
\* InQueue once, by a worker that fetches the archive once and ends it.
THEOREM Refinement == Spec => ImplementsLifecycle
<1>0. Constants
  BY RestoreAssumption, NothingAssumption DEF Constants
<1>1. Init => Lifecycle!LifeInit
  <2> SUFFICES ASSUME Init PROVE Lifecycle!LifeInit
    OBVIOUS
  <2>1. ASSUME NEW n \in Names PROVE ~Exists(n) /\ StageOf(n) = "none"
    BY DEF Init, Exists, StageOf, RestorerOf, Busy
  <2> QED
    BY <2>1 DEF Lifecycle!LifeInit
<1>2. IndInv /\ IndInv' /\ [Next]_vars => [Lifecycle!LifeNext]_Lifecycle!lifeVars
  BY <1>0, NextLife
<1> QED
  BY <1>1, <1>2, Invariance, PTL DEF Spec, ImplementsLifecycle, Lifecycle!LifeSpec

=============================================================================
