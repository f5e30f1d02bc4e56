-------------------------- MODULE SnapshotController --------------------------
(***************************************************************************)
(* The Snapshot half of the controller: informer event handlers, the       *)
(* rate-limited work queue, the snapshot workers and the queue-only thread *)
(* that run snapshotSyncHandler (backup_handler.go), and the deletion      *)
(* handler that removes the file of a deleted Snapshot.                    *)
(*                                                                         *)
(* A thread is a task: the call it is about to make (pc), the key it       *)
(* holds, its copy of the Snapshot, and the time it read at line 172.      *)
(* Every call that leaves the process is a step of its own; what the       *)
(* handler computes between two calls belongs to the step before.          *)
(***************************************************************************)
EXTENDS SnapshotStore

CONSTANTS
  Workers,  \* snapshotthreads workers (controller.go:235)
  Queuer    \* the queue-only thread (controller.go:238)

Threads == Workers \cup {Queuer}

VARIABLE thread  \* thread -> its task, or Idle

vars == <<storeVars, thread>>

\* What a thread that is making a snapshot may be about to do.
TakingSteps == {"bucket", "take", "upload", "info", "complete", "fail"}
WriteSteps  == {"stop", "start", "complete", "fail", "past", "queue", "expire",
                "edit", "deletefail"}
Steps == TakingSteps \cup WriteSteps \cup {"delete"}

\* at is 0 until the handler has read the clock at line 172.
Task == [pc : Steps, key : Names, snap : Snapshot, at : Nat]

ASSUME ThreadAssumption == Queuer \notin Workers /\ Idle \notin Task

Busy(t)    == thread[t] # Idle
At(t, pc)  == Busy(t) /\ thread[t].pc = pc

\* Mutant: the queue gives a key out again while its handler runs.
ProcessingNothing == {}

\* The keys the queue has given out and not seen Done for.
Processing == {thread[t].key : t \in {u \in Threads : Busy(u)}}

TypeOK == StoreTypeOK /\ thread \in [Threads -> Task \cup {Idle}]

Init == StoreInit /\ thread = [t \in Threads |-> Idle]

-----------------------------------------------------------------------------
(* Informer and event handlers (controller.go:133-148).                    *)

\* Add or Update: two such notifications in a row count as one.
Enqueued(q) ==
  IF q # <<>> /\ q[Len(q)] = [op |-> "enqueue"] THEN q ELSE Append(q, [op |-> "enqueue"])

\* The informer applies the next watch event to the lister and notifies.
Deliver(n) ==
  /\ watch[n] # <<>>
  /\ watch' = [watch EXCEPT ![n] = Tail(@)]
  /\ LET e == Head(watch[n]) IN
       \/ /\ e.type = "set"
          /\ lister' = [lister EXCEPT ![n] = e.snap]
          /\ notes'  = [notes EXCEPT ![n] = Enqueued(@)]
       \/ /\ e.type = "gone"
          /\ lister' = [lister EXCEPT ![n] = NoSnap]
          /\ notes'  = [notes EXCEPT ![n] =
                          Append(@, [op |-> "delete", config |-> e.snap.config])]
  /\ UNCHANGED <<snaps, ver, delayed, dirty, fileVars, now, budget, thread>>

\* The watch broke and the informer listed again: a copy still there is
\* updated; one that is gone reaches deleteSnapshot as a
\* DeletedFinalStateUnknown, which the handler refuses (286-289).
Relist(n) ==
  /\ watch[n] # <<>> \/ lister[n] # snaps[n]
  /\ Spend("relist")
  /\ watch'  = [watch EXCEPT ![n] = <<>>]
  /\ lister' = [lister EXCEPT ![n] = snaps[n]]
  /\ notes'  = IF Exists(n) THEN [notes EXCEPT ![n] = Enqueued(@)] ELSE notes
  /\ UNCHANGED <<snaps, ver, delayed, dirty, fileVars, now, thread>>

\* Mutant: the informer has no resync period.
ResyncNever(n) == FALSE

\* Every 30 seconds the informer replays its cache as updates (main.go:84).
Resync(n) ==
  /\ lister[n] # NoSnap
  /\ notes[n] # Enqueued(notes[n])
  /\ notes' = [notes EXCEPT ![n] = Enqueued(@)]
  /\ UNCHANGED <<apiVars, lister, delayed, dirty, fileVars, now, budget, thread>>

\* enqueueSnapshot: AddRateLimited.
EnqueueSnapshot(n) ==
  /\ notes[n] # <<>> /\ Head(notes[n]).op = "enqueue"
  /\ notes' = [notes EXCEPT ![n] = Tail(@)]
  /\ delayed' = delayed \cup {n}
  /\ UNCHANGED <<apiVars, lister, dirty, fileVars, now, budget, thread>>

\* deleteSnapshot: remove the file named after the deleted Snapshot. A failed
\* getBucket or Delete is only logged.
DeleteSnapshot(n) ==
  /\ notes[n] # <<>> /\ Head(notes[n]).op = "delete"
  /\ notes' = [notes EXCEPT ![n] = Tail(@)]
  /\ \/ /\ objects' = [objects EXCEPT ![Head(notes[n]).config][n] = NoObject]
        /\ UNCHANGED budget
     \/ Spend("fault") /\ UNCHANGED objects
  /\ UNCHANGED <<apiVars, lister, delayed, dirty, uploads, now, thread>>

\* The rate limiter's delay is over: the key is added to the queue.
Ready(n) ==
  /\ n \in delayed
  /\ delayed' = delayed \ {n}
  /\ dirty' = dirty \cup {n}
  /\ UNCHANGED <<apiVars, lister, notes, fileVars, now, budget, thread>>

-----------------------------------------------------------------------------
(* What snapshotSyncHandler does next with the copy s.                     *)

Past(time, at) == time # 0 /\ time < at

\* Mutant: nobody looks after a snapshot whose controller stopped.
TimedOutNever(s) == FALSE

TimedOut(s) == s.phase = "InProgress" /\ s.created + RetryWindow < now

\* Mutant: the phase is set on the cached copy too.
WithTTLInQueue(s) == [s EXCEPT !.ttl = DefaultTTL, !.phase = "InQueue"]

WithTTL(s) ==
  IF s.specUntil = 0 /\ s.ttl = 0 THEN [s EXCEPT !.ttl = DefaultTTL] ELSE s

FailedUntil(s) == IF s.specUntil # 0 THEN s.specUntil ELSE s.created + s.ttl

\* Lines 172-238: the next call, and the copy with the handler's own changes.
NextCall(s, at) ==
  LET call(pc, x) == [pc |-> pc, snap |-> x, at |-> at]
      unset  == s.phase = "Failed" /\ s.until = 0
      edited == /\ s.phase \in {"Completed", "Failed"} /\ ~unset
                /\ s.specUntil \notin {0, s.until}
  IN CASE s.phase = "" /\ Past(s.specUntil, at) -> call("past", s)
       [] s.phase = "" /\ ~Past(s.specUntil, at) -> call("queue", WithTTL(s))
       [] unset -> call("expire", [s EXCEPT !.until = FailedUntil(s)])
       [] edited -> call("edit", [s EXCEPT !.until = s.specUntil])
       [] OTHER -> call(IF Past(s.until, at) THEN "delete" ELSE "return", s)

\* Mutants: a worker takes a Snapshot that was just created; one that failed.
FirstCallEager(t, s) ==
  IF TimedOut(s) THEN [pc |-> "stop", snap |-> s, at |-> 0]
  ELSE IF t \in Workers /\ s.phase \in {"", "InQueue"} THEN [pc |-> "start", snap |-> s, at |-> 0]
  ELSE NextCall(s, now)

FirstCallAgain(t, s) ==
  IF TimedOut(s) THEN [pc |-> "stop", snap |-> s, at |-> 0]
  ELSE IF t \in Workers /\ s.phase \in {"InQueue", "Failed"} THEN [pc |-> "start", snap |-> s, at |-> 0]
  ELSE NextCall(s, now)

\* Lines 99-170: where the handler starts on a copy read from the lister.
FirstCall(t, s) ==
  IF TimedOut(s) THEN [pc |-> "stop", snap |-> s, at |-> 0]
  ELSE IF t \in Workers /\ s.phase = "InQueue" THEN [pc |-> "start", snap |-> s, at |-> 0]
  ELSE NextCall(s, now)

\* Mutant: the handler returns and does not let go of the key.
ProceedWithoutDone(t, n, next) ==
  thread' = [thread EXCEPT ![t] =
    [pc |-> next.pc, key |-> n, snap |-> next.snap, at |-> next.at]]

\* Make the call next, or finish with the key when the handler returns.
Proceed(t, n, next) ==
  thread' = [thread EXCEPT ![t] =
    IF next.pc = "return" THEN Idle
    ELSE [pc |-> next.pc, key |-> n, snap |-> next.snap, at |-> next.at]]

\* A thread takes a key nobody holds and reads the lister. The handler works
\* on the lister's own copy: what it sets before the first update (lines 180,
\* 199-204, 215) changes the cache.
StartSync(t, n) ==
  /\ ~Busy(t)
  /\ n \in dirty \ Processing
  /\ dirty' = dirty \ {n}
  /\ \/ lister[n] = NoSnap /\ UNCHANGED <<lister, thread>>
     \/ /\ lister[n] # NoSnap
        /\ LET next == FirstCall(t, lister[n]) IN
             /\ Proceed(t, n, next)
             /\ lister' = [lister EXCEPT ![n] = next.snap]
  /\ UNCHANGED <<apiVars, notes, delayed, fileVars, now, budget>>

\* The handler returned an error: AddRateLimited puts the key back.
Requeue(t) ==
  /\ thread' = [thread EXCEPT ![t] = Idle]
  /\ delayed' = delayed \cup {thread[t].key}
  /\ UNCHANGED <<notes, dirty>>

Goto(t, pc, x) == thread' = [thread EXCEPT ![t].pc = pc, ![t].snap = x]

-----------------------------------------------------------------------------
(* updateSnapshotStatus, with its callers' reaction to the outcome.        *)

Marked(s, phase, reason) == [s EXCEPT !.phase = phase, !.reason = reason]

\* The resource each call writes.
Written(pc, s) ==
  CASE pc = "stop"                   -> Marked(s, "Failed", "stopped")
    [] pc = "start"                  -> Marked(s, "InProgress", "")
    [] pc = "complete"               -> Marked(s, "Completed", "")
    [] pc \in {"fail", "deletefail"} -> Marked(s, "Failed", "error")
    [] pc = "past"                   -> Marked(s, "Failed", "past")
    [] pc = "queue"                  -> Marked(s, "InQueue", "")
    [] OTHER                         -> s

\* Where the handler goes with the updated resource: it has finished after a
\* failure, and reads the clock again after "stop" and "complete" (line 172).
AfterWrite(k, x) ==
  CASE k.pc = "start" -> [pc |-> "bucket", snap |-> x, at |-> 0]
    [] k.pc \in {"fail", "past", "deletefail"} -> [pc |-> "return", snap |-> x, at |-> k.at]
    [] k.pc \in {"stop", "complete"} -> NextCall(x, now)
    [] OTHER -> NextCall(x, k.at)

Writing(t) == Busy(t) /\ thread[t].pc \in WriteSteps

Target(t) == Written(thread[t].pc, thread[t].snap)

UpdateAccepted(t) ==
  /\ Writing(t)
  /\ Fresh(thread[t].key, thread[t].snap.rv)
  /\ Update(thread[t].key, Target(t))
  /\ LET x == Returned(thread[t].key, Target(t))
     IN Proceed(t, thread[t].key, AfterWrite(thread[t], x))
  /\ UNCHANGED <<lister, queueVars, fileVars, now, budget>>

\* Conflict or NotFound: the copy is not the stored version.
UpdateRefused(t) ==
  /\ Writing(t)
  /\ ~Fresh(thread[t].key, thread[t].snap.rv)
  /\ Requeue(t)
  /\ UNCHANGED <<apiVars, lister, fileVars, now, budget>>

\* The call failed on its way to the API server.
UpdateFailed(t) ==
  /\ Writing(t)
  /\ Spend("fault")
  /\ Requeue(t)
  /\ UNCHANGED <<apiVars, lister, fileVars, now>>

\* The update was stored and its reply lost.
UpdateUnanswered(t) ==
  /\ Writing(t)
  /\ Fresh(thread[t].key, thread[t].snap.rv)
  /\ Spend("fault")
  /\ Update(thread[t].key, Target(t))
  /\ Requeue(t)
  /\ UNCHANGED <<lister, fileVars, now>>

-----------------------------------------------------------------------------
(* Making the snapshot (lines 121-164).                                    *)

GetBucket(t) ==
  /\ At(t, "bucket")
  /\ Goto(t, "take", thread[t].snap)
  /\ UNCHANGED storeVars

\* clusterCmd.Snapshot writes the archive and sets the expiration
\* (pkg/cluster/snapshot.go:309-318) in the thread's copy.
TakeSnapshot(t) ==
  /\ At(t, "take")
  /\ LET s == thread[t].snap IN
       Goto(t, "upload", [s EXCEPT !.until = IF s.specUntil = 0 THEN now + s.ttl
                                                               ELSE s.specUntil])
  /\ UNCHANGED storeVars

\* Mutant: snapshot.json keeps the phase.
JsonWithPhase(s) == [s EXCEPT !.rv = 0, !.uid = 0]

\* snapshot.json: the copy without phase, version and uid
\* (pkg/cluster/snapshot.go:322-326).
Json(s) == [s EXCEPT !.phase = "", !.rv = 0, !.uid = 0]

\* bucket.Upload, the first half of UploadSnapshot.
Upload(t) ==
  /\ At(t, "upload")
  /\ LET n == thread[t].key
         s == thread[t].snap
     IN /\ uploads' = [uploads EXCEPT ![n] = @ + 1]
        /\ objects' = [objects EXCEPT ![s.config][n] =
             [stamp |-> uploads[n] + 1, json |-> Json(s)]]
        /\ Goto(t, "info", s)
  /\ UNCHANGED <<apiVars, lister, queueVars, now, budget>>

\* GetObjectInfo, the second half; without the file UploadSnapshot fails and
\* is retried from the upload, until maxretryelapsedsec is over.
ObjectInfo(t) ==
  /\ At(t, "info")
  /\ LET s == thread[t].snap
         o == objects[s.config][thread[t].key]
     IN \/ o # NoObject /\ Goto(t, "complete", [s EXCEPT !.stored = o.stamp])
        \/ o = NoObject /\ uploads[thread[t].key] < MaxUploads /\ Goto(t, "upload", s)
        \/ o = NoObject /\ Goto(t, "fail", s)
  /\ UNCHANGED storeVars

\* GetObjectInfo itself fails: the upload is repeated.
ObjectInfoFailed(t) ==
  /\ At(t, "info")
  /\ Spend("fault")
  /\ Goto(t, "upload", thread[t].snap)
  /\ UNCHANGED <<apiVars, lister, queueVars, fileVars, now>>

\* Mutant: the error is dropped.
GiveUpSilently(t) ==
  /\ Busy(t)
  /\ thread[t].pc \in {"bucket", "take", "upload", "info"}
  /\ Spend("fault")
  /\ Goto(t, "complete", thread[t].snap)
  /\ UNCHANGED <<apiVars, lister, queueVars, fileVars, now>>

\* No bucket, a permanent error, or retries until maxretryelapsedsec.
GiveUp(t) ==
  /\ Busy(t)
  /\ thread[t].pc \in {"bucket", "take", "upload", "info"}
  /\ Spend("fault")
  /\ Goto(t, "fail", thread[t].snap)
  /\ UNCHANGED <<apiVars, lister, queueVars, fileVars, now>>

-----------------------------------------------------------------------------
(* Deleting an expired Snapshot (lines 223-235), by name.                  *)

DeleteExpired(t) ==
  /\ At(t, "delete")
  /\ Delete(thread[t].key)
  /\ thread' = [thread EXCEPT ![t] = Idle]
  /\ UNCHANGED <<lister, queueVars, fileVars, now, budget>>

\* Nothing there to delete.
DeleteRefused(t) ==
  /\ At(t, "delete")
  /\ ~Exists(thread[t].key)
  /\ Goto(t, "deletefail", thread[t].snap)
  /\ UNCHANGED storeVars

\* The call failed, or its reply was lost.
DeleteFailed(t) ==
  /\ At(t, "delete")
  /\ Spend("fault")
  /\ Goto(t, "deletefail", thread[t].snap)
  /\ Delete(thread[t].key) \/ UNCHANGED apiVars
  /\ UNCHANGED <<lister, queueVars, fileVars, now>>

-----------------------------------------------------------------------------
\* The process dies and starts again: the new one lists the Snapshots, every
\* one of them is an Add; queue, handlers and notifications are lost.
Restart ==
  /\ Spend("crash")
  /\ thread'    = [t \in Threads |-> Idle]
  /\ watch'     = [n \in Names |-> <<>>]
  /\ lister'    = snaps
  /\ notes'     = [n \in Names |-> IF Exists(n) THEN Enqueued(<<>>) ELSE <<>>]
  /\ delayed'   = {}
  /\ dirty'     = {}
  /\ UNCHANGED <<snaps, ver, fileVars, now>>

User == \E n \in Names : UserCreate(n) \/ UserEdit(n) \/ UserDelete(n)

Informer(n) ==
  Deliver(n) \/ Relist(n) \/ Resync(n) \/ EnqueueSnapshot(n) \/ DeleteSnapshot(n) \/ Ready(n)

\* The steps of a thread when every call goes through.
Advance(t) ==
  \/ UpdateAccepted(t) \/ UpdateRefused(t)
  \/ GetBucket(t) \/ TakeSnapshot(t) \/ Upload(t) \/ ObjectInfo(t)
  \/ DeleteExpired(t) \/ DeleteRefused(t)

Fault(t) ==
  \/ UpdateFailed(t) \/ UpdateUnanswered(t)
  \/ ObjectInfoFailed(t) \/ GiveUp(t) \/ DeleteFailed(t)

ThreadNext(t) ==
  \/ \E n \in Names : StartSync(t, n)
  \/ Advance(t)
  \/ Fault(t)

ControllerNext ==
  \/ \E n \in Names : Informer(n)
  \/ \E t \in Threads : ThreadNext(t)

Environment == (User \/ Tick) /\ UNCHANGED thread

Next == Environment \/ ControllerNext \/ Restart

Spec == Init /\ [][Next]_vars

-----------------------------------------------------------------------------
(* Safety.                                                                 *)

TakerOf(t, n) == Busy(t) /\ thread[t].key = n /\ thread[t].pc \in TakingSteps

\* The stored Snapshot n is the one the copy s was read from: not a later
\* one of the same name.
SameResource(n, s) == Exists(n) /\ snaps[n].uid = s.uid

\* While a thread makes a snapshot the stored resource says InProgress, unless
\* it was deleted: nobody else, working from a stale lister, moved it on, and
\* the thread's own failure paths cannot overwrite a result.
TakerOwnsResource ==
  \A t \in Threads, n \in Names :
    TakerOf(t, n) /\ SameResource(n, thread[t].snap) => snaps[n].phase = "InProgress"

\* A Completed Snapshot whose name was never used before has the file its
\* status describes, whatever crashed, was retried or was answered twice on
\* the way. (Names that are used again: see CompletedIsAvailable.)
CompletedIsStored ==
  \A n \in Names :
    Exists(n) /\ snaps[n].phase = "Completed" /\ snaps[n].uid = 1 =>
      LET o == objects[snaps[n].config][n] IN o # NoObject /\ o.stamp = snaps[n].stored

\* The phases a Snapshot may go through while it exists: it is taken once,
\* from InQueue, and a Completed Snapshot becomes Failed only when it could
\* not be deleted at its expiration.
PhaseSuccessors ==
  [p \in Phases |->
     CASE p = ""           -> {"", "InQueue", "Failed"}
       [] p = "InQueue"    -> {"InQueue", "InProgress"}
       [] p = "InProgress" -> {"InProgress", "Completed", "Failed"}
       [] p = "Completed"  -> {"Completed", "Failed"}
       [] p = "Failed"     -> {"Failed"}]

PhaseStep ==
  \A n \in Names :
    Exists(n) /\ snaps'[n] # NoSnap /\ snaps'[n].uid = snaps[n].uid =>
      snaps'[n].phase \in PhaseSuccessors[snaps[n].phase]

\* No step moves the phase of a stored Snapshot backwards: a handler acting
\* on an old copy is refused by the API server before it does.
PhaseOrder == [][PhaseStep]_vars

\* One thread at most works on a key, however often events, the 30 second
\* resync and failed handlers put it back.
OneThreadPerKey ==
  \A t, u \in Threads : Busy(t) /\ Busy(u) /\ thread[t].key = thread[u].key => t = u

\* The copy s of n is no newer than the store, and when it is the stored
\* version it is the same resource in the same phase.
Agrees(n, s) ==
  /\ s.uid <= s.rv /\ s.rv <= ver[n]
  /\ Fresh(n, s.rv) => SameResource(n, s) /\ s.phase = snaps[n].phase

\* Every copy of a Snapshot agrees with the store: in the lister, on its way
\* to the lister, and in the hands of a thread.
CopiesAgree ==
  /\ \A n \in Names : Exists(n) => snaps[n].uid <= snaps[n].rv /\ snaps[n].rv = ver[n]
  /\ \A n \in Names : lister[n] # NoSnap => Agrees(n, lister[n])
  /\ \A n \in Names : \A i \in DOMAIN watch[n] : Agrees(n, watch[n][i].snap)
  /\ \A t \in Threads : Busy(t) => Agrees(thread[t].key, thread[t].snap)

\* Only a Snapshot that has ended has an expiration in its status.
EndedIfUntil(s) == s.until # 0 => s.phase \in {"Completed", "Failed"}

UntilOnlyWhenEnded ==
  \A n \in Names :
    /\ Exists(n) => EndedIfUntil(snaps[n])
    /\ lister[n] # NoSnap => EndedIfUntil(lister[n])
    /\ \A i \in DOMAIN watch[n] : EndedIfUntil(watch[n][i].snap)

\* The phase of a thread's copy fits the call it is about to make.
FitsStep(pc, s) ==
  /\ pc \in {"past", "queue"} => s.phase = "" /\ s.until = 0
  /\ pc = "start" => s.phase = "InQueue" /\ s.until = 0
  /\ pc \in TakingSteps \cup {"stop"} => s.phase = "InProgress"
  /\ pc = "expire" => s.phase = "Failed"
  /\ pc \in {"edit", "delete", "deletefail"} => s.phase \in {"Completed", "Failed"}

StepFitsPhase ==
  \A t \in Threads : Busy(t) => FitsStep(thread[t].pc, thread[t].snap)

\* The inductive invariant: a handler's update is accepted only from the
\* stored version, whose phase its copy has, and its call fits that phase.
IndInv ==
  /\ TypeOK
  /\ OneThreadPerKey
  /\ CopiesAgree
  /\ UntilOnlyWhenEnded
  /\ StepFitsPhase
  /\ TakerOwnsResource

\* The controller keeps the promises of SnapshotLifecycle: every step of it
\* is one of the abstract ones or changes neither phase nor taker.
Lifecycle == INSTANCE SnapshotLifecycle WITH
  Audited <- FALSE,
  phase   <- [n \in Names |-> IF Exists(n) THEN snaps[n].phase ELSE "absent"],
  taking  <- {n \in Names : \E t \in Threads : TakerOf(t, n)}

ImplementsLifecycle == Lifecycle!LifeSpec

-----------------------------------------------------------------------------
(* Liveness. The threads are Go goroutines and the informer keeps running, *)
(* so each eventually takes a step it can take; the clock advances; the    *)
(* resync timer fires. The queue-only thread competes with the workers for *)
(* every key: that a key offered again and again is some day taken by a    *)
(* given worker rests on the queue waking its waiters in turn, hence SF.   *)

Fairness ==
  /\ WF_vars(Tick /\ UNCHANGED thread)
  /\ \A n \in Names :
       /\ WF_vars(Deliver(n)) /\ WF_vars(Resync(n)) /\ WF_vars(Ready(n))
       /\ WF_vars(EnqueueSnapshot(n)) /\ WF_vars(DeleteSnapshot(n))
  /\ \A t \in Threads : WF_vars(Advance(t))
  /\ \A n \in Names, t \in Workers : SF_vars(StartSync(t, n))

FairSpec == Spec /\ Fairness

Ended(n) == snaps[n].phase \in {"Completed", "Failed"}

\* Every Snapshot ends Completed or Failed or is deleted: none stays Just
\* created, InQueue or InProgress, whichever call failed and wherever the
\* process died (README, phases).
EverySnapshotEnds ==
  \A n \in Names : Exists(n) ~> (~Exists(n) \/ Ended(n))

Expiry(s) == IF s.specUntil # 0 THEN s.specUntil ELSE s.until

\* A Snapshot that has ended is deleted after its expiration, also when the
\* first attempt to delete it failed, unless its user moves the expiration.
ExpiredIsDeleted ==
  \A n \in Names :
    Exists(n) /\ Ended(n) /\ Past(Expiry(snaps[n]), now)
      ~> (~Exists(n) \/ ~Past(Expiry(snaps[n]), now))

=============================================================================
