--------------------------- MODULE RestoreController ---------------------------
(***************************************************************************)
(* The Restore half of the controller: informer event handlers, the        *)
(* rate-limited work queue and the restore workers that run                *)
(* restoreSyncHandler (restore_handler.go), beside the Snapshots and their *)
(* files, which come and go meanwhile.                                     *)
(*                                                                         *)
(* It is built like SnapshotController: a worker is a task with the call   *)
(* it is about to make (pc); the API server refuses an update that does    *)
(* not carry the stored resourceVersion. There is no queue-only thread,    *)
(* no handler for deletions, and nobody looks after a Restore that is      *)
(* InProgress. ClusterRestore is what happens inside clusterCmd.Restore.   *)
(***************************************************************************)
EXTENDS Naturals, Sequences, FiniteSets

CONSTANTS
  Names,       \* names of Restore resources
  Snapshots,   \* names of Snapshots, and of their <name>.tgz files
  Untils,      \* what a user may write into spec.availableUntil; 0 is unset
  TTLs,        \* what a user may write into spec.ttl; 0 is unset
  DefaultTTL,  \* 24*7 hours (restore_handler.go:174)
  MaxTime,     \* bound: the clock stops here
  MaxSnaps,    \* bound: how often a Snapshot of one name is made
  Budget,      \* bound: how often users act, calls fail, the process dies
  Workers,     \* restorethreads workers (controller.go:240)
  NoRestore,   \* no such Restore
  Idle         \* a worker that waits for work

\* "any" bounds the events of all kinds together.
BudgetKinds == {"create", "edit", "remove", "fault", "crash", "any"}

ASSUME RestoreAssumption ==
  /\ Untils \subseteq Nat
  /\ TTLs \subseteq Nat
  /\ DefaultTTL \in Nat \ {0}
  /\ MaxTime \in Nat
  /\ MaxSnaps \in Nat
  /\ Budget \in [BudgetKinds -> Nat]

VARIABLES
  restores,  \* name -> the Restore the API server stores, or NoRestore
  ver,       \* name -> last resourceVersion given out; never reused
  watch,     \* name -> versions on their way to the informer; NoRestore is a deletion
  lister,    \* name -> the informer's cached copy, or NoRestore
  delayed,   \* names AddRateLimited holds back from restoreQueue
  dirty,     \* names waiting in restoreQueue
  thread,    \* worker -> its task, or Idle
  begun,     \* <<name, uid>> of the Restores clusterCmd.Restore was called for
  complete,  \* names whose Snapshot exists and is Completed
  made,      \* Snapshot name -> how often a Snapshot of that name was made
  file,      \* Snapshot name -> which of them <name>.tgz is of; 0: no file
  now,       \* the clock; 0 is the zero time
  budget     \* what is left of Budget

apiVars      == <<restores, ver, watch>>
queueVars    == <<delayed, dirty>>
snapshotVars == <<complete, made, file>>
vars == <<apiVars, lister, queueVars, thread, begun, snapshotVars, now, budget>>

Phases  == {"", "InQueue", "InProgress", "Completed", "Failed"}
Reasons == {"", "error", "past"}

\* A Restore resource. uid is the version it was created with. contents, the
\* Snapshot whose number of contents the status has, and archive, the one
\* whose items the status lists, are counted like made; 0 is none.
Restore ==
  [uid : Nat, rv : Nat, created : Nat,
   from : Snapshots, specUntil : Nat, ttl : Nat,
   phase : Phases, reason : Reasons, until : Nat, contents : Nat, archive : Nat]

\* What a worker that carries out a Restore may be about to do; it has not
\* called clusterCmd.Restore in the early steps.
RestoringSteps == {"snapshot", "lookup", "restore", "finish", "complete", "fail"}
EarlySteps     == {"snapshot", "lookup", "restore"}
WriteSteps     == {"start", "complete", "fail", "past", "queue", "expire",
                   "edit", "deletefail"}
Steps == RestoringSteps \cup WriteSteps \cup {"delete"}

\* at is 0 until the handler has read the clock at line 167.
Task == [pc : Steps, key : Names, copy : Restore, at : Nat]

ASSUME NothingAssumption == NoRestore \notin Restore /\ Idle \notin Task

Exists(n) == restores[n] # NoRestore
Busy(t)   == thread[t] # Idle
At(t, pc) == Busy(t) /\ thread[t].pc = pc

\* Mutant: the queue gives a key out again while its handler runs.
ProcessingNothing == {}

\* The keys the queue has given out and not seen Done for.
Processing == {thread[t].key : t \in {u \in Workers : Busy(u)}}

TypeOK ==
  /\ restores  \in [Names -> Restore \cup {NoRestore}]
  /\ ver       \in [Names -> Nat]
  /\ watch     \in [Names -> Seq(Restore \cup {NoRestore})]
  /\ lister    \in [Names -> Restore \cup {NoRestore}]
  /\ delayed   \subseteq Names
  /\ dirty     \subseteq Names
  /\ thread    \in [Workers -> Task \cup {Idle}]
  /\ begun     \subseteq Names \X Nat
  /\ complete  \subseteq Snapshots
  /\ made      \in [Snapshots -> Nat]
  /\ file      \in [Snapshots -> Nat]
  /\ now       \in Nat \ {0}
  /\ budget    \in [BudgetKinds -> Nat]

Init ==
  /\ restores = [n \in Names |-> NoRestore]
  /\ ver      = [n \in Names |-> 0]
  /\ watch    = [n \in Names |-> <<>>]
  /\ lister   = [n \in Names |-> NoRestore]
  /\ delayed  = {}
  /\ dirty    = {}
  /\ thread   = [t \in Workers |-> Idle]
  /\ begun    = {}
  /\ complete = {}
  /\ made     = [s \in Snapshots |-> 0]
  /\ file     = [s \in Snapshots |-> 0]
  /\ now      = 1
  /\ budget   = Budget

Spend(kind) ==
  /\ budget[kind] > 0 /\ budget["any"] > 0
  /\ budget' = [budget EXCEPT ![kind] = @ - 1, !["any"] = @ - 1]

-----------------------------------------------------------------------------
(* The API server.                                                         *)

\* Mutant: updates without a resourceVersion.
FreshAnyVersion(n, rv) == Exists(n)

\* The API server accepts an update of a copy with this resourceVersion.
Fresh(n, rv) == Exists(n) /\ restores[n].rv = rv

Unchanged(n, x) == [x EXCEPT !.rv = restores[n].rv] = restores[n]

\* What an accepted update stores and returns.
Returned(n, x) == IF Unchanged(n, x) THEN restores[n] ELSE [x EXCEPT !.rv = ver[n] + 1]

\* Store x under a new version and tell the watchers.
Put(n, x) ==
  LET y == [x EXCEPT !.rv = ver[n] + 1] IN
    /\ restores' = [restores EXCEPT ![n] = y]
    /\ ver'      = [ver EXCEPT ![n] = @ + 1]
    /\ watch'    = [watch EXCEPT ![n] = Append(@, y)]

Update(n, x) == IF Unchanged(n, x) THEN UNCHANGED apiVars ELSE Put(n, x)

Delete(n) ==
  /\ Exists(n)
  /\ restores' = [restores EXCEPT ![n] = NoRestore]
  /\ watch'    = [watch EXCEPT ![n] = Append(@, NoRestore)]
  /\ UNCHANGED ver

-----------------------------------------------------------------------------
(* Users, the clock, and the Snapshots.                                    *)

UserCreate(n) ==
  /\ Spend("create")
  /\ ~Exists(n)
  /\ \E s \in Snapshots, u \in Untils, d \in TTLs :
       Put(n, [uid |-> ver[n] + 1, rv |-> 0, created |-> now,
               from |-> s, specUntil |-> u, ttl |-> d,
               phase |-> "", reason |-> "", until |-> 0, contents |-> 0, archive |-> 0])
  /\ UNCHANGED <<lister, queueVars, thread, begun, snapshotVars, now>>

\* Moving the expiration is the edit the controller reacts to.
UserEdit(n) ==
  /\ Spend("edit")
  /\ Exists(n)
  /\ \E u \in Untils \ {restores[n].specUntil} : Put(n, [restores[n] EXCEPT !.specUntil = u])
  /\ UNCHANGED <<lister, queueVars, thread, begun, snapshotVars, now>>

UserDelete(n) ==
  /\ Spend("remove")
  /\ Delete(n)
  /\ UNCHANGED <<lister, queueVars, thread, begun, snapshotVars, now>>

Tick ==
  /\ now < MaxTime
  /\ now' = now + 1
  /\ UNCHANGED <<apiVars, lister, queueVars, thread, begun, snapshotVars, budget>>

\* A Snapshot of this name is made, after the one before it was deleted.
SnapshotMade(s) ==
  /\ made[s] < MaxSnaps
  /\ made' = [made EXCEPT ![s] = @ + 1]
  /\ complete' = complete \ {s}
  /\ UNCHANGED file

\* Its file is uploaded, and that does not stop when the Snapshot is deleted.
SnapshotUploaded(s) ==
  /\ s \notin complete /\ made[s] > 0
  /\ file' = [file EXCEPT ![s] = made[s]]
  /\ UNCHANGED <<complete, made>>

\* After the upload GetObjectInfo has found the file.
SnapshotCompleted(s) ==
  /\ made[s] > 0 /\ file[s] = made[s]
  /\ complete' = complete \cup {s}
  /\ UNCHANGED <<made, file>>

\* It is deleted, by its user or as expired, or it is Failed by the syncer or
\* because it could not be deleted.
SnapshotGone(s) ==
  /\ s \in complete
  /\ complete' = complete \ {s}
  /\ UNCHANGED <<made, file>>

\* deleteSnapshot runs some time after the deletion, and takes the file of a
\* later Snapshot of that name as well (SnapshotController).
FileDeleted(s) ==
  /\ file[s] # 0
  /\ s \notin complete \/ made[s] > 1
  /\ file' = [file EXCEPT ![s] = 0]
  /\ UNCHANGED <<complete, made>>

SnapshotNext ==
  /\ \E s \in Snapshots :
       \/ SnapshotMade(s) \/ SnapshotUploaded(s) \/ SnapshotCompleted(s)
       \/ SnapshotGone(s) \/ FileDeleted(s)
  /\ UNCHANGED <<apiVars, lister, queueVars, thread, begun, now, budget>>

-----------------------------------------------------------------------------
(* Informer and event handlers (controller.go:142-148). enqueueRestore is  *)
(* the only handler and does no more than AddRateLimited.                  *)

\* The informer applies the next watch event; a deletion has no handler. When
\* it has to list again, that is several of these steps at once.
Deliver(n) ==
  /\ watch[n] # <<>>
  /\ watch'   = [watch EXCEPT ![n] = Tail(@)]
  /\ lister'  = [lister EXCEPT ![n] = Head(watch[n])]
  /\ delayed' = IF Head(watch[n]) = NoRestore THEN delayed ELSE delayed \cup {n}
  /\ UNCHANGED <<restores, ver, dirty, thread, begun, snapshotVars, now, budget>>

\* Mutant: the informer has no resync period.
ResyncNever(n) == FALSE

\* Every 30 seconds the informer replays its cache as updates (main.go:84).
Resync(n) ==
  /\ lister[n] # NoRestore
  /\ n \notin delayed
  /\ delayed' = delayed \cup {n}
  /\ UNCHANGED <<apiVars, lister, dirty, thread, begun, snapshotVars, now, budget>>

\* The rate limiter's delay is over: the key is added to the queue.
Ready(n) ==
  /\ n \in delayed
  /\ delayed' = delayed \ {n}
  /\ dirty' = dirty \cup {n}
  /\ UNCHANGED <<apiVars, lister, thread, begun, snapshotVars, now, budget>>

-----------------------------------------------------------------------------
(* What restoreSyncHandler does next with the copy s.                      *)

Past(time, at) == time # 0 /\ time < at

WithTTL(s) ==
  IF s.specUntil = 0 /\ s.ttl = 0 THEN [s EXCEPT !.ttl = DefaultTTL] ELSE s

FailedUntil(s) == IF s.specUntil # 0 THEN s.specUntil ELSE s.created + s.ttl

\* Lines 167-232: the next call, and the copy with the handler's own changes.
NextCall(s, at) ==
  LET call(pc, x) == [pc |-> pc, copy |-> x, at |-> at]
      unset  == s.phase = "Failed" /\ s.until = 0
      edited == /\ s.phase \in {"Completed", "Failed"} /\ ~unset
                /\ s.specUntil \notin {0, s.until}
  IN CASE s.phase = "" /\ Past(s.specUntil, at) -> call("past", s)
       [] s.phase = "" /\ ~Past(s.specUntil, at) -> call("queue", WithTTL(s))
       [] unset -> call("expire", [s EXCEPT !.until = FailedUntil(s)])
       [] edited -> call("edit", [s EXCEPT !.until = s.specUntil])
       [] OTHER -> call(IF Past(s.until, at) THEN "delete" ELSE "return", s)

\* Mutant: a Restore that was interrupted is done again.
FirstCallAgain(s) ==
  IF s.phase \in {"InQueue", "InProgress"} THEN [pc |-> "start", copy |-> s, at |-> 0]
  ELSE NextCall(s, now)

\* Mutants: the worker does not say that it starts; workers run with the
\* queueonly flag.
FirstCallUnmarked(s) ==
  IF s.phase = "InQueue" THEN [pc |-> "snapshot", copy |-> s, at |-> 0] ELSE NextCall(s, now)

FirstCallQueueOnly(s) == NextCall(s, now)

\* Lines 90-91: where the handler starts on a copy read from the lister.
FirstCall(s) ==
  IF s.phase = "InQueue" THEN [pc |-> "start", copy |-> s, at |-> 0] ELSE NextCall(s, now)

\* Mutant: the handler returns and does not let go of the key.
ProceedWithoutDone(t, n, next) ==
  thread' = [thread EXCEPT ![t] =
    [pc |-> next.pc, key |-> n, copy |-> next.copy, at |-> next.at]]

\* Make the call next, or finish with the key when the handler returns.
Proceed(t, n, next) ==
  thread' = [thread EXCEPT ![t] =
    IF next.pc = "return" THEN Idle
    ELSE [pc |-> next.pc, key |-> n, copy |-> next.copy, at |-> next.at]]

\* A worker takes a key nobody holds and reads the lister. The handler works
\* on the lister's own copy: what it sets before the first update (lines 174,
\* 193-197, 208) changes the cache.
StartSync(t, n) ==
  /\ ~Busy(t)
  /\ n \in dirty \ Processing
  /\ dirty' = dirty \ {n}
  /\ \/ lister[n] = NoRestore /\ UNCHANGED <<lister, thread>>
     \/ /\ lister[n] # NoRestore
        /\ LET next == FirstCall(lister[n]) IN
             /\ Proceed(t, n, next)
             /\ lister' = [lister EXCEPT ![n] = next.copy]
  /\ UNCHANGED <<apiVars, delayed, begun, snapshotVars, now, budget>>

\* The handler returned an error: AddRateLimited puts the key back.
Requeue(t) ==
  /\ thread' = [thread EXCEPT ![t] = Idle]
  /\ delayed' = delayed \cup {thread[t].key}
  /\ UNCHANGED dirty

Goto(t, pc, x) == thread' = [thread EXCEPT ![t].pc = pc, ![t].copy = x]

-----------------------------------------------------------------------------
(* updateRestoreStatus, with its callers' reaction to the outcome.         *)

Marked(s, phase, reason) == [s EXCEPT !.phase = phase, !.reason = reason]

\* The resource each call writes.
Written(pc, s) ==
  CASE pc = "start"                  -> Marked(s, "InProgress", "")
    [] pc = "complete"               -> Marked(s, "Completed", "")
    [] pc \in {"fail", "deletefail"} -> Marked(s, "Failed", "error")
    [] pc = "past"                   -> Marked(s, "Failed", "past")
    [] pc = "queue"                  -> Marked(s, "InQueue", "")
    [] OTHER                         -> s

\* Where the handler goes with the updated resource: it has finished after a
\* failure, and reads the clock after "complete" (line 167).
AfterWrite(k, x) ==
  CASE k.pc = "start" -> [pc |-> "snapshot", copy |-> x, at |-> 0]
    [] k.pc \in {"fail", "past", "deletefail"} -> [pc |-> "return", copy |-> x, at |-> k.at]
    [] k.pc = "complete" -> NextCall(x, now)
    [] OTHER -> NextCall(x, k.at)

Writing(t) == Busy(t) /\ thread[t].pc \in WriteSteps

Target(t) == Written(thread[t].pc, thread[t].copy)

UpdateAccepted(t) ==
  /\ Writing(t)
  /\ Fresh(thread[t].key, thread[t].copy.rv)
  /\ Update(thread[t].key, Target(t))
  /\ LET x == Returned(thread[t].key, Target(t))
     IN Proceed(t, thread[t].key, AfterWrite(thread[t], x))
  /\ UNCHANGED <<lister, queueVars, begun, snapshotVars, now, budget>>

\* Conflict or NotFound: the copy is not the stored version.
UpdateRefused(t) ==
  /\ Writing(t)
  /\ ~Fresh(thread[t].key, thread[t].copy.rv)
  /\ Requeue(t)
  /\ UNCHANGED <<apiVars, lister, begun, snapshotVars, now, budget>>

\* The call failed on its way to the API server.
UpdateFailed(t) ==
  /\ Writing(t)
  /\ Spend("fault")
  /\ Requeue(t)
  /\ UNCHANGED <<apiVars, lister, begun, snapshotVars, now>>

\* The update was stored and its reply lost.
UpdateUnanswered(t) ==
  /\ Writing(t)
  /\ Fresh(thread[t].key, thread[t].copy.rv)
  /\ Spend("fault")
  /\ Update(thread[t].key, Target(t))
  /\ Requeue(t)
  /\ UNCHANGED <<lister, begun, snapshotVars, now>>

-----------------------------------------------------------------------------
(* Carrying out the Restore (lines 96-161).                                *)

\* Mutant: a Snapshot of any phase will do.
GetSnapshotAnyPhase(t) ==
  /\ At(t, "snapshot")
  /\ LET x == thread[t].copy IN
       Goto(t, "lookup", [x EXCEPT !.contents = made[x.from]])
  /\ UNCHANGED <<apiVars, lister, queueVars, begun, snapshotVars, now, budget>>

\* The Snapshot is read from the API server and must be Completed.
GetSnapshot(t) ==
  /\ At(t, "snapshot")
  /\ LET x == thread[t].copy IN
       \/ /\ x.from \in complete
          /\ Goto(t, "lookup", [x EXCEPT !.contents = made[x.from]])
       \/ /\ x.from \notin complete
          /\ Goto(t, "fail", x)
  /\ UNCHANGED <<apiVars, lister, queueVars, begun, snapshotVars, now, budget>>

\* ObjectstoreConfig, secret and RestorePreference.
Lookup(t) ==
  /\ At(t, "lookup")
  /\ Goto(t, "restore", thread[t].copy)
  /\ UNCHANGED <<apiVars, lister, queueVars, begun, snapshotVars, now, budget>>

\* clusterCmd.Restore begins with the download.
Download(t) ==
  /\ At(t, "restore")
  /\ LET x == thread[t].copy IN
       /\ begun' = begun \cup {<<thread[t].key, x.uid>>}
       /\ \/ /\ file[x.from] # 0
             /\ Goto(t, "finish", [x EXCEPT !.archive = file[x.from]])
          \/ file[x.from] = 0 /\ Goto(t, "fail", x)
  /\ UNCHANGED <<apiVars, lister, queueVars, snapshotVars, now, budget>>

\* Mutant: the expiration of a finished Restore is left to the handler.
FinishUntilUnset(t) ==
  /\ At(t, "finish")
  /\ Goto(t, "complete", thread[t].copy)
  /\ UNCHANGED <<apiVars, lister, queueVars, begun, snapshotVars, now, budget>>

\* It ends with the marker, whose timestamp starts the time to live
\* (pkg/cluster/restore.go:374-382).
Finish(t) ==
  /\ At(t, "finish")
  /\ LET x == thread[t].copy IN
       Goto(t, "complete", [x EXCEPT !.until = IF x.specUntil = 0 THEN now + x.ttl
                                                                 ELSE x.specUntil])
  /\ UNCHANGED <<apiVars, lister, queueVars, begun, snapshotVars, now, budget>>

\* A lookup or clusterCmd.Restore fails, wherever it is.
GiveUp(t) ==
  /\ Busy(t)
  /\ thread[t].pc \in {"snapshot", "lookup", "restore", "finish"}
  /\ Spend("fault")
  /\ begun' = IF At(t, "restore") THEN begun \cup {<<thread[t].key, thread[t].copy.uid>>}
                                  ELSE begun
  /\ Goto(t, "fail", thread[t].copy)
  /\ UNCHANGED <<apiVars, lister, queueVars, snapshotVars, now>>

-----------------------------------------------------------------------------
(* Deleting an expired Restore (lines 217-228), by name.                   *)

DeleteExpired(t) ==
  /\ At(t, "delete")
  /\ Delete(thread[t].key)
  /\ thread' = [thread EXCEPT ![t] = Idle]
  /\ UNCHANGED <<lister, queueVars, begun, snapshotVars, now, budget>>

DeleteRefused(t) ==
  /\ At(t, "delete")
  /\ ~Exists(thread[t].key)
  /\ Goto(t, "deletefail", thread[t].copy)
  /\ UNCHANGED <<apiVars, lister, queueVars, begun, snapshotVars, now, budget>>

\* The call failed, or its reply was lost.
DeleteFailed(t) ==
  /\ At(t, "delete")
  /\ Spend("fault")
  /\ Goto(t, "deletefail", thread[t].copy)
  /\ Delete(thread[t].key) \/ UNCHANGED apiVars
  /\ UNCHANGED <<lister, queueVars, begun, snapshotVars, now>>

-----------------------------------------------------------------------------
\* The process dies and starts again: the new one lists the Restores, every
\* one of them is an Add; queue and handlers are lost.
Restart ==
  /\ Spend("crash")
  /\ thread'  = [t \in Workers |-> Idle]
  /\ watch'   = [n \in Names |-> <<>>]
  /\ lister'  = restores
  /\ delayed' = {n \in Names : Exists(n)}
  /\ dirty'   = {}
  /\ UNCHANGED <<restores, ver, begun, snapshotVars, now>>

User == \E n \in Names : UserCreate(n) \/ UserEdit(n) \/ UserDelete(n)

Informer(n) == Deliver(n) \/ Resync(n) \/ Ready(n)

\* The steps of a worker when every call goes through.
Advance(t) ==
  \/ UpdateAccepted(t) \/ UpdateRefused(t)
  \/ GetSnapshot(t) \/ Lookup(t) \/ Download(t) \/ Finish(t)
  \/ DeleteExpired(t) \/ DeleteRefused(t)

Fault(t) == UpdateFailed(t) \/ UpdateUnanswered(t) \/ GiveUp(t) \/ DeleteFailed(t)

ThreadNext(t) ==
  \/ \E n \in Names : StartSync(t, n)
  \/ Advance(t)
  \/ Fault(t)

Next ==
  \/ User \/ Tick \/ SnapshotNext
  \/ \E n \in Names : Informer(n)
  \/ \E t \in Workers : ThreadNext(t)
  \/ Restart

Spec == Init /\ [][Next]_vars

-----------------------------------------------------------------------------
(* Safety.                                                                 *)

RestorerOf(t, n) == Busy(t) /\ thread[t].key = n /\ thread[t].pc \in RestoringSteps

\* The stored Restore n is the one the copy s was read from: not a later one
\* of the same name.
SameResource(n, s) == Exists(n) /\ restores[n].uid = s.uid

\* While a worker carries out a Restore the stored resource says InProgress,
\* unless it was deleted: nobody else, working from a stale lister, moved it
\* on, and the worker's failure paths cannot overwrite a result.
RestorerOwnsResource ==
  \A t \in Workers, n \in Names :
    RestorerOf(t, n) /\ SameResource(n, thread[t].copy) => restores[n].phase = "InProgress"

\* clusterCmd.Restore, which writes into another cluster and cannot be taken
\* back, is not called a second time for a Restore, whatever was lost, retried
\* or restarted on the way.
NotTwice ==
  \A t \in Workers : At(t, "restore") => <<thread[t].key, thread[t].copy.uid>> \notin begun

\* A Completed Restore has fetched no older archive than that of the Completed
\* Snapshot it looked up, although the Snapshot may have been deleted and made
\* again between lookup and download. (It may be a later one.)
NeverOlderArchive ==
  \A n \in Names :
    Exists(n) /\ restores[n].phase = "Completed" =>
      0 < restores[n].contents /\ restores[n].contents <= restores[n].archive

\* One worker at most has a key, however often events and resyncs put it back.
OneWorkerPerKey ==
  \A t, u \in Workers : Busy(t) /\ Busy(u) /\ thread[t].key = thread[u].key => t = u

\* The copy s of n is no newer than the store, and when it is the stored
\* version it is the same resource in the same phase.
Agrees(n, s) ==
  /\ s.uid <= s.rv /\ s.rv <= ver[n]
  /\ Fresh(n, s.rv) => SameResource(n, s) /\ s.phase = restores[n].phase

\* Before it has ended a Restore has neither an expiration nor an archive in
\* its status; Completed, it has an expiration, and no older archive than the
\* one it looked up.
StatusFits(s) ==
  /\ s.phase \in {"", "InQueue", "InProgress"} => s.until = 0 /\ s.archive = 0
  /\ s.phase = "Completed" => s.until # 0 /\ 0 < s.contents /\ s.contents <= s.archive

\* Every copy of a Restore agrees with the store and has a fitting status: the
\* stored one, in the lister, on its way to it, in the hands of a worker.
CopiesAgree ==
  /\ \A n \in Names : Exists(n) => Agrees(n, restores[n]) /\ restores[n].rv = ver[n]
  /\ \A n \in Names : lister[n] # NoRestore => Agrees(n, lister[n])
  /\ \A n \in Names : \A i \in DOMAIN watch[n] :
       watch[n][i] # NoRestore => Agrees(n, watch[n][i])
  /\ \A t \in Workers : Busy(t) => Agrees(thread[t].key, thread[t].copy)

CopiesFit ==
  /\ \A n \in Names : Exists(n) => StatusFits(restores[n])
  /\ \A n \in Names : lister[n] # NoRestore => StatusFits(lister[n])
  /\ \A n \in Names : \A i \in DOMAIN watch[n] :
       watch[n][i] # NoRestore => StatusFits(watch[n][i])

\* The worker's copy fits the call it is about to make.
FitsStep(pc, s) ==
  /\ pc \in {"past", "queue"} => s.phase = ""
  /\ pc = "start" => s.phase = "InQueue"
  /\ pc \in RestoringSteps => s.phase = "InProgress"
  /\ pc = "expire" => s.phase = "Failed"
  /\ pc \in {"edit", "delete", "deletefail"} => s.phase \in {"Completed", "Failed"}
  /\ pc \notin RestoringSteps => StatusFits(s)
  /\ pc \in EarlySteps => s.archive = 0
  /\ pc \in EarlySteps \ {"snapshot"} => 0 < s.contents
  /\ pc \in {"finish", "complete"} => 0 < s.contents /\ s.contents <= s.archive
  /\ pc = "complete" => s.until # 0

StepsFit == \A t \in Workers : Busy(t) => FitsStep(thread[t].pc, thread[t].copy)

\* From the lookup to the download, neither the Snapshot nor its file is an
\* older one than the Snapshot that was looked up.
LookedUpFits ==
  \A t \in Workers : Busy(t) /\ thread[t].pc \in EarlySteps \ {"snapshot"} =>
    LET s == thread[t].copy IN
      /\ s.contents <= made[s.from]
      /\ file[s.from] = 0 \/ s.contents <= file[s.from]

\* A file is never newer than its Snapshot, and a Completed Snapshot has its
\* own file or none.
FilesFit ==
  \A s \in Snapshots :
    /\ file[s] <= made[s]
    /\ s \in complete => 0 < made[s] /\ file[s] \in {0, made[s]}

\* What was begun is past InQueue, and no worker is on its way to it again.
BegunIsPast ==
  /\ \A b \in begun : b[2] <= ver[b[1]]
  /\ \A n \in Names :
       Exists(n) /\ <<n, restores[n].uid>> \in begun => restores[n].phase \notin {"", "InQueue"}
  /\ \A t \in Workers :
       Busy(t) /\ thread[t].pc \in EarlySteps =>
         <<thread[t].key, thread[t].copy.uid>> \notin begun

\* The inductive invariant.
IndInv ==
  /\ TypeOK
  /\ OneWorkerPerKey
  /\ CopiesAgree
  /\ CopiesFit
  /\ StepsFit
  /\ FilesFit
  /\ LookedUpFits
  /\ BegunIsPast
  /\ RestorerOwnsResource

\* What the workers are doing with a name.
StageOf(n) ==
  IF \E t \in Workers : RestorerOf(t, n) /\ thread[t].copy.archive # 0 THEN "restoring"
  ELSE IF \E t \in Workers : RestorerOf(t, n) THEN "checking"
  ELSE "none"

\* Every step is one of RestoreLifecycle or changes neither phase nor stage.
Lifecycle == INSTANCE RestoreLifecycle WITH
  phase <- [n \in Names |-> IF Exists(n) THEN restores[n].phase ELSE "absent"],
  stage <- [n \in Names |-> StageOf(n)]

ImplementsLifecycle == Lifecycle!LifeSpec

-----------------------------------------------------------------------------
(* Liveness. The workers are goroutines whose calls return, the informer   *)
(* keeps running, the resync and rate-limiter timers fire, the clock       *)
(* advances. No fault, user action, crash or step of a Snapshot is fair.   *)

Fairness ==
  /\ WF_vars(Tick)
  /\ \A n \in Names : WF_vars(Deliver(n)) /\ WF_vars(Resync(n)) /\ WF_vars(Ready(n))
  /\ \A n \in Names : WF_vars(\E t \in Workers : StartSync(t, n))
  /\ \A t \in Workers : WF_vars(Advance(t))

FairSpec == Spec /\ Fairness

Ended(n) == restores[n].phase \in {"Completed", "Failed"}

Interrupted == \E k \in {"fault", "crash", "edit"} : budget[k] < Budget[k]

\* InProgress, and no worker carries it out.
Abandoned(n) == restores[n].phase = "InProgress" /\ ~\E t \in Workers : RestorerOf(t, n)

\* Every Restore ends Completed or Failed or is deleted, unless it is left
\* InProgress by its worker, and that takes a failed call, a crash or an edit
\* of the Restore while it is carried out.
EveryRestoreSettles ==
  \A n \in Names :
    Exists(n) ~> (~Exists(n) \/ Ended(n) \/ (Abandoned(n) /\ Interrupted))

Expiry(s) == IF s.specUntil # 0 THEN s.specUntil ELSE s.until

\* A Restore that has ended is deleted after its expiration, also when the
\* first attempt to delete it failed, unless its user moves the expiration.
ExpiredIsDeleted ==
  \A n \in Names :
    Exists(n) /\ Ended(n) /\ Past(Expiry(restores[n]), now)
      ~> (~Exists(n) \/ ~Past(Expiry(restores[n]), now))

=============================================================================
