---------------------------- MODULE SnapshotStore ----------------------------
(***************************************************************************)
(* The shared state of k8s-snap: the Snapshot resources the API server     *)
(* keeps, the informer that copies them into the controller's lister, the  *)
(* work queue, the files in the object store, the users and the clock.     *)
(* The components that act on it (SnapshotController, ObjectSyncer) extend *)
(* this module.                                                            *)
(*                                                                         *)
(* The API server, the informer machinery of client-go and the S3 store    *)
(* are not part of the repository; they are modelled from the calls the    *)
(* controller makes: an update carries a resourceVersion and is refused    *)
(* when that is no longer the stored one, a deletion is by name, a watch   *)
(* delivers the versions of one name in order, some time later.            *)
(***************************************************************************)
EXTENDS Naturals, Sequences, FiniteSets

CONSTANTS
  Names,        \* names of Snapshot resources (and of their <name>.tgz files)
  Buckets,      \* ObjectstoreConfigs, one bucket each
  Untils,       \* what a user may write into spec.availableUntil; 0 is unset
  TTLs,         \* what a user may write into spec.ttl; 0 is unset
  DefaultTTL,   \* 24*30 hours (backup_handler.go:180)
  RetryWindow,  \* maxretryelapsedsec + 1 (backup_handler.go:104)
  MaxTime,      \* bound: the clock stops here
  MaxUploads,   \* bound: the upload of a file is retried until that many
  Budget,       \* bound: how often users act, calls fail, the process dies
  NoSnap,       \* no such Snapshot
  NoObject,     \* no such file
  Idle          \* a thread that waits for work

BudgetKinds == {"create", "edit", "remove", "fault", "relist", "crash", "loss"}

ASSUME StoreAssumption ==
  /\ Untils \subseteq Nat
  /\ TTLs \subseteq Nat
  /\ DefaultTTL \in Nat \ {0}
  /\ RetryWindow \in Nat
  /\ MaxTime \in Nat
  /\ MaxUploads \in Nat
  /\ Budget \in [BudgetKinds -> Nat]

VARIABLES
  snaps,      \* name -> the Snapshot the API server stores, or NoSnap
  ver,        \* name -> last resourceVersion given out; never reused
  watch,      \* name -> watch events on their way to the informer
  lister,     \* name -> the informer's cached copy, or NoSnap
  notes,      \* name -> notifications the event handlers have yet to handle
  delayed,    \* names AddRateLimited holds back from snapshotQueue
  dirty,      \* names waiting in snapshotQueue
  objects,    \* bucket -> name -> the stored file, or NoObject
  uploads,    \* name -> number of uploads; the last one is the file's stamp
  now,        \* the clock; 0 is the zero time
  budget      \* what is left of Budget

apiVars   == <<snaps, ver, watch>>
queueVars == <<notes, delayed, dirty>>
fileVars  == <<objects, uploads>>
storeVars == <<apiVars, lister, queueVars, fileVars, now, budget>>

Phases  == {"", "InQueue", "InProgress", "Completed", "Failed"}
Reasons == {"", "error", "stopped", "past", "notFound", "notMatched"}

\* A Snapshot resource. uid is the version it was created with.
Snapshot ==
  [uid : Nat, rv : Nat, created : Nat,
   config : Buckets, specUntil : Nat, ttl : Nat,
   phase : Phases, reason : Reasons, until : Nat, stored : Nat]

\* A <name>.tgz file: its stamp stands for timestamp and size, json for the
\* snapshot.json in it.
Object == [stamp : Nat \ {0}, json : Snapshot]

ASSUME AbsenceAssumption == NoSnap \notin Snapshot /\ NoObject \notin Object

\* A watch event, and a notification of the informer to its handlers.
Event == [type : {"set", "gone"}, snap : Snapshot]
Note  == [op : {"enqueue"}] \cup [op : {"delete"}, config : Buckets]

StoreTypeOK ==
  /\ snaps     \in [Names -> Snapshot \cup {NoSnap}]
  /\ ver       \in [Names -> Nat]
  /\ watch     \in [Names -> Seq(Event)]
  /\ lister    \in [Names -> Snapshot \cup {NoSnap}]
  /\ notes     \in [Names -> Seq(Note)]
  /\ delayed   \subseteq Names
  /\ dirty     \subseteq Names
  /\ objects   \in [Buckets -> [Names -> Object \cup {NoObject}]]
  /\ uploads   \in [Names -> Nat]
  /\ now       \in Nat \ {0}
  /\ budget    \in [BudgetKinds -> Nat]

StoreInit ==
  /\ snaps     = [n \in Names |-> NoSnap]
  /\ ver       = [n \in Names |-> 0]
  /\ watch     = [n \in Names |-> <<>>]
  /\ lister    = [n \in Names |-> NoSnap]
  /\ notes     = [n \in Names |-> <<>>]
  /\ delayed   = {}
  /\ dirty     = {}
  /\ objects   = [b \in Buckets |-> [n \in Names |-> NoObject]]
  /\ uploads   = [n \in Names |-> 0]
  /\ now       = 1
  /\ budget    = Budget

Exists(n) == snaps[n] # NoSnap

Spend(kind) ==
  /\ budget[kind] > 0
  /\ budget' = [budget EXCEPT ![kind] = @ - 1]

-----------------------------------------------------------------------------
(* The API server.                                                         *)

\* Mutant: updates without a resourceVersion.
FreshAnyVersion(n, rv) == Exists(n)

\* The API server accepts an update of a copy with this resourceVersion.
Fresh(n, rv) == Exists(n) /\ snaps[n].rv = rv

Unchanged(n, x) == [x EXCEPT !.rv = snaps[n].rv] = snaps[n]

\* What an accepted update stores and returns: x under the next version, or
\* the stored resource when x changes nothing.
Returned(n, x) == IF Unchanged(n, x) THEN snaps[n] ELSE [x EXCEPT !.rv = ver[n] + 1]

\* Store x under a new version and tell the watchers.
Put(n, x) ==
  LET y == [x EXCEPT !.rv = ver[n] + 1] IN
    /\ snaps' = [snaps EXCEPT ![n] = y]
    /\ ver'   = [ver EXCEPT ![n] = @ + 1]
    /\ watch' = [watch EXCEPT ![n] = Append(@, [type |-> "set", snap |-> y])]

Update(n, x) == IF Unchanged(n, x) THEN UNCHANGED apiVars ELSE Put(n, x)

Create(n, x) ==
  /\ ~Exists(n)
  /\ Put(n, [x EXCEPT !.uid = ver[n] + 1, !.created = now])

Delete(n) ==
  /\ Exists(n)
  /\ snaps' = [snaps EXCEPT ![n] = NoSnap]
  /\ watch' = [watch EXCEPT ![n] = Append(@, [type |-> "gone", snap |-> snaps[n]])]
  /\ UNCHANGED ver

-----------------------------------------------------------------------------
(* Users and time.                                                         *)

\* The clock must still reach the end of the retry window of the new snapshot.
UserCreate(n) ==
  /\ Spend("create")
  /\ now + RetryWindow < MaxTime
  /\ \E b \in Buckets, u \in Untils, d \in TTLs :
       Create(n, [uid |-> 0, rv |-> 0, created |-> 0,
                  config |-> b, specUntil |-> u, ttl |-> d,
                  phase |-> "", reason |-> "", until |-> 0, stored |-> 0])
  /\ UNCHANGED <<lister, queueVars, fileVars, now>>

\* Moving the expiration is the edit the controller reacts to.
UserEdit(n) ==
  /\ Spend("edit")
  /\ Exists(n)
  /\ \E u \in Untils \ {snaps[n].specUntil} : Put(n, [snaps[n] EXCEPT !.specUntil = u])
  /\ UNCHANGED <<lister, queueVars, fileVars, now>>

UserDelete(n) ==
  /\ Spend("remove")
  /\ Delete(n)
  /\ UNCHANGED <<lister, queueVars, fileVars, now>>

Tick ==
  /\ now < MaxTime
  /\ now' = now + 1
  /\ UNCHANGED <<apiVars, lister, queueVars, fileVars, budget>>

=============================================================================
