# k8s-snap: a TLA+ verification project

k8s-snap is a Kubernetes controller that takes snapshots of whole clusters (every
resource, as JSON, in one `<name>.tgz` in an S3 bucket) and restores them. Users create
`Snapshot` and `Restore` resources; the controller works through them and keeps files and
resources in step. This directory models the controller, the taking of a snapshot and the
restoring of one in TLA+, checks the models with TLC and proves theorems about them with TLAPS. Paths and line numbers are those of the repository.

## 1. Inventory

| Component | State it keeps | Operations | What makes it correct |
|---|---|---|---|
| Snapshot resources (`types.go`, API server) | spec (`objectstoreConfig`, `availableUntil`, `ttl`), status (`phase`, `reason`, `availableUntil`, stored size and timestamp), `resourceVersion`, uid | users create, edit, delete; controller updates and deletes | an update from an old copy is refused |
| Informer and lister (client-go; `controller.go:133-148`, `main.go:84`) | a lagging copy of every Snapshot | watch events, relist after a broken watch, replay every 30 s | copies are some earlier version, never a wrong one |
| Snapshot queue (client-go workqueue) | keys delayed, waiting, being processed | `AddRateLimited`, `Get`, `Done` | a key is with one thread at a time |
| Snapshot controller (`backup_handler.go`) | what each thread holds: key, copy of the Snapshot, time read | `snapshotSyncHandler` in 5 workers and one queue-only thread, `enqueueSnapshot`, `deleteSnapshot` | phases advance; taken once; Completed means stored; everything ends and expires |
| Object syncer (`backup_syncer.go`) | the lists a sweep has read | initial sync, then every 300 s: remove or recover orphan files, compare file and status | never disturbs a running snapshot nor its file; repairs what the handlers missed |
| Object store (`pkg/objectstore/bucket.go`) | files by bucket and name | Upload, Download, Delete, GetObjectInfo, ListObjectInfo | - |
| Cluster snapshot (`pkg/cluster/snapshot.go`) | lists, watch events, markers | list and watch every resource kind, replay events up to an end marker, write the archive | the archive is the cluster at the end marker; at least, no resource is older than listed or newer than the marker |
| Restore controller (`restore_handler.go`) | what each worker holds: key, copy of the Restore, time read; its own queue and informer copies | `restoreSyncHandler` in 2 workers, `enqueueRestore` | carried out once at most; its worker alone records a result; never from an older archive than the Completed Snapshot it looked up; ends, and expires |
| Restoring resources (`restore.go`, `restore_pref.go`) | the file in `/tmp`, directories of items by preference, lists of the status, marker | download, extract, then a pass over each of: namespaces, CRDs, volumes and claims, resources, apps | the exclusion rules hold for every item; what belongs together goes together; every item is accounted for; what is tried is what the rules select, and to exclude more restores no more; nothing from a part of an archive; it returns |
| Restoring volumes (`restore_pv.go`) | the claim at hand, how often it looked | create PV, create PVC, wait until bound | no claim without its volume; they find each other again |
| Process (`main.go`, `controller.go` Run) | flags | checks buckets, syncs caches, initial sync, starts threads, stops | a restart loses only the queue and the handlers |

How they interact. Users and the controller meet only in the API server. Changes reach the
controller through the informer, which updates the lister and calls the event handlers: Add and
Update put the key into the queue, Delete removes the file at once, in the handler. A worker
takes a key, reads the **lister** (not the API server), makes its calls (API server, target
cluster, object store) and puts the key back when one fails. The syncer shares nothing with the
workers but the API server, the lister and the object store, and locks nothing. A restore worker
reads the Snapshot from the API server, later its file from the object store, and then writes
into another cluster; two workers share the directory `/tmp`, where the file has the name of the
Snapshot.

What is hard here:

- decisions are made on copies that lag; only the `resourceVersion` precondition of an update
  protects them, and deletions (of Snapshots and of files) have no precondition at all;
- the cached copies are written to by the handlers;
- every call can fail, or succeed and lose its reply, and handlers are retried from the top;
- the process may die between any two calls (`Run` does not wait for its workers, so a normal
  stop is the same);
- names are reused: users delete and re-create, the initial sync re-creates from files;
- two lists read at different times are compared and acted on later (the syncer);
- a snapshot is no atomic read: each kind of resource is listed and watched in turn while the
  cluster changes, by goroutines that share a slice without a lock;
- recovery and expiration depend on timeouts measured from several starting points;
- a restore cannot be taken back, and its controller does not look after one whose worker is gone;
- the target of a restore is a live cluster: it binds any claim to any volume that fits, serves new
  kinds when it likes, and others create and delete there;
- what a restore leaves out is decided by texts in paths, in one place by the whole name, in
  another by how it begins or what it contains.

`PROJECT.json` lists each hazard at its line with the properties that cover it, or why none does.

## 2. Modules

| Module | What it is |
|---|---|
| `SnapshotStore` | shared state: API server, informer copies, queue, files, users, clock, event budget |
| `SnapshotController` | event handlers, queue, workers and queue-only thread; its properties and inductive invariant |
| `SnapshotLifecycle` | the abstract specification: phases of a name and who is taking it |
| `SnapshotClaims` | statements of the documents that the controller does not keep |
| `SnapshotController_proofs` | TLAPS proofs about `SnapshotController` |
| `SnapshotStored_proofs` | the proof that a Completed Snapshot has its file |
| `ObjectSyncer` | extends `SnapshotController` with the syncer, start-up order and lost files |
| `ObjectSyncer_proofs` | TLAPS proofs about `ObjectSyncer` |
| `SyncerLifecycle_proofs` | the proof that the controller with its syncer implements `SnapshotLifecycle` |
| `SyncerStored_proofs` | the proof that a Completed Snapshot has its file beside the syncer too |
| `SyncerClaims` | statements of the documents that the syncer does not keep |
| `ClusterSnapshot` | one call of `SnapshotWithClient` beside the writers of the target cluster; its properties and inductive invariant |
| `ClusterSnapshot_proofs` | TLAPS proofs about `ClusterSnapshot` |
| `RestoreController` | restore workers, their queue and informer, beside Snapshots and files that come and go; its properties and inductive invariant |
| `RestoreLifecycle` | the abstract specification: phases of a Restore and how far a worker is with it |
| `RestoreController_proofs` | TLAPS proofs about `RestoreController`, its refinement included |
| `RestorePreference` | pure rules: which item a preference and the other items leave out, which pass creates it, what is selected in all |
| `ClusterRestore` | calls of `Restore` beside each other and beside the target cluster; its properties and inductive invariant |
| `RestoreAccount` | the abstract specification: what a call tries and makes, without passes, files or the target |
| `ClusterRestore_proofs` | TLAPS proofs about `ClusterRestore`, its refinement and the rules of `RestorePreference` |
| `RestoreClaims` | a statement of the documents that restoring does not keep |
| `MC...` | instances for TLC: budgets and bucket orders, resource kinds, archives and preferences |

### State and code

- `snaps`, `ver`, `watch`: the API server. A Snapshot is a record of what the handlers read and
  write; `uid` is the version it was created with, so a re-created one of the same name differs.
  `Fresh` is the precondition of an update; an update that changes nothing gets no new version.
- `lister`, `notes`: the informer's cache and the notifications its handlers have not run yet
  (one FIFO for each name). `delayed` and `dirty`: the rate-limited and the ready part of
  `snapshotQueue`; the keys being processed are those of the busy threads.
- `objects`, `uploads`: the files. The stamp stands for size and timestamp and is new with each
  upload; `json` is the `snapshot.json` inside.
- `thread[t]`: what the goroutine has on its stack. `pc` names the call it is **about to make**.
- `sweep`: the same for `syncObjects`; `started` says that the workers run.

### Actions and code

Each call that leaves the process is an action; what the handler computes until its next call
belongs to the action before. `FirstCall` is the handler from the lister to its first call
(`backup_handler.go:89-119`, falling through to 172), `NextCall` is lines 172-238,
`Written`/`AfterWrite` say what each `updateSnapshotStatus` stores and where the handler goes
then. For every call there are the outcomes accepted, refused (conflict, not found), failed on
its way, and done with the reply lost; the last two cost a unit of the `fault` budget.
`GetBucket`, `TakeSnapshot`, `Upload` and `ObjectInfo` are lines 121-164 with
`SnapshotWithClient` and `UploadSnapshot`; a retry inside `backoff.RetryNotify` is a step back
to the upload, its end is `GiveUp`. `StartSync` writes the handler's early assignments into
`lister` because the code assigns to the lister's own object (180, 199-204, 215).
`Restart` is a crash at any point followed by a new process that lists the Snapshots.

In `ObjectSyncer` a sweep is: one `ListBucket` for each bucket, `ListSnapshots` with the whole
comparison (196-262), then the updates, in the code's order (`WriteOrder`), with the orphans
between the first and the second group. `Boot` makes the initial sync come before the workers.

`ClusterSnapshot` stands by itself: to the controller the call is the one step `TakeSnapshot`.
The target cluster is its `history`, one change for each `resourceVersion`, with what stands at
that version; a copy of a resource is just the version that wrote it (0 for none), so a list is a
function from API paths to versions and an event is a version. `pc` is the call
`SnapshotWithClient` makes next; `startRV`, `endRV`, `list` (`snapshotList`), `events`
(`watchEventList`) and `watches` (`eventsWatch`) are its variables. `CreateMarker` and
`DeleteMarker` are the two calls of `ConfigMapMarker`, `List` and `Watch` lines 159-193 for the next
kind of resource, `Stop` and `Drained` lines 207-208, `Sync` one turn of the loop 212-256.
A goroutine (170-188) receives the next event of its watch, in the order of the cluster
(`Receive`), and appends it in two steps, because nothing locks the slice: `ReadEvents` reads
it, `AppendEvent` assigns it one element longer, dropping what others have appended in between.
When the array had room the others' elements are in front of the new one, else those that were
read are (`Fronts`). `held` is what a goroutine has between its steps. `Drained` takes the three
seconds of line 208 to be enough for goroutines to finish what they have received.
`raced` and `listedAt` record, for the properties only, that two appends overlapped and when a
kind was listed.

`RestoreController` is built like `SnapshotController`; `restores`, `ver`, `watch`, `lister`,
`delayed`, `dirty` and `thread` mean the same for Restores. `GetSnapshot`, `Lookup`, `Download` and
`Finish` are lines 96-161 of `restore_handler.go`. The Snapshots' half is not repeated, but what a
restore worker can see of it is: `complete` (a Snapshot of that name exists and is *Completed*),
`made` (how many there have been of that name) and `file` (of which of them the file is), with one action
for each way `SnapshotController` and `ObjectSyncer` change them, in any order those allow: the late
deletion handler, which takes the next Snapshot's file, and uploads of deleted Snapshots included.
`contents` and `archive` in a Restore say which Snapshot it looked up and of which it fetched the
file. `begun` records, for the properties only, which were carried out. To this module
`clusterCmd.Restore` is a download and an end; inside it is `ClusterRestore`.

In `ClusterRestore` `pc` is what a call of `Restore` does next: `CreateFile` and `Download` (the file
`tgz`, shared by all calls, is cut off by `os.Create` and whole again after the download), `Discover`,
`Extract` (`dirs`: the items of each directory; a preference decides in the order of
`preferedToRestore`), then one pass after another (`PassDone`, `Reload` for lines 329-333), each
over `todo` in the order of file names. `RestoreItem` is a turn of `restoreDir`; `ClaimExcluded`,
`RestoreVolume`, `RestoreClaim` and `WaitBound` are a turn of `restorePV`, cut at its calls to the
cluster. `CreateItem` has the outcomes created, exists, refused, failed on its way, and done with the
reply lost; `status` holds the lists the outcome is counted in. `UnknownKind` and `Fail` are the
early returns. The target is `cluster` (items), `bound` (claims with volumes), `kinds` (custom kinds
served) and `markers`; `Bind`, `Establish`, `OtherCreates` and `OtherDeletes` are what it does itself.
`RestorePreference` abstracts texts to which starts with or contains which (`Starts`, `Contains`
for names, `starts` and `holds` for paths).

## 3. What the runs check

| Run | Instance | Properties |
|---|---|---|
| `controller_safety` | one name, a worker and the queuer, clock to 3; at most four of: two creations, edit, delete, fault, relist, crash | `TypeOK`, `TakerOwnsResource`, `CopiesAgree`, `IndInv`, `CompletedIsStored`, `PhaseOrder`, `ImplementsLifecycle` |
| `controller_liveness` | one creation, edit, fault and crash | `EverySnapshotEnds`, `ExpiredIsDeleted` |
| `syncer_safety` | syncer with recovery, housekeeping and validation; at most three of: creation, delete, fault, crash | `SyncTypeOK`, `CompletedIsStored`, `CopiesAgree`, `ImplementsAudited` |
| `syncer_liveness` | two buckets; a creation, a deletion, a file lost or moved; no validation | `LostIsFailed`, `MovedIsFollowed`, `OrphanIsSettled` |
| `snapshot_safety` | two kinds of resources, one path each and the marker; users write up to version 6 (the end marker may be 7 and its deletion 8), the pod changes once | `TypeOK`, `OfTheWindow`, `NotBeforeListing`, `ExactWhenHeard` |
| `restore_safety` | one Restore name, used twice at most; a Snapshot made twice at most; two workers, clock to 3; at most three of: two creations, edit, delete, fault, crash | `TypeOK`, `RestorerOwnsResource`, `NotTwice`, `NeverOlderArchive`, `IndInv`, `ImplementsLifecycle` |
| `restore_liveness` | one worker; at most two of the same | `EveryRestoreSettles`, `ExpiredIsDeleted` |
| `cluster_restore` | two calls on one of five archives, each with one of two preferences, an empty target or one with a namespace, a CRD and a volume in it; one call fails or the others do something once | `TypeOK`, `EveryItemCounted`, `ClaimAfterVolume`, `ReboundInPairs`, `NothingExcluded`, `GoTogether`, `WholeArchive`, `DoneLeavesNothing`, `NeverStuck`, `StricterTriesLess`, `StepsRunOut`, `KeepsAccount` |
| `claim_*` | the smallest budget that shows it | one statement each, violated |

`ImplementsLifecycle` and `ImplementsAudited` are refinements: with the stored phase and the set
of names some thread is taking, every behaviour is one of `SnapshotLifecycle`. That is the
strongest statement made here: *Completed* is reached only by the thread that moved the resource
from *InQueue* to *InProgress*, only *Completed* (by expiration) and *InProgress* become *Failed*,
nothing that has ended is taken again, and with the syncer only Snapshots that have ended, or
were just recovered, are touched. `RestoreController!ImplementsLifecycle` is the same for Restores
and `RestoreLifecycle`, with one difference the code makes: nobody ends what a dead worker began.
`KeepsAccount` is a refinement too: with the items each call has tried and created (`Tried`, `Created`)
and whether it has returned (`Stage`), every behaviour is one of `RestoreAccount`, which knows
only what a preference selects (`Selected`). `TriesWhatIsSelected` says nearly the same of a state; it is proved, and no run repeats it.

**Bounds.** `MaxTime` stops the clock; with `RetryWindow` 1 and `DefaultTTL` 1, three ticks
reach every time-out and expiration, and a user only creates where the retry window still fits.
`MaxUploads` bounds the upload loop, the rest of which is `GiveUp`. `Budget` bounds what may
happen, `MaxEvents` how much of it together. One name is enough for what is checked: names share
the threads, which bears on when a key is served, not on what is done with it; and every key is
held by one thread (part of `IndInv`), so one worker beside the queuer has all interleavings on
one name (with a second worker TLC finds the same states up to symmetry). Three
events suffice for every violation found while modelling; runs with four confirm nothing else
appears. `CHECK_DEADLOCK` is off because a run ends when clock and budget are used up and all
is quiet, which is no fault.

For `ClusterSnapshot`, `MaxVersion` 6 leaves two or three changes between the markers,
enough for a change before the list, one between list and watch, and one after; the bounds cut no
failure. The markers are not bounded, there are two. Three constraints of `MCClusterSnapshot` leave
out steps that only multiply states: `WritesReach` has nobody write before the first marker or
after the stop (what is there before is the choice of `Init`; what comes after reaches no watch),
`EndsLate` has a watch end only at the second marker (one that ended earlier is one that brought
nothing since), and `OnePodChange` lets one of the two resources change only once. Without the last two
the run passes as well, in five minutes; the inductive invariant `IndInv` was checked at a lower
bound and is proved, so no run repeats it. Two appends overlap in this instance, one of each kind.

For `RestoreController`, a second Snapshot of the name (`MaxSnaps` 2) is what it takes for lookup
and download to see different ones, and a second Restore for a worker to hold a copy of the first.
The two workers are alike (symmetry). `SnapshotsMoveWhenSeen` has Snapshots change only while some
worker is before its lookup or download; until then nobody reads them.

For `ClusterRestore`, the five archives of `MCClusterRestore` bring together the items rules speak
of: a CRD with its custom resource, a Service with its Endpoints, a token, an owned Pod; roles and bindings of
excluded and other namespaces, storage classes; claims that share a volume, name another class or
an excluded namespace, or have a volume without a spec, or none. The preferences put services and
bindings into the App directory, or exclude the CRD. One fault or event reaches every outcome of a call; the
two calls are alike (symmetry), and have the same archive, because they share what is in `/tmp`.
`MaxTries` is 1 instead of 10: look, look again, give up. The inductive invariant `IndInv` was
checked on this instance as well, with no violation; it takes another two minutes and is proved, so the
run leaves it out. One of the two preferences is stricter than the other: it excludes the CRD, and
has no application, so its items are in other directories. Preferences that exclude more
namespaces were checked on smaller archives, and are part of what is proved.

**Fairness.** `Fairness`: goroutines whose call can be made make it (calls return), the informer
delivers, the 30 s resync and rate-limiter timers fire, time passes. Strong fairness only for a
worker taking a given key: the queue-only thread may take it from under the workers any number
of times, and the workqueue wakes its waiters in turn, so a key offered for ever is some day
taken by a worker. No fault, user action or crash is fair. `FairSync` assumes only that the
syncer's goroutine runs. In `RestoreController` the
same is fair: the clock, delivery, resync, the rate limiter, some worker taking a key, each worker's
next call. Weak fairness is enough there, no queue-only thread takes keys away. No step of a Snapshot is fair:
a Restore ends even if its Snapshot never does. `ClusterRestore` assumes no fairness at
all: `NeverStuck` and `StepsRunOut` say that a call can always go on and that each of its steps
makes a measure smaller, so it returns if only it keeps running, whatever the target does.

## 4. Findings

Each `claim_*` run checks one sentence of the documentation or a comment and finds the
behaviour that breaks it (quoted in `PROJECT.json`):

1. `claim_available`: the file of a Completed Snapshot is removed by the late deletion of its
   predecessor of the same name;
2. `claim_restored`: a Snapshot recovered from its file is taken anew instead of Completed, since
   the lister has not seen it yet;
3. `claim_synced`: an archive is not the cluster at its `snapshotResourceVersion` when the watches
   are stopped before they have brought every event older than it (`ExactWhenHeard` says that this,
   or an overlapping append, is the only way);
4. `claim_names`: a preference that excludes namespace `kube` leaves `kube-dns` in the archive too,
   since names are looked for as texts.

Seen while modelling, and listed as hazards without a run of their own: a resource whose
expiration was just extended is deleted as expired (by name, no precondition); an edit while a
snapshot is taken ends in "Controller stopped while taking the snapshot"; a sweep may take a file that was
no orphan any more for one; a deleted Snapshot comes back when the process restarts before
its file is removed. None of them is promised otherwise in so many words.

For the same reasons `CompletedIsStored` speaks of names that have not been used before, and
`SnapshotLifecycle` lets a recovered Snapshot (`Audited`) fail while it waits.

## 5. What is proved

`SnapshotController_proofs` proves, for any number of names, buckets and workers and any times
and budgets (assumptions: `StoreAssumption`, `AbsenceAssumption`, `ThreadAssumption`, which say
only that constants have their types and that the "nothing" values are none of the things):

- `TypeCorrect`: `Spec => []TypeOK`
- `Invariance`: `Spec => []IndInv`
- `Ownership`: `Spec => []TakerOwnsResource`
- `Agreement`: `Spec => []CopiesAgree`
- `PhasesInOrder`: `Spec => PhaseOrder`
- `Refinement`: `Spec => ImplementsLifecycle`

*The argument.* `TakerOwnsResource` is not inductive. A write of another thread is harmful only
if it is accepted, which takes the stored `resourceVersion`; so one needs that a copy with the
stored version has the stored phase (`CopiesAgree`). That survives the handlers' writes into the
cache only because none of them changes phase, uid or version. It also needs that the call a thread
is about to make fits the phase of its copy (`StepFitsPhase`): a thread that records "stopped"
or "start" holds a copy that says *InProgress* or *InQueue*. `start` falls through to
the expiration check, hence `UntilOnlyWhenEnded`: a Snapshot that waits has no expiration in its
status, so no thread deletes or fails it. `OneThreadPerKey`, from the queue, makes the taker
unique. `IndInv` is the conjunction; TLC checks it in `controller_safety`, the proof has one case
for each action. `PhaseOrder` then follows step by step: an accepted update moves the phase from that
of the copy, which is the stored one, to that of the call. `Refinement` adds the names that are being
taken: a thread that moves or stops changes that only for its key (`TakingMoves`), so "complete" and
"fail" end what "start" began, and "stop" finds a name nobody is taking.

`SnapshotStored_proofs` adds, from the same assumptions:

- `Stored`: `Spec => []CompletedIsStored`

*The argument.* A name nobody has deleted is `Untouched`: no deletion is on its way to the lister and no
handler is about to remove its file (`NothingGone`), so the file goes only when an upload replaces it. What
a thread is about to record is there from the look at the file on (`ReadyToComplete`). Nobody uploads
over a file that a status describes (`RecordIsStored`), because a thread that uploads is the only one with
its key and its Snapshot is *InProgress* (`TakerOwnsResource`). Copies of the stored version name the same
file (`CopiesName`), so a handler's later updates keep naming it. `Described` says what a step may do to
the store, the copies, the files and the threads for all this to go on (`DescribedKeeps`); the rest
of the proof shows that each action is so described.

`ObjectSyncer_proofs` proves of `SyncSpec`, with `SyncerAssumption` added (the flags are Boolean, the
buckets are listed in some order, and there is one):

- `SyncTypeCorrect`: `SyncSpec => []SyncTypeOK`
- `SyncAgreement`: `SyncSpec => []CopiesAgree`
- `SyncOwnership`: `SyncSpec => []TakerOwnsResource`

*The argument.* `SyncInv` adds to the copies those a sweep has made (`SweepAgrees`): what it is going
to update agrees with the store, and has ended, so an update that is accepted finds a Snapshot nobody
is taking. What a sweep recovers is made Completed before a thread gets a key (`SweepFits`). Nothing is
said of expirations here (`UntilOnlyWhenEnded` is false): `GetRestored` sets one in a copy that waits.

`SyncerLifecycle_proofs` adds, from the same assumptions:

- `SyncRefinement`: `SyncSpec => ImplementsAudited`

*The argument.* Without `UntilOnlyWhenEnded` a thread may be about to delete a Snapshot in any phase
but the empty one; what fits a call's copy otherwise still does (`CallsFit`). A deletion that fails
then condemns a Snapshot that is *InQueue* or *Completed*, or abandons one left *InProgress*: the
abstract `Condemn` and `Abandon`. That a sweep only ever completes what was waiting needs two more
facts: a file never says that its Snapshot did not wait (`FilesWait`: `snapshot.json` is written without
its phase), and what a sweep has made from a file waits until the sweep completes it
(`RecoveredWaits`: users edit it meanwhile, the threads do not run yet). An update of the sweep
moves what has ended between *Completed* and *Failed* (`FixLife`). The steps of the threads are those of
`Refinement`, whose lemmas are stated over what both invariants share (`LifeBase`).

`SyncerStored_proofs` adds, from the same assumptions:

- `SyncStored`: `Validate => (SyncSpec => [](NothingLost => CompletedIsStored))`

*The argument.* `Described` holds of the sweep's steps too, given what a sweep has in hand
(`SweepStored`). A file is in the bucket of a name that has or had a Snapshot (`InTheirBuckets`), and
a sweep reads the files before the resources: a file it finds without a Snapshot belongs to a name that was
used before, so no orphan it removes or recovers is of an untouched one. It
finds such a Snapshot valid only when a file has the stamp its status says, so the status does describe
a file, and that file is still there, however long ago it was looked at
(`FixFits`): until then `RecordIsStored` keeps a *Failed* Snapshot from being *Completed* with nothing
stored. `NothingLost` excludes what `LoseObject` does, somebody else removing or moving a file:
no sweep sees it at once. `Validate` is the default (`main.go:114`); without it a sweep trusts any
file of the name, and does complete a Snapshot whose file is not the one its status describes.

`ClusterSnapshot_proofs` proves, for any number of resources and kinds, any history and any order of
events (assumptions: `ResourcesAssumption`, that discovery lists each kind once and every path has
a kind, and `NothingAssumption`):

- `TypeCorrect`: `Spec => []TypeOK`, with no watch left running when the call returns
- `Window`: `Spec => []OfTheWindow`
- `NotTakenBack`: `Spec => []NotBeforeListing`
- `Exactness`: `Spec => []ExactWhenHeard`

*The argument.* `HistoryInv` says what a history is: what stands at version `w` is what stood at
`v` unless the path changed between, and then it is what its last change left. `ProgressInv` puts
the versions in order: `startRV` before every list, every list before `endRV`. `EventsInv`
holds every event after `startRV`, even one that was overwritten and read again; with the test
against `endRV` this is `OfTheWindow`. `OrderInv` says of a call without overlapping appends that
the slice has, in order, all the watches have brought. So an event that is applied over another
one is later, and one applied over a list is later than the list: had it been before, the list
would have had it (`NotBack`). `Converging` is the rest: nothing held is newer than the last
change of its path before `endRV`, and once that is replayed it is held. When all was heard it
has been replayed, or there was no change.

`RestoreController_proofs` proves, for any names, Snapshots, workers, times and budgets
(assumptions: `RestoreAssumption` and `NothingAssumption`, types and "nothing" values again):

- `TypeCorrect`: `Spec => []TypeOK`
- `Invariance`: `Spec => []IndInv`
- `Ownership`: `Spec => []RestorerOwnsResource`
- `Once`: `Spec => []NotTwice`
- `NeverOlder`: `Spec => []NeverOlderArchive`
- `Refinement`: `Spec => ImplementsLifecycle`

*The argument.* The parts about copies, keys and steps are those of `SnapshotController`. `NotTwice`
needs that what was begun is past *InQueue* for ever (`BegunIsPast`): the only way to begin is an
accepted update of a stored *InQueue*, a version no copy has twice. `NeverOlderArchive` needs that from
the lookup on neither the Snapshot nor its file is an older one (`LookedUpFits`), and that holds
because a *Completed* Snapshot has its own file or none (`FilesFit`), and files only get newer or go.
`StepsFit` carries both numbers from the worker's stack to the stored status.
The refinement maps the stored phase, and the worker of a name to its stage (`StageOf`); that the
worker is unique (`OneWorkerPerKey`) and its resource *InProgress* makes each write one step of
`RestoreLifecycle`.

`ClusterRestore_proofs` proves, for any archives of any finite size, any preferences, targets and
number of calls (assumptions: `PreferenceAssumption`, `RestoreAssumption`: an archive has one file
for each resource, files have an order, cluster-scoped resources have no namespace):

- `TypeCorrect`: `Spec => []TypeOK`
- `Accounting`: `Spec => []EveryItemCounted`
- `VolumeBeforeClaim`: `Spec => []ClaimAfterVolume`
- `Exclusion`: `Spec => []NothingExcluded`
- `Together`: `Spec => []GoTogether`
- `Pairing`: `Spec => []ReboundInPairs`
- `Whole`: `Spec => []WholeArchive`
- `Clean`: `Spec => []DoneLeavesNothing`
- `Termination`: `Spec => StepsRunOut`
- `GoesOn`: `Spec => [](\A r \in Restores : pc[r] \notin {"done", "failed"} => CanGoOn(r))`
- `NoEndlessDescent`: `IsWellFoundedOn(Descent, Measures) /\ (Spec => [](\A r \in Restores : Left(r) \in Measures))`
- `Selection`: `Spec => []TriesWhatIsSelected`
- `SelectionShrinks`: `Stricter(q, p)` implies `Selected(q, a) \subseteq Selected(p, a)`, for any `a`
- `Strictness`: `Spec => []StricterTriesLess`
- `AccountRefinement`: `Spec => KeepsAccount`

*The argument.* Calls share the cluster and the file, but each keeps its own account, so `IndInv` is
one `CallInv` for each call, and steps of others leave it alone. The archive is
sorted once and as a whole (`ExtractedFirst`); what is left to do is of the current pass
(`TodoOfPass`). Between a volume and its claim the claim is still the first of `todo`
(`VolumeFirst`): the code keeps it in a variable, the model finds it again because file names are
unique. `ByTheRules` says which rule put an item into its list, and the exclusion properties follow from it and
the rules alone. For the account, what is pending, counted or passed over is the
whole archive at any time (`Accounted`), and no item goes into two lists (`CountedOnce`) because what is
counted is not pending any more.
For `ReboundInPairs` the invariant is `PairsInv`, again one part for each call (`CallPairs`). A call has
waited for every claim it has created but the last (`WaitedFor`), so when that one is created one
volume at most is free, and it is its own. The exception is a claim that could not be created: its
volume stays free, and the next claim may get it (`Crossed`). Then that call waits for a volume
nobody claims and fails, and `Undisturbed` is false of it. TLC checked `PairsInv` on the instance of `cluster_restore` first.
`Termination` compares the step, the items left, the place in the
turn and the looks left, in this order. `GoesOn` is its counterpart: `CanGoOn` writes out what the
guards of the steps ask for. That the items left have a first needs that `Rank` has no infinite
descent (`SomeFirst`), and that a claim waited for still names its volume is `VolumeFirst`.
`NoEndlessDescent` closes the argument: the lexicographic order of four naturals is well-founded and a
call's measure is in it, so by the three theorems each call returns after finitely many steps of its own.

`Selected` says in one formula, without passes, what a preference takes from an archive; that the
passes come to the same is `Selection`. Its invariant `SelectInv` is needed beside `IndInv`, because
in between a volume and its claim the call must know that this claim was selected, and because at
the end a volume that was not tried must belong to a claim that was not either. The rest is the account:
what is not tried is excluded, or a claim passed over with a volume that existed or failed, for
names of volumes are unique in an archive (`OneName`). `SelectionShrinks` is not obvious: Endpoints are
restored *because* their Service is not, and a role because a binding is. It holds because a
Service has the namespace of its Endpoints, so to exclude it by its namespace excludes both
(`StricterLeavesOut`), and because both directories are looked at, so it does not matter
which items are applications. It is false of `excludeApiPathes`: to exclude a Service by its path
restores its Endpoints, hence `Stricter` compares preferences with the same paths.
`StepCounts` says what any step does to the account of its call; `AccountRefinement` maps such a step to
`Try`, `Succeed`, `GiveUp` or a stutter, and "done" to `Succeed` by `TriesWhatIsSelected` of the
next state.

Only model-checked: liveness under fairness, and `NeverStuck` as the run states it: `ENABLED` is out of the
prover's reach. `GoesOn` proves what the guards ask for, that they enable the step is what TLC checks.

## 6. Not modelled

- Layout of archives, discovery, the texts of API paths, credentials, logging, events: constants or
  left out, no property is about them.
- `ConfigMap` contents, namespaces of `ServiceAccount`s in bindings beyond their names.
- A storage class that provisions new volumes for a claim: the cluster binds only volumes that are there.
- Start-up checks of namespace and buckets (`controller.go:165-213`, `ChkBucket`, `CreateBucket`): the process exits
  when one fails, and nothing else runs yet. Sessions, flags, signals.
- `ListObjects` without continuation, two controllers at once, recovered Snapshots with edited
  expirations: see the hazards. The first needs a bucket of more than 1000 files, the second a second
  informer and queue over the same store, each beyond what an instance of this size can show.
- Generated code under `pkg/client`, and `versioned_object_tracker.go`, a test double.

## 7. Plan

1. *(done)* `SnapshotStore`, `SnapshotController`, `SnapshotLifecycle`, `ObjectSyncer`, their
   runs, findings and the proof of `IndInv`; `ClusterSnapshot` with its runs and proofs.
2. *(done)* `RestoreController` and `RestoreLifecycle`, with safety, liveness, refinement and proofs.
3. *(done)* `RestorePreference` and `ClusterRestore`, with their runs and proofs.
4. A page size for `ListBucket`; expirations of recovered Snapshots; a second controller.
5. *(done)* Proofs: `CompletedIsStored` beside the syncer, `ReboundInPairs`, `GoesOn`.
6. *(done)* Proofs: the rules of `RestorePreference` together (`SelectionShrinks`), what the passes make of
   them (`Selection`), the refinement of `RestoreAccount`, `NoEndlessDescent`.

## 8. Running

    tlc -workers 2 -config SnapshotController_safety.cfg MCSnapshotController.tla
    tlc -workers 2 -config ClusterRestore_safety.cfg MCClusterRestore.tla
    tlapm RestoreController_proofs.tla

Each run takes a few minutes at most, a claim a few seconds, the proofs of a module several minutes.
A `X_name.cfg` belongs to `MCX.tla`, those of the claims to the `MC` module `PROJECT.json` names.
