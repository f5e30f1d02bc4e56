--------------------------- MODULE ClusterSnapshot ---------------------------
(***************************************************************************)
(* One call of SnapshotWithClient (pkg/cluster/snapshot.go): every kind of *)
(* resource is listed and then watched from a first marker's version on; a *)
(* goroutine for each watch appends the events to one slice; the events    *)
(* older than a second marker are replayed over the lists, by version.     *)
(*                                                                         *)
(* The target cluster is its history: history[v] is the change that made   *)
(* version v, and now is every resource as it stands then. A copy of a     *)
(* resource is the version that wrote it, and 0 stands for no copy, so an  *)
(* event is the version it brings.                                         *)
(***************************************************************************)
EXTENDS Integers, Sequences

CONSTANTS
  Paths,      \* API paths of the resources, one for each group version
  Marker,     \* the path of the marker, a ConfigMap of a random name
  Kinds,      \* resource kinds but nodes and events
  Resources,  \* the kinds in the order discovery gives them
  KindOf,     \* the kind of each path
  NoPath, NoEvent, NotRead,
  MaxVersion  \* bound: the users of the cluster write no later version

ASSUME ResourcesAssumption ==
  /\ Resources \in Seq(Kinds)
  /\ \A k \in Kinds : \E n \in DOMAIN Resources : Resources[n] = k
  /\ \A m, n \in DOMAIN Resources : Resources[m] = Resources[n] => m = n
  /\ KindOf \in [Paths -> Kinds]
  /\ Marker \in Paths

ASSUME NothingAssumption ==
  /\ NoPath \notin Paths
  /\ NotRead \notin Seq(Nat)
  /\ NoEvent \notin [event : Nat, base : Seq(Nat) \cup {NotRead}]

VARIABLES
  history,   \* the changes of the target cluster
  pc,        \* the next call of SnapshotWithClient
  taken,     \* how many kinds are listed and watched
  startRV, endRV,
  list,      \* snapshotList: the version held of each path
  listedAt,  \* the version each kind was listed at (history variable)
  watches,   \* eventsWatch
  cursor,    \* the last version each watch has brought
  held,      \* the event each goroutine is appending
  events,    \* watchEventList
  raced,     \* two appends overlapped (history variable)
  synced     \* how many events are replayed

vars == <<history, pc, taken, startRV, endRV, list, listedAt, watches, cursor,
          held, events, raced, synced>>

watching == <<watches, cursor, held, events, raced>>

\*---------------------------------------------------------------------------
\* The target cluster

Change == [path : Paths \cup {NoPath}, type : {"Found", "Added", "Modified", "Deleted"},
           now : [Paths -> Nat]]

Version == Len(history)

At(v) == history[v].now

Changed(p, type) ==
  Append(history,
    [path |-> p, type |-> type,
     now |-> [At(Version) EXCEPT ![p] = IF type = "Deleted" THEN 0 ELSE Version + 1]])

\* Somebody creates, updates or deletes a resource.
Write(p, type) ==
  /\ Version < MaxVersion
  /\ p # Marker
  /\ type = "Added" <=> At(Version)[p] = 0
  /\ history' = Changed(p, type)
  /\ UNCHANGED <<pc, taken, startRV, endRV, list, listedAt, synced, watching>>

\*---------------------------------------------------------------------------
\* The watch goroutines

\* What the watch of a kind has yet to bring.
Pending(k) == {r \in cursor[k] + 1 .. Version : KindOf[history[r].path] = k}

\* The goroutine receives the next event of its watch.
Receive(k) ==
  /\ watches[k] = "open"
  /\ held[k] = NoEvent
  /\ \E r \in Pending(k) :
       /\ \A q \in Pending(k) : r <= q
       /\ cursor' = [cursor EXCEPT ![k] = r]
       /\ held'   = [held EXCEPT ![k] = [event |-> r, base |-> NotRead]]
  /\ UNCHANGED <<history, pc, taken, startRV, endRV, list, listedAt, synced, watches, events, raced>>

\* append reads the slice all goroutines share ...
ReadEvents(k) ==
  /\ held[k] # NoEvent
  /\ held[k].base = NotRead
  /\ held' = [held EXCEPT ![k].base = events]
  /\ UNCHANGED <<history, pc, taken, startRV, endRV, list, listedAt, synced,
                 watches, cursor, events, raced>>

\* What append finds in front of its element when others have appended since
\* it read: as it was then, or, in the same array, what they have written.
Fronts(base) ==
  {base, [n \in DOMAIN base |-> IF n \in DOMAIN events THEN events[n] ELSE base[n]]}

\* ... and assigns it with one element more. Nothing synchronises the
\* goroutines: what others have appended meanwhile is lost.
AppendEvent(k) ==
  /\ held[k] # NoEvent
  /\ held[k].base # NotRead
  /\ \E front \in Fronts(held[k].base) : events' = Append(front, held[k].event)
  /\ raced' = (raced \/ events # held[k].base)
  /\ held'  = [held EXCEPT ![k] = NoEvent]
  /\ UNCHANGED <<history, pc, taken, startRV, endRV, list, listedAt, synced, watches, cursor>>

\* The API server ends a watch: on its timeout, or with an error event, which
\* is no resource and is skipped by the replay. Nobody watches again.
WatchEnds(k) ==
  /\ watches[k] = "open"
  /\ watches' = [watches EXCEPT ![k] = "stopped"]
  /\ UNCHANGED <<history, pc, taken, startRV, endRV, list, listedAt, synced,
                 cursor, held, events, raced>>

\*---------------------------------------------------------------------------
\* SnapshotWithClient

StopNoWatch == watches   \* mutant: the watches are left running

StopWatch == [k \in Kinds |-> IF watches[k] = "open" THEN "stopped" ELSE watches[k]]

\* An error is returned; the deferred stopWatch runs.
Abort ==
  /\ pc' = "failed"
  /\ watches' = StopWatch

AfterCall == [mark |-> "unmark", unmark |-> "list", markEnd |-> "unmarkEnd", unmarkEnd |-> "stop"]

\* ConfigMapMarker creates the marker, whose version is the one it returns; a
\* lost reply is an error.
CreateMarker ==
  /\ pc \in {"mark", "markEnd"}
  /\ history' = Changed(Marker, "Added")
  /\ \/ /\ pc' = AfterCall[pc]
        /\ startRV' = IF pc = "mark" THEN Version + 1 ELSE startRV
        /\ endRV'   = IF pc = "mark" THEN endRV ELSE Version + 1
        /\ UNCHANGED watches
     \/ Abort /\ UNCHANGED <<startRV, endRV>>
  /\ UNCHANGED <<taken, list, listedAt, synced, cursor, held, events, raced>>

\* ... and deletes it.
DeleteMarker ==
  /\ pc \in {"unmark", "unmarkEnd"}
  /\ history' = Changed(Marker, "Deleted")
  /\ \/ pc' = AfterCall[pc] /\ UNCHANGED watches
     \/ Abort
  /\ UNCHANGED <<taken, startRV, endRV, list, listedAt, synced, cursor, held, events, raced>>

Listing == Resources[taken + 1]

List ==
  /\ pc = "list"
  /\ list' = [p \in Paths |-> IF KindOf[p] = Listing THEN At(Version)[p] ELSE list[p]]
  /\ listedAt' = [listedAt EXCEPT ![Listing] = Version]
  /\ pc' = "watch"
  /\ UNCHANGED <<history, taken, startRV, endRV, synced, watching>>

\* The watch begins before the list, at the first marker's version.
WatchFromNow == Version  \* mutant: the watch brings only what is still to come

WatchFrom == startRV

Watch ==
  /\ pc = "watch"
  /\ watches' = [watches EXCEPT ![Listing] = "open"]
  /\ cursor'  = [cursor EXCEPT ![Listing] = WatchFrom]
  /\ taken' = taken + 1
  /\ pc' = IF taken + 1 = Len(Resources) THEN "markEnd" ELSE "list"
  /\ UNCHANGED <<history, startRV, endRV, list, listedAt, synced, held, events, raced>>

\* Any call to the cluster is refused or fails on its way; writing the
\* archive, once the events are replayed, may fail as well.
CallFails ==
  /\ \/ pc \in DOMAIN AfterCall \cup {"list", "watch"}
     \/ pc = "sync" /\ synced = Len(events)
  /\ Abort
  /\ UNCHANGED <<history, taken, startRV, endRV, list, listedAt, synced, cursor, held, events, raced>>

\* The watches are stopped as soon as the second marker is there, whatever
\* they have still to bring.
Stop ==
  /\ pc = "stop"
  /\ watches' = StopWatch
  /\ pc' = "drain"
  /\ UNCHANGED <<history, taken, startRV, endRV, list, listedAt, synced, cursor, held, events, raced>>

\* Three seconds let the goroutines finish.
Drained ==
  /\ pc = "drain"
  /\ \A k \in Kinds : held[k] = NoEvent
  /\ pc' = "sync"
  /\ UNCHANGED <<history, taken, startRV, endRV, list, listedAt, synced, watching>>

IsNotNewer(rv, refrv) == rv <= refrv    \* mutant: the second marker itself is replayed

IsOlder(rv, refrv) == rv < refrv

IsOther(rv, refrv) == rv # refrv        \* mutant: older copies replace newer ones

IsNewer(rv, refrv) == rv > refrv

\* The list after an event: one that is not older than the second marker, or
\* not newer than the copy held, changes nothing.
Replayed(e) ==
  LET p == history[e].path IN
    IF IsOlder(e, endRV) /\ IsNewer(e, list[p])
    THEN [list EXCEPT ![p] = IF history[e].type = "Deleted" THEN 0 ELSE e]
    ELSE list

Sync ==
  /\ pc = "sync"
  /\ synced < Len(events)
  /\ list' = Replayed(events[synced + 1])
  /\ synced' = synced + 1
  /\ UNCHANGED <<history, pc, taken, startRV, endRV, listedAt, watching>>

\* What is held is written to the archive, and endRV to the status.
Archive ==
  /\ pc = "sync"
  /\ synced = Len(events)
  /\ pc' = "done"
  /\ UNCHANGED <<history, taken, startRV, endRV, list, listedAt, synced, watching>>

\*---------------------------------------------------------------------------

Init ==
  /\ \E found \in SUBSET (Paths \ {Marker}) :
       history = <<[path |-> NoPath, type |-> "Found",
                    now |-> [p \in Paths |-> IF p \in found THEN 1 ELSE 0]]>>
  /\ pc = "mark"
  /\ taken = 0
  /\ startRV = 0
  /\ endRV = 0
  /\ list = [p \in Paths |-> 0]
  /\ listedAt = [k \in Kinds |-> 0]
  /\ watches  = [k \in Kinds |-> "none"]
  /\ cursor   = [k \in Kinds |-> 0]
  /\ held     = [k \in Kinds |-> NoEvent]
  /\ events = <<>>
  /\ raced = FALSE
  /\ synced = 0

Goroutine(k) == Receive(k) \/ ReadEvents(k) \/ AppendEvent(k) \/ WatchEnds(k)

Main ==
  \/ CreateMarker \/ DeleteMarker \/ List \/ Watch \/ CallFails
  \/ Stop \/ Drained \/ Sync \/ Archive

Next ==
  \/ \E p \in Paths, type \in {"Added", "Modified", "Deleted"} : Write(p, type)
  \/ \E k \in Kinds : Goroutine(k)
  \/ Main

Spec == Init /\ [][Next]_vars

\*---------------------------------------------------------------------------
\* Properties

\* Type invariant. Once the call is over no watch it opened is left running
\* (stopWatch, deferred for the "goroutine gc").
TypeOK ==
  /\ history \in Seq(Change) \ {<<>>}
  /\ pc \in DOMAIN AfterCall \cup {"list", "watch", "stop", "drain", "sync", "done", "failed"}
  /\ taken \in 0 .. Len(Resources)
  /\ {startRV, endRV, synced} \subseteq Nat
  /\ list \in [Paths -> Nat]
  /\ listedAt \in [Kinds -> Nat]
  /\ watches \in [Kinds -> {"none", "open", "stopped"}]
  /\ cursor \in [Kinds -> Nat]
  /\ held \in [Kinds -> [event : Nat, base : Seq(Nat) \cup {NotRead}] \cup {NoEvent}]
  /\ events \in Seq(Nat)
  /\ raced \in BOOLEAN
  /\ pc \in {"drain", "sync", "done", "failed"} => \A k \in Kinds : watches[k] # "open"

\* The archive is never older than the call nor newer than the version it is
\* said to be of: whatever events come late, are lost or race, each path is
\* archived as it stood at some version between the two markers, and the
\* markers themselves are not archived.
OfTheWindow ==
  pc = "done" =>
    \A p \in Paths : \E v \in startRV + 1 .. endRV - 1 : list[p] = At(v)[p]

\* The replay never takes a listed resource back: what the list had is
\* archived as it stood at the listing or later, although the watch brings
\* its earlier changes again and may not bring its later ones.
NotBeforeListing ==
  pc = "done" /\ ~raced =>
    \A p \in Paths :
      LET at == listedAt[KindOf[p]] IN
        At(at)[p] # 0 => \E v \in at .. endRV - 1 : list[p] = At(v)[p]

\* Every watch has brought all there was before the second marker, and no two
\* appends overlapped.
Heard ==
  /\ ~raced
  /\ \A k \in Kinds : \A r \in Pending(k) : endRV <= r

\* When nothing was missed, lists read at different times and events replayed
\* over them come to the cluster at one version, the one the status names.
ExactWhenHeard ==
  pc = "done" /\ Heard => list = At(endRV - 1)

\* "K8s ResourceVersion on which resources in snapshot synced": the archive is
\* the cluster at that version. It is not when the watches are stopped, or
\* end, before they have brought every event. (Expected to be violated.)
SyncedAtVersion ==
  pc = "done" => list = At(endRV - 1)

\*---------------------------------------------------------------------------
\* The inductive invariant behind the properties

\* No change of p after v up to w.
Still(p, v, w) == \A q \in v + 1 .. w : history[q].path # p

\* What the history says of a path at two versions.
HistoryInv ==
  /\ \A v \in 2 .. Version :
       /\ history[v].path \in Paths
       /\ At(v)[history[v].path] = IF history[v].type = "Deleted" THEN 0 ELSE v
  /\ \A p \in Paths : \A v \in 1 .. Version :
       /\ At(v)[p] <= v
       /\ At(v)[p] # 0 => Still(p, At(v)[p], v)
  /\ \A p \in Paths : \A w \in 1 .. Version : \A v \in 1 .. w :
       IF Still(p, v, w)
       THEN At(w)[p] = At(v)[p]
       ELSE \E q \in v + 1 .. w : history[q].path = p /\ Still(p, q, w)

\* How far the call is, and the order of the versions it has seen.
ProgressInv ==
  /\ pc = "mark" => startRV = 0
  /\ startRV = 0 =>
       /\ pc \in {"mark", "failed"}
       /\ taken = 0
       /\ events = <<>>
       /\ \A k \in Kinds : watches[k] = "none" /\ listedAt[k] = 0
  /\ startRV # 0 => startRV \in 2 .. Version
  /\ pc \in {"list", "watch"} => startRV < Version
  /\ pc \in {"unmark", "list", "watch"} => taken < Len(Resources)
  /\ pc = "watch" => listedAt[Listing] # 0
  /\ pc \in {"markEnd", "unmarkEnd", "stop", "drain", "sync", "done"} => taken = Len(Resources)
  /\ pc \in {"unmarkEnd", "stop", "drain", "sync", "done"} =>
       endRV <= Version /\ \A k \in Kinds : listedAt[k] < endRV
  /\ \A n \in DOMAIN Resources :
       /\ n <= taken => listedAt[Resources[n]] # 0
       /\ n <= taken <=> watches[Resources[n]] # "none"
  /\ \A k \in Kinds : listedAt[k] # 0 => listedAt[k] \in startRV + 1 .. Version

\* Until the replay a kind that is listed is held as it was listed.
ListInv ==
  pc \notin {"sync", "done", "failed"} =>
    /\ synced = 0
    /\ \A p \in Paths : listedAt[KindOf[p]] # 0 => list[p] = At(listedAt[KindOf[p]])[p]

\* The kind of an event.
Of(e) == KindOf[history[e].path]

\* Every event, appended, held or overwritten, comes after the first marker.
EventsInv ==
  /\ \A k \in Kinds : watches[k] # "none" => cursor[k] \in startRV .. Version
  /\ \A n \in DOMAIN events : events[n] \in startRV + 1 .. Version
  /\ \A k \in Kinds : held[k] # NoEvent =>
       /\ watches[k] # "none"
       /\ held[k].event = cursor[k]
       /\ cursor[k] > startRV
       /\ Of(cursor[k]) = k
       /\ held[k].base # NotRead =>
            \A n \in DOMAIN held[k].base : held[k].base[n] \in startRV + 1 .. Version

\* While no appends have overlapped, the slice has every event the watches
\* have brought, those of a kind in their order.
OrderInv ==
  ~raced =>
    /\ \A n \in DOMAIN events :
         /\ watches[Of(events[n])] # "none"
         /\ events[n] <= cursor[Of(events[n])]
         /\ held[Of(events[n])] # NoEvent => events[n] < cursor[Of(events[n])]
    /\ \A m, n \in DOMAIN events :
         m < n /\ Of(events[m]) = Of(events[n]) => events[m] < events[n]
    /\ \A k \in Kinds : watches[k] # "none" =>
         \A r \in startRV + 1 .. cursor[k] : Of(r) = k =>
           \/ \E n \in DOMAIN events : events[n] = r
           \/ held[k] # NoEvent /\ cursor[k] = r

\* A path as it stood in the window.
InWindow(p) == \E v \in startRV + 1 .. endRV - 1 : list[p] = At(v)[p]

\* A path that was listed is held as listed or as a later event brought it.
NotBack(p) ==
  LET at == listedAt[KindOf[p]] IN
    At(at)[p] # 0 =>
      \/ list[p] = At(at)[p]
      \/ \E n \in 1 .. synced :
           /\ events[n] \in at + 1 .. endRV - 1
           /\ history[events[n]].path = p
           /\ list[p] = At(events[n])[p]

\* Nothing held is newer than the last change before the second marker, and
\* once this is replayed it is what is held.
Converging(p) ==
  /\ Still(p, startRV + 1, endRV - 1) => list[p] = At(endRV - 1)[p]
  /\ \A r \in startRV + 2 .. endRV - 1 :
       history[r].path = p /\ Still(p, r, endRV - 1) =>
         /\ list[p] <= r
         /\ list[p] = r => At(r)[p] = r
         /\ (\E n \in 1 .. synced : events[n] = r) => list[p] = At(r)[p]

ReplayInv ==
  pc \in {"sync", "done"} =>
    /\ synced <= Len(events)
    /\ pc = "done" => synced = Len(events)
    /\ \A k \in Kinds : held[k] = NoEvent
    /\ \A p \in Paths : InWindow(p)
    /\ ~raced => \A p \in Paths : NotBack(p) /\ Converging(p)

IndInv ==
  /\ TypeOK /\ HistoryInv /\ ProgressInv /\ ListInv /\ EventsInv /\ OrderInv /\ ReplayInv
==============================================================================
