------------------------ MODULE ClusterSnapshot_proofs ------------------------
(***************************************************************************)
(* Proofs about ClusterSnapshot, for any resources, kinds and histories:   *)
(* the archive is of the window between the markers, listed resources are  *)
(* not taken back, and it is exact when no event was missed.               *)
(***************************************************************************)
EXTENDS ClusterSnapshot, TLAPS

\* There is a kind, that of the marker, so there is something to list.
LEMMA SomeResource ==
  /\ Len(Resources) \in Nat \ {0}
  /\ \A n \in 1 .. Len(Resources) : Resources[n] \in Kinds
  /\ DOMAIN Resources = 1 .. Len(Resources)
<1>1. KindOf[Marker] \in Kinds
  BY ResourcesAssumption
<1>2. PICK n \in DOMAIN Resources : Resources[n] = KindOf[Marker]
  BY <1>1, ResourcesAssumption
<1>3. Resources \in Seq(Kinds)
  BY ResourcesAssumption
<1> QED
  BY <1>2, <1>3

\* A change adds one version and leaves the earlier ones.
LEMMA ChangedAdds ==
  ASSUME history \in Seq(Change) \ {<<>>},
         NEW p \in Paths, NEW type \in {"Added", "Modified", "Deleted"}
  PROVE  /\ Changed(p, type) \in Seq(Change) \ {<<>>}
         /\ Len(Changed(p, type)) = Version + 1
         /\ Version \in Nat \ {0}
         /\ \A v \in 1 .. Version : Changed(p, type)[v] = history[v]
         /\ Changed(p, type)[Version + 1] =
              [path |-> p, type |-> type,
               now |-> [At(Version) EXCEPT ![p] = IF type = "Deleted" THEN 0 ELSE Version + 1]]
<1> DEFINE new == [path |-> p, type |-> type,
                   now |-> [At(Version) EXCEPT ![p] = IF type = "Deleted" THEN 0 ELSE Version + 1]]
<1>1. Version \in Nat \ {0}
  BY DEF Version
<1>2. At(Version) \in [Paths -> Nat]
  <2>1. history[Version] \in Change
    BY <1>1 DEF Version
  <2> QED
    BY <2>1 DEF At, Change
<1>3. new \in Change
  BY <1>1, <1>2 DEF Change
<1>4. Changed(p, type) = Append(history, new)
  BY DEF Changed
<1> HIDE DEF new
<1>5. /\ Append(history, new) \in Seq(Change)
      /\ Len(Append(history, new)) = Len(history) + 1
      /\ \A v \in 1 .. Len(history) : Append(history, new)[v] = history[v]
      /\ Append(history, new)[Len(history) + 1] = new
  BY <1>3
<1>6. Append(history, new) # <<>>
  BY <1>5, <1>1 DEF Version
<1> QED
  BY <1>1, <1>4, <1>5, <1>6 DEF Version, new

\* What stands at a version of the history, and who changed what.
LEMMA HistoryFacts ==
  ASSUME TypeOK
  PROVE  /\ Version \in Nat \ {0}
         /\ \A v \in 1 .. Version :
              /\ history[v].path \in Paths \cup {NoPath}
              /\ history[v].type \in {"Found", "Added", "Modified", "Deleted"}
              /\ At(v) \in [Paths -> Nat]
<1>1. history \in Seq(Change) \ {<<>>}
  BY DEF TypeOK
<1>2. Version \in Nat \ {0}
  BY <1>1 DEF Version
<1>3. \A v \in 1 .. Version : history[v] \in Change
  BY <1>1 DEF Version
<1> QED
  BY <1>2, <1>3 DEF Change, At

\* The earlier versions stay as they are.
Grown ==
  /\ Version' \in Nat /\ Version <= Version'
  /\ \A v \in 1 .. Version : history'[v] = history[v] /\ At(v)' = At(v)

-----------------------------------------------------------------------------
(* The history                                                             *)

\* A change keeps what the history says of every path.
LEMMA HistoryChange ==
  ASSUME TypeOK, HistoryInv, NEW p \in Paths, NEW type \in {"Added", "Modified", "Deleted"},
         history' = Changed(p, type)
  PROVE  HistoryInv' /\ Grown
<1>00. PICK V \in Nat \ {0} : V = Version
  BY HistoryFacts
<1>0. /\ V \in Nat \ {0}
      /\ \A v \in 1 .. V : At(v) \in [Paths -> Nat]
  BY <1>00, HistoryFacts
<1>1. /\ Version' = V + 1
      /\ \A v \in 1 .. V : history'[v] = history[v]
      /\ history'[V + 1] =
            [path |-> p, type |-> type,
             now |-> [At(V) EXCEPT ![p] = IF type = "Deleted" THEN 0 ELSE V + 1]]
  <2>1. history \in Seq(Change) \ {<<>>}
    BY DEF TypeOK
  <2>2. /\ Len(Changed(p, type)) = V + 1
        /\ \A v \in 1 .. V : Changed(p, type)[v] = history[v]
        /\ Changed(p, type)[V + 1] =
              [path |-> p, type |-> type,
               now |-> [At(V) EXCEPT ![p] = IF type = "Deleted" THEN 0 ELSE V + 1]]
    BY <1>00, <2>1, ChangedAdds
  <2>3. Version' = Len(history')
    BY DEF Version
  <2> QED
    BY <2>2, <2>3
<1>2. \A v \in 1 .. V : At(v)' = At(v)
  BY <1>1 DEF At
<1>3. /\ At(V + 1)'[p] = IF type = "Deleted" THEN 0 ELSE V + 1
      /\ \A x \in Paths : x # p => At(V + 1)'[x] = At(V)[x]
  BY <1>0, <1>1 DEF At
<1>4. history'[V + 1].path = p /\ history'[V + 1].type = type
  BY <1>1
<1>5. \A x \in Paths, v \in 0 .. V, w \in 1 .. V : Still(x, v, w)' <=> Still(x, v, w)
  BY <1>0, <1>1 DEF Still
<1>6. \A x \in Paths, v \in 0 .. V : Still(x, v, V + 1)' <=> x # p /\ Still(x, v, V)
  <2> SUFFICES ASSUME NEW x \in Paths, NEW v \in 0 .. V
               PROVE  Still(x, v, V + 1)' <=> x # p /\ Still(x, v, V)
    OBVIOUS
  <2>1. \A q \in v + 1 .. V + 1 : q \in v + 1 .. V \/ q = V + 1
    BY <1>0
  <2>2. \A q \in v + 1 .. V : q \in v + 1 .. V + 1 /\ q \in 1 .. V
    BY <1>0
  <2>3. V + 1 \in v + 1 .. V + 1
    BY <1>0
  <2> QED
    BY <2>1, <2>2, <2>3, <1>1, <1>4 DEF Still
<1>7. \A v \in 2 .. V + 1 :
        /\ history'[v].path \in Paths
        /\ At(v)'[history'[v].path] = IF history'[v].type = "Deleted" THEN 0 ELSE v
  <2> SUFFICES ASSUME NEW v \in 2 .. V + 1
               PROVE  /\ history'[v].path \in Paths
                      /\ At(v)'[history'[v].path] = IF history'[v].type = "Deleted" THEN 0 ELSE v
    OBVIOUS
  <2>1. CASE v = V + 1
    BY <2>1, <1>3, <1>4
  <2>2. CASE v \in 2 .. V
    BY <2>2, <1>0, <1>1, <1>2, <1>00 DEF HistoryInv
  <2> QED
    BY <2>1, <2>2, <1>0
<1>8. \A x \in Paths : \A v \in 1 .. V + 1 :
        /\ At(v)'[x] <= v
        /\ At(v)'[x] # 0 => Still(x, At(v)[x], v)'
  <2> SUFFICES ASSUME NEW x \in Paths, NEW v \in 1 .. V + 1
               PROVE  At(v)'[x] <= v /\ (At(v)'[x] # 0 => Still(x, At(v)[x], v)')
    OBVIOUS
  <2>0. \A u \in 1 .. V : At(u)[x] \in 0 .. V /\ At(u)[x] <= u /\ (At(u)[x] # 0 => Still(x, At(u)[x], u))
    BY <1>0, <1>00 DEF HistoryInv
  <2>1. CASE v \in 1 .. V
    BY <2>0, <2>1, <1>2, <1>5 
  <2>2. CASE v = V + 1 /\ x # p
    <3>1. At(v)'[x] = At(V)[x]
      BY <2>2, <1>3
    <3>2. V \in 1 .. V
      BY <1>0
    <3> QED
      BY <3>1, <3>2, <2>0, <2>2, <1>6, <1>0
  <2>3. CASE v = V + 1 /\ x = p
    <3>1. At(v)'[x] = 0 \/ At(v)'[x] = V + 1
      BY <2>3, <1>3
    <3>2. Still(x, V + 1, V + 1)'
      BY <1>0 DEF Still
    <3> QED
      BY <3>1, <3>2, <2>3, <1>0
  <2> QED
    BY <2>1, <2>2, <2>3, <1>0
<1>9. \A x \in Paths : \A w \in 1 .. V + 1 : \A v \in 1 .. w :
        IF Still(x, v, w)'
        THEN At(w)'[x] = At(v)'[x]
        ELSE \E q \in v + 1 .. w : history'[q].path = x /\ Still(x, q, w)'
  <2> SUFFICES ASSUME NEW x \in Paths, NEW w \in 1 .. V + 1, NEW v \in 1 .. w
               PROVE  IF Still(x, v, w)'
                      THEN At(w)'[x] = At(v)'[x]
                      ELSE \E q \in v + 1 .. w : history'[q].path = x /\ Still(x, q, w)'
    OBVIOUS
  <2>0. \A z \in 1 .. V : \A u \in 1 .. z :
          IF Still(x, u, z)
          THEN At(z)[x] = At(u)[x]
          ELSE \E q \in u + 1 .. z : history[q].path = x /\ Still(x, q, z)
    BY <1>00 DEF HistoryInv
  <2>1. CASE w \in 1 .. V
    <3>1. v \in 1 .. V /\ \A q \in v + 1 .. w : q \in 1 .. V
      BY <2>1, <1>0
    <3> QED
      BY <3>1, <2>0, <2>1, <1>1, <1>2, <1>5, <1>0
  <2>2. CASE w = V + 1 /\ v = V + 1
    <3>1. Still(x, v, w)'
      BY <2>2, <1>0 DEF Still
    <3> QED
      BY <3>1, <2>2
  <2>3. CASE w = V + 1 /\ v \in 1 .. V /\ x = p
    <3>1. ~Still(x, v, w)'
      BY <2>3, <1>6, <1>0
    <3>2. Still(x, V + 1, w)' /\ V + 1 \in v + 1 .. w
      BY <2>3, <1>0 DEF Still
    <3> QED
      BY <3>1, <3>2, <2>3, <1>4
  <2>4. CASE w = V + 1 /\ v \in 1 .. V /\ x # p
    <3>1. Still(x, v, w)' <=> Still(x, v, V)
      BY <2>4, <1>6, <1>0
    <3>2. At(w)'[x] = At(V)[x] /\ At(v)'[x] = At(v)[x]
      BY <2>4, <1>2, <1>3
    <3>3. V \in 1 .. V /\ v \in 1 .. V
      BY <2>4, <1>0
    <3>4. CASE Still(x, v, V)
      BY <3>1, <3>2, <3>3, <3>4, <2>0
    <3>5. CASE ~Still(x, v, V)
      <4>1. PICK q \in v + 1 .. V : history[q].path = x /\ Still(x, q, V)
        BY <3>3, <3>5, <2>0
      <4>2. q \in 1 .. V /\ q \in 0 .. V /\ q \in v + 1 .. w
        BY <2>4, <1>0
      <4>3. history'[q].path = x /\ Still(x, q, w)'
        BY <4>1, <4>2, <2>4, <1>1, <1>6
      <4> QED
        BY <3>1, <3>5, <4>2, <4>3
    <3> QED
      BY <3>4, <3>5
  <2> QED
    BY <2>1, <2>2, <2>3, <2>4, <1>0
<1>10. HistoryInv'
  BY <1>1, <1>7, <1>8, <1>9, <1>00 DEF HistoryInv
<1> QED
  BY <1>10, <1>0, <1>1, <1>2, <1>00 DEF Grown

\* Every step leaves the history as it is or adds a change.
LEMMA HistoryOrChange ==
  ASSUME [Next]_vars
  PROVE  \/ history' = history
         \/ \E p \in Paths, type \in {"Added", "Modified", "Deleted"} : history' = Changed(p, type)
<1>1. Marker \in Paths
  BY ResourcesAssumption
<1>2. CASE UNCHANGED vars
  BY <1>2 DEF vars
<1>3. CASE \E p \in Paths, type \in {"Added", "Modified", "Deleted"} : Write(p, type)
  BY <1>3 DEF Write
<1>4. CASE \E k \in Kinds : Goroutine(k)
  BY <1>4 DEF Goroutine, Receive, ReadEvents, AppendEvent, WatchEnds
<1>5. CASE CreateMarker \/ DeleteMarker
  BY <1>1, <1>5 DEF CreateMarker, DeleteMarker
<1>6. CASE List \/ Watch \/ CallFails \/ Stop \/ Drained \/ Sync \/ Archive
  BY <1>6 DEF List, Watch, CallFails, Stop, Drained, Sync, Archive
<1> QED
  BY <1>2, <1>3, <1>4, <1>5, <1>6 DEF Next, Main

\* HistoryInv is inductive, and every step is past what was past.
LEMMA HistoryStep ==
  ASSUME TypeOK, HistoryInv, [Next]_vars
  PROVE  HistoryInv' /\ Grown
<1>1. CASE history' = history
  <2>1. /\ Version' = Version
        /\ \A v \in 1 .. Version : At(v)' = At(v)
    BY <1>1 DEF Version, At
  <2>2. HistoryInv'
    BY <1>1 DEF HistoryInv, Version, At, Still
  <2>3. Version \in Nat
    BY HistoryFacts
  <2> QED
    BY <1>1, <2>1, <2>2, <2>3 DEF Grown
<1>2. CASE \E p \in Paths, type \in {"Added", "Modified", "Deleted"} : history' = Changed(p, type)
  BY <1>2, HistoryChange
<1> QED
  BY <1>1, <1>2, HistoryOrChange

-----------------------------------------------------------------------------
(* Types                                                                   *)

\* The kind listed next is a kind.
LEMMA ListingKind ==
  ASSUME TypeOK, taken < Len(Resources)
  PROVE  Listing \in Kinds /\ taken + 1 \in DOMAIN Resources
<1>1. taken + 1 \in 1 .. Len(Resources)
  BY SomeResource DEF TypeOK
<1> QED
  BY <1>1, SomeResource DEF Listing

\* What append assigns is a sequence of versions.
LEMMA FrontType ==
  ASSUME TypeOK, NEW base \in Seq(Nat), NEW front \in Fronts(base)
  PROVE  /\ front \in Seq(Nat)
         /\ Len(front) = Len(base)
         /\ \A n \in 1 .. Len(front) :
              \/ n \in 1 .. Len(base) /\ front[n] = base[n]
              \/ n \in 1 .. Len(events) /\ front[n] = events[n]
<1>1. events \in Seq(Nat)
  BY DEF TypeOK
<1>2. CASE front = base
  BY <1>2
<1>3. CASE front = [n \in DOMAIN base |-> IF n \in DOMAIN events THEN events[n] ELSE base[n]]
  <2>1. \A n \in 1 .. Len(base) : base[n] \in Nat /\ (n \in DOMAIN events => events[n] \in Nat)
    BY <1>1
  <2>2. front \in [1 .. Len(base) -> Nat]
    BY <2>1, <1>3
  <2>3. front \in Seq(Nat) /\ Len(front) = Len(base)
    BY <2>2
  <2>4. \A n \in 1 .. Len(base) : front[n] = IF n \in DOMAIN events THEN events[n] ELSE base[n]
    BY <1>3
  <2>5. DOMAIN events = 1 .. Len(events)
    BY <1>1
  <2> QED
    BY <2>3, <2>4, <2>5
<1> QED
  BY <1>2, <1>3 DEF Fronts

\* Every step keeps the types.
LEMMA TypeStep ==
  ASSUME TypeOK, ProgressInv, EventsInv, [Next]_vars
  PROVE  TypeOK'
<1> DEFINE Held == [event : Nat, base : Seq(Nat) \cup {NotRead}] \cup {NoEvent}
<1>0. /\ Version \in Nat \ {0} /\ Len(Resources) \in Nat
      /\ history' \in Seq(Change) \ {<<>>}
  <2>1. Version \in Nat \ {0} /\ Len(Resources) \in Nat
    BY HistoryFacts, SomeResource
  <2>2. history \in Seq(Change) \ {<<>>}
    BY DEF TypeOK
  <2> QED
    BY <2>1, <2>2, HistoryOrChange, ChangedAdds
<1>1. CASE UNCHANGED vars
  BY <1>1 DEF TypeOK, vars
<1>2. ASSUME NEW p \in Paths, NEW type \in {"Added", "Modified", "Deleted"}, Write(p, type)
      PROVE  TypeOK'
  BY <1>0, <1>2 DEF Write, TypeOK, watching
<1>3. ASSUME NEW k \in Kinds, Receive(k)
      PROVE  TypeOK'
  <2>1. PICK r \in Pending(k) :
          /\ cursor' = [cursor EXCEPT ![k] = r]
          /\ held'   = [held EXCEPT ![k] = [event |-> r, base |-> NotRead]]
    BY <1>3 DEF Receive
  <2>2. r \in Nat
    BY <1>0 DEF Pending, TypeOK
  <2>3. cursor' \in [Kinds -> Nat] /\ held' \in [Kinds -> Held]
    BY <2>1, <2>2 DEF TypeOK
  <2> QED
    BY <1>0, <1>3, <2>3 DEF Receive, TypeOK
<1>4. ASSUME NEW k \in Kinds, ReadEvents(k)
      PROVE  TypeOK'
  <2>1. held[k] \in [event : Nat, base : Seq(Nat) \cup {NotRead}] /\ events \in Seq(Nat)
    BY <1>4 DEF ReadEvents, TypeOK
  <2>2. [held[k] EXCEPT !.base = events] \in [event : Nat, base : Seq(Nat) \cup {NotRead}]
    BY <2>1
  <2>3. held' \in [Kinds -> Held]
    BY <1>4, <2>2 DEF ReadEvents, TypeOK
  <2> QED
    BY <1>0, <1>4, <2>3 DEF ReadEvents, TypeOK
<1>5. ASSUME NEW k \in Kinds, AppendEvent(k)
      PROVE  TypeOK'
  <2>1. held[k].event \in Nat /\ held[k].base \in Seq(Nat)
    BY <1>5 DEF AppendEvent, TypeOK
  <2>2. events' \in Seq(Nat)
    BY <1>5, <2>1, FrontType DEF AppendEvent
  <2>3. held' \in [Kinds -> Held] /\ raced' \in BOOLEAN
    BY <1>5 DEF AppendEvent, TypeOK
  <2> QED
    BY <1>0, <1>5, <2>2, <2>3 DEF AppendEvent, TypeOK
<1>6. ASSUME NEW k \in Kinds, WatchEnds(k)
      PROVE  TypeOK'
  BY <1>0, <1>6 DEF WatchEnds, TypeOK
<1>7. /\ StopWatch \in [Kinds -> {"none", "open", "stopped"}]
      /\ \A k \in Kinds : StopWatch[k] # "open"
  BY DEF StopWatch, TypeOK
<1>8. CASE CreateMarker
  BY <1>0, <1>7, <1>8 DEF CreateMarker, Abort, AfterCall, TypeOK
<1>9. CASE DeleteMarker
  BY <1>0, <1>7, <1>9 DEF DeleteMarker, Abort, AfterCall, TypeOK
<1>10. CASE List
  <2>1. Listing \in Kinds
    BY <1>10, ListingKind DEF List, ProgressInv
  <2>2. At(Version) \in [Paths -> Nat]
    BY <1>0, HistoryFacts
  <2>3. list' \in [Paths -> Nat] /\ listedAt' \in [Kinds -> Nat]
    BY <1>0, <1>10, <2>1, <2>2 DEF List, TypeOK
  <2> QED
    BY <1>0, <1>10, <2>3 DEF List, TypeOK, watching
<1>11. CASE Watch
  <2>1. Listing \in Kinds /\ taken < Len(Resources)
    BY <1>11, ListingKind DEF Watch, ProgressInv
  <2>2. watches' \in [Kinds -> {"none", "open", "stopped"}] /\ cursor' \in [Kinds -> Nat]
    BY <1>11, <2>1 DEF Watch, WatchFrom, TypeOK
  <2>3. taken' \in 0 .. Len(Resources)
    BY <1>0, <1>11, <2>1 DEF Watch, TypeOK
  <2> QED
    BY <1>0, <1>11, <2>2, <2>3 DEF Watch, AfterCall, TypeOK
<1>12. CASE CallFails
  BY <1>0, <1>7, <1>12 DEF CallFails, Abort, TypeOK
<1>13. CASE Stop
  BY <1>0, <1>7, <1>13 DEF Stop, TypeOK
<1>14. CASE Drained \/ Archive
  BY <1>0, <1>14 DEF Drained, Archive, TypeOK, watching
<1>15. CASE Sync
  <2> DEFINE e == events[synced + 1]
  <2>1. synced + 1 \in 1 .. Len(events) /\ e \in Nat
    BY <1>15 DEF Sync, TypeOK
  <2>2. \/ list' = list
        \/ \E p, v : list' = [list EXCEPT ![p] = v] /\ v \in {0, e}
    BY <1>15 DEF Sync, Replayed
  <2>3. list' \in [Paths -> Nat]
    BY <2>1, <2>2 DEF TypeOK
  <2> QED
    BY <1>0, <1>15, <2>3, <2>1 DEF Sync, TypeOK, watching
<1> QED
  BY <1>1, <1>2, <1>3, <1>4, <1>5, <1>6, <1>8, <1>9, <1>10, <1>11, <1>12, <1>13, <1>14, <1>15
  DEF Next, Main, Goroutine

-----------------------------------------------------------------------------
(* How far the call is                                                     *)

\* Creating and deleting the marker make one version each.
LEMMA MarkerVersion ==
  ASSUME TypeOK, history' = Changed(Marker, "Added") \/ history' = Changed(Marker, "Deleted")
  PROVE  Version' = Version + 1
<1>1. history \in Seq(Change) \ {<<>>} /\ Marker \in Paths
  BY ResourcesAssumption DEF TypeOK
<1>2. Len(history') = Version + 1
  BY <1>1, ChangedAdds
<1> QED
  BY <1>2 DEF Version

\* Stopping the watches starts none and forgets none.
LEMMA StopWatchNone ==
  ASSUME TypeOK
  PROVE  \A k \in Kinds : StopWatch[k] = "none" <=> watches[k] = "none"
  BY DEF StopWatch, TypeOK

\* Steps that leave the call where it is keep ProgressInv.
LEMMA ProgressKept ==
  ASSUME TypeOK, ProgressInv, Grown,
         UNCHANGED <<pc, taken, startRV, endRV, listedAt>>,
         startRV = 0 => events' = events,
         \A k \in Kinds : watches'[k] = "none" <=> watches[k] = "none"
  PROVE  ProgressInv'
<1>1. Version \in Nat /\ Version' \in Nat /\ Version <= Version'
  BY HistoryFacts DEF Grown
<1>2. \A n \in DOMAIN Resources :
        /\ n <= taken' => listedAt'[Resources[n]] # 0
        /\ n <= taken' <=> watches'[Resources[n]] # "none"
  BY SomeResource DEF ProgressInv
<1>3. \A k \in Kinds : listedAt'[k] # 0 => listedAt'[k] \in startRV' + 1 .. Version'
  BY <1>1 DEF ProgressInv, TypeOK
<1>4. /\ startRV' # 0 => startRV' \in 2 .. Version'
      /\ pc' \in {"list", "watch"} => startRV' < Version'
  BY <1>1 DEF ProgressInv, TypeOK
<1>5. pc' \in {"unmarkEnd", "stop", "drain", "sync", "done"} =>
        endRV' <= Version' /\ \A k \in Kinds : listedAt'[k] < endRV'
  BY <1>1 DEF ProgressInv, TypeOK
<1>6. Listing' = Listing
  BY DEF Listing
<1> QED
  BY <1>2, <1>3, <1>4, <1>5, <1>6 DEF ProgressInv

\* So does an error.
LEMMA ProgressAborted ==
  ASSUME TypeOK, ProgressInv, Grown, Abort, UNCHANGED <<taken, startRV, endRV, listedAt, events>>
  PROVE  ProgressInv'
<1>1. Version \in Nat /\ Version' \in Nat /\ Version <= Version'
  BY HistoryFacts DEF Grown
<1>2. \A k \in Kinds : watches'[k] = "none" <=> watches[k] = "none"
  BY StopWatchNone DEF Abort
<1>3. \A n \in DOMAIN Resources :
        /\ n <= taken' => listedAt'[Resources[n]] # 0
        /\ n <= taken' <=> watches'[Resources[n]] # "none"
  BY <1>2, SomeResource DEF ProgressInv
<1>4. \A k \in Kinds : listedAt'[k] # 0 => listedAt'[k] \in startRV' + 1 .. Version'
  BY <1>1 DEF ProgressInv, TypeOK
<1>5. startRV' # 0 => startRV' \in 2 .. Version'
  BY <1>1 DEF ProgressInv, TypeOK
<1> QED
  BY <1>2, <1>3, <1>4, <1>5 DEF ProgressInv, Abort

\* ProgressInv is inductive.
LEMMA ProgressStep ==
  ASSUME TypeOK, ProgressInv, EventsInv, Grown, [Next]_vars
  PROVE  ProgressInv'
<1>0. /\ Version \in Nat \ {0} /\ Version' \in Nat /\ Version <= Version'
      /\ Len(Resources) \in Nat \ {0}
      /\ startRV \in Nat /\ endRV \in Nat /\ taken \in Nat /\ taken <= Len(Resources)
  BY HistoryFacts, SomeResource DEF Grown, TypeOK
<1>1. CASE UNCHANGED vars
  BY <1>1, ProgressKept DEF vars
<1>2. ASSUME NEW p \in Paths, NEW type \in {"Added", "Modified", "Deleted"}, Write(p, type)
      PROVE  ProgressInv'
  BY <1>2, ProgressKept DEF Write, watching
<1>3. ASSUME NEW k \in Kinds, Receive(k) \/ ReadEvents(k)
      PROVE  ProgressInv'
  BY <1>3, ProgressKept DEF Receive, ReadEvents
<1>4. ASSUME NEW k \in Kinds, AppendEvent(k)
      PROVE  ProgressInv'
  <2>1. startRV # 0
    BY <1>4 DEF AppendEvent, EventsInv, ProgressInv
  <2> QED
    BY <1>4, <2>1, ProgressKept DEF AppendEvent
<1>5. ASSUME NEW k \in Kinds, WatchEnds(k)
      PROVE  ProgressInv'
  <2>1. \A j \in Kinds : watches'[j] = "none" <=> watches[j] = "none"
    BY <1>5 DEF WatchEnds, TypeOK
  <2> QED
    BY <1>5, <2>1, ProgressKept DEF WatchEnds
<1>6. CASE CreateMarker
  <2>1. Version' = Version + 1
    BY <1>6, MarkerVersion DEF CreateMarker
  <2>2. CASE Abort
    BY <1>6, <2>2, ProgressAborted DEF CreateMarker, Abort, AfterCall, TypeOK
  <2>3. CASE pc = "mark" /\ ~Abort
    <3>1. /\ pc' = "unmark" /\ startRV' = Version + 1 /\ endRV' = endRV
          /\ UNCHANGED <<taken, listedAt, watches, events>>
      BY <1>6, <2>3 DEF CreateMarker, AfterCall
    <3>2. startRV = 0
      BY <2>3 DEF ProgressInv
    <3>3. taken = 0 /\ \A k \in Kinds : watches[k] = "none" /\ listedAt[k] = 0
      BY <3>2 DEF ProgressInv
    <3>4. \A n \in DOMAIN Resources :
            /\ n <= taken' => listedAt'[Resources[n]] # 0
            /\ n <= taken' <=> watches'[Resources[n]] # "none"
      BY <3>1, <3>3, SomeResource
    <3> QED
      BY <1>0, <2>1, <3>1, <3>3, <3>4 DEF ProgressInv
  <2>4. CASE pc = "markEnd" /\ ~Abort
    <3>1. /\ pc' = "unmarkEnd" /\ startRV' = startRV /\ endRV' = Version + 1
          /\ UNCHANGED <<taken, listedAt, watches, events>>
      BY <1>6, <2>4 DEF CreateMarker, AfterCall
    <3>2. startRV # 0 /\ startRV \in 2 .. Version /\ taken = Len(Resources)
      BY <2>4 DEF ProgressInv
    <3>3. \A k \in Kinds : listedAt[k] \in 0 .. Version
      BY <1>0 DEF ProgressInv, TypeOK
    <3>4. \A k \in Kinds : listedAt'[k] # 0 => listedAt'[k] \in startRV' + 1 .. Version'
      BY <1>0, <3>1 DEF ProgressInv, TypeOK
    <3>5. \A n \in DOMAIN Resources :
            /\ n <= taken' => listedAt'[Resources[n]] # 0
            /\ n <= taken' <=> watches'[Resources[n]] # "none"
      BY <3>1 DEF ProgressInv
    <3>6. endRV' <= Version' /\ \A k \in Kinds : listedAt'[k] < endRV'
      BY <1>0, <2>1, <3>1, <3>3
    <3> QED
      BY <1>0, <3>1, <3>2, <3>4, <3>5, <3>6 DEF ProgressInv
  <2> QED
    BY <1>6, <2>2, <2>3, <2>4 DEF CreateMarker
<1>7. CASE DeleteMarker
  <2>1. Version' = Version + 1
    BY <1>7, MarkerVersion DEF DeleteMarker
  <2>2. CASE Abort
    BY <1>7, <2>2, ProgressAborted DEF DeleteMarker
  <2>3. CASE ~Abort
    <3>1. /\ \/ pc = "unmark" /\ pc' = "list"
             \/ pc = "unmarkEnd" /\ pc' = "stop"
          /\ UNCHANGED <<taken, startRV, endRV, listedAt, watches, events>>
      BY <1>7, <2>3 DEF DeleteMarker, AfterCall
    <3>2. startRV # 0 /\ startRV \in 2 .. Version
      BY <3>1 DEF ProgressInv
    <3>3. \A k \in Kinds : listedAt'[k] # 0 => listedAt'[k] \in startRV' + 1 .. Version'
      BY <1>0, <3>1 DEF ProgressInv, TypeOK
    <3>4. \A n \in DOMAIN Resources :
            /\ n <= taken' => listedAt'[Resources[n]] # 0
            /\ n <= taken' <=> watches'[Resources[n]] # "none"
      BY <3>1 DEF ProgressInv
    <3>5. pc = "unmarkEnd" => endRV' <= Version' /\ \A k \in Kinds : listedAt'[k] < endRV'
      BY <1>0, <3>1 DEF ProgressInv
    <3>6. /\ pc = "unmark" => taken < Len(Resources)
          /\ pc = "unmarkEnd" => taken = Len(Resources)
      BY DEF ProgressInv
    <3> QED
      BY <1>0, <2>1, <3>1, <3>2, <3>3, <3>4, <3>5, <3>6 DEF ProgressInv
  <2> QED
    BY <2>2, <2>3
<1>8. CASE List
  <2>1. /\ pc = "list" /\ pc' = "watch"
        /\ UNCHANGED <<history, taken, startRV, endRV, watches, events>>
        /\ listedAt' = [listedAt EXCEPT ![Listing] = Version]
    BY <1>8 DEF List, watching
  <2>2. Listing \in Kinds /\ Listing' = Listing
    BY <2>1, ListingKind DEF ProgressInv, Listing
  <2>3. Version' = Version /\ startRV \in 2 .. Version /\ startRV < Version /\ taken < Len(Resources)
    BY <2>1 DEF Version, ProgressInv
  <2>4. listedAt'[Listing] = Version /\ \A k \in Kinds : k # Listing => listedAt'[k] = listedAt[k]
    BY <2>1, <2>2 DEF TypeOK
  <2>5. \A k \in Kinds : listedAt'[k] # 0 => listedAt'[k] \in startRV' + 1 .. Version'
    BY <1>0, <2>1, <2>3, <2>4 DEF ProgressInv, TypeOK
  <2>6. \A n \in DOMAIN Resources :
          /\ n <= taken' => listedAt'[Resources[n]] # 0
          /\ n <= taken' <=> watches'[Resources[n]] # "none"
    BY <1>0, <2>1, <2>4, SomeResource DEF ProgressInv
  <2> QED
    BY <1>0, <2>1, <2>2, <2>3, <2>4, <2>5, <2>6 DEF ProgressInv
<1>9. CASE Watch
  <2>1. /\ pc = "watch" /\ pc' \in {"markEnd", "list"}
        /\ pc' = "markEnd" <=> taken + 1 = Len(Resources)
        /\ taken' = taken + 1
        /\ UNCHANGED <<history, startRV, endRV, listedAt, events>>
        /\ watches' = [watches EXCEPT ![Listing] = "open"]
    BY <1>9 DEF Watch
  <2>2. Listing \in Kinds /\ taken + 1 \in DOMAIN Resources
    BY <2>1, ListingKind DEF ProgressInv
  <2>3. /\ Version' = Version /\ startRV \in 2 .. Version /\ startRV < Version
        /\ taken < Len(Resources) /\ listedAt[Listing] # 0
    BY <2>1 DEF Version, ProgressInv
  <2>4. \A n \in DOMAIN Resources : Resources[n] = Listing <=> n = taken + 1
    BY <2>2, ResourcesAssumption DEF Listing
  <2>5. \A n \in DOMAIN Resources :
          /\ n <= taken' => listedAt'[Resources[n]] # 0
          /\ n <= taken' <=> watches'[Resources[n]] # "none"
    <3> SUFFICES ASSUME NEW n \in DOMAIN Resources
                 PROVE  /\ n <= taken' => listedAt'[Resources[n]] # 0
                        /\ n <= taken' <=> watches'[Resources[n]] # "none"
      OBVIOUS
    <3>1. n \in Nat /\ Resources[n] \in Kinds
      BY SomeResource
    <3>2. CASE n = taken + 1
      BY <1>0, <2>1, <2>2, <2>3, <2>4, <3>1, <3>2 DEF TypeOK
    <3>3. CASE n # taken + 1
      <4>1. watches'[Resources[n]] = watches[Resources[n]]
        BY <2>1, <2>4, <3>1, <3>3 DEF TypeOK
      <4> QED
        BY <1>0, <2>1, <3>1, <3>3, <4>1 DEF ProgressInv
    <3> QED
      BY <3>2, <3>3
  <2>6. \A k \in Kinds : listedAt'[k] # 0 => listedAt'[k] \in startRV' + 1 .. Version'
    BY <1>0, <2>1, <2>3 DEF ProgressInv
  <2> QED
    BY <1>0, <2>1, <2>3, <2>5, <2>6 DEF ProgressInv
<1>10. CASE CallFails
  BY <1>10, ProgressAborted DEF CallFails
<1>11. CASE Stop \/ Drained \/ Archive
  <2>1. /\ \/ pc = "stop" /\ pc' = "drain"
           \/ pc = "drain" /\ pc' = "sync"
           \/ pc = "sync" /\ pc' = "done"
        /\ UNCHANGED <<history, taken, startRV, endRV, listedAt, events>>
        /\ watches' = watches \/ watches' = StopWatch
    BY <1>11 DEF Stop, Drained, Archive, watching
  <2>2. \A k \in Kinds : watches'[k] = "none" <=> watches[k] = "none"
    BY <2>1, StopWatchNone
  <2>3. \A n \in DOMAIN Resources :
          /\ n <= taken' => listedAt'[Resources[n]] # 0
          /\ n <= taken' <=> watches'[Resources[n]] # "none"
    BY <2>1, <2>2, SomeResource DEF ProgressInv
  <2>4. Version' = Version
    BY <2>1 DEF Version
  <2> QED
    BY <1>0, <2>1, <2>2, <2>3, <2>4 DEF ProgressInv
<1>12. CASE Sync
  BY <1>12, ProgressKept DEF Sync, watching
<1> QED
  BY <1>1, <1>2, <1>3, <1>4, <1>5, <1>6, <1>7, <1>8, <1>9, <1>10, <1>11, <1>12
  DEF Next, Main, Goroutine

-----------------------------------------------------------------------------
(* The lists                                                               *)

\* Until the replay, steps that leave the lists alone keep ListInv.
LEMMA ListKept ==
  ASSUME TypeOK, ProgressInv, ListInv, Grown,
         UNCHANGED <<list, listedAt, synced>>, pc \notin {"sync", "done", "failed"}
  PROVE  ListInv'
<1>1. ASSUME NEW p \in Paths, listedAt[KindOf[p]] # 0
      PROVE  list'[p] = At(listedAt[KindOf[p]])'[p]
  <2>1. KindOf[p] \in Kinds
    BY ResourcesAssumption
  <2>2. listedAt[KindOf[p]] \in 1 .. Version
    BY <1>1, <2>1, HistoryFacts DEF ProgressInv, TypeOK
  <2>3. At(listedAt[KindOf[p]])' = At(listedAt[KindOf[p]])
    <3>1. PICK v \in 1 .. Version : v = listedAt[KindOf[p]]
      BY <2>2
    <3>2. At(v)' = At(v)
      BY DEF Grown
    <3>3. listedAt'[KindOf[p]] = v
      BY <3>1
    <3> QED
      BY <3>1, <3>2, <3>3 DEF At
  <2> QED
    BY <1>1, <2>3 DEF ListInv
<1> QED
  BY <1>1 DEF ListInv

\* ListInv is inductive.
LEMMA ListStep ==
  ASSUME TypeOK, ProgressInv, ListInv, Grown, [Next]_vars
  PROVE  ListInv'
<1>1. CASE pc' \in {"sync", "done", "failed"}
  BY <1>1 DEF ListInv
<1>2. CASE pc' \notin {"sync", "done", "failed"} /\ List
  <2>1. /\ pc = "list" /\ UNCHANGED <<history, synced>>
        /\ list' = [p \in Paths |-> IF KindOf[p] = Listing THEN At(Version)[p] ELSE list[p]]
        /\ listedAt' = [listedAt EXCEPT ![Listing] = Version]
    BY <1>2 DEF List
  <2>2. Listing \in Kinds
    BY <2>1, ListingKind DEF ProgressInv
  <2>3. ASSUME NEW p \in Paths, listedAt'[KindOf[p]] # 0
        PROVE  list'[p] = history[listedAt'[KindOf[p]]].now[p]
    <3>1. KindOf[p] \in Kinds
      BY ResourcesAssumption
    <3>2. CASE KindOf[p] = Listing
      BY <2>1, <2>2, <3>1, <3>2 DEF At, TypeOK
    <3>3. CASE KindOf[p] # Listing
      BY <2>1, <2>2, <2>3, <3>1, <3>3 DEF At, TypeOK, ListInv
    <3> QED
      BY <3>2, <3>3
  <2> QED
    BY <2>1, <2>3 DEF ListInv, At
<1>3. CASE pc' \notin {"sync", "done", "failed"} /\ ~List
  <2>1. UNCHANGED <<list, listedAt, synced>> /\ pc \notin {"sync", "done", "failed"}
    <3>1. CASE UNCHANGED vars
      BY <1>3, <3>1 DEF vars
    <3>2. CASE \E p \in Paths, type \in {"Added", "Modified", "Deleted"} : Write(p, type)
      BY <1>3, <3>2 DEF Write
    <3>3. CASE \E k \in Kinds : Goroutine(k)
      BY <1>3, <3>3 DEF Goroutine, Receive, ReadEvents, AppendEvent, WatchEnds
    <3>4. CASE CreateMarker \/ DeleteMarker \/ Watch
      BY <1>3, <3>4 DEF CreateMarker, DeleteMarker, Watch
    <3>5. CASE CallFails \/ Archive \/ Drained
      BY <1>3, <3>5 DEF CallFails, Abort, Archive, Drained
    <3>6. CASE Stop \/ Sync
      BY <1>3, <3>6 DEF Stop, Sync
    <3> QED
      BY <1>3, <3>1, <3>2, <3>3, <3>4, <3>5, <3>6 DEF Next, Main
  <2> QED
    BY <2>1, ListKept
<1> QED
  BY <1>1, <1>2, <1>3

-----------------------------------------------------------------------------
(* The events                                                              *)

\* What comes after the first marker is a change of a path, and of its kind.
LEMMA EventFacts ==
  ASSUME TypeOK, HistoryInv, ProgressInv, startRV # 0, NEW e \in startRV + 1 .. Version
  PROVE  /\ e \in 2 .. Version
         /\ history[e].path \in Paths
         /\ Of(e) \in Kinds
         /\ At(e)[history[e].path] = IF history[e].type = "Deleted" THEN 0 ELSE e
<1>1. e \in 2 .. Version
  BY HistoryFacts DEF ProgressInv, TypeOK
<1>2. history[e].path \in Paths
  BY <1>1 DEF HistoryInv
<1> QED
  BY <1>1, <1>2, ResourcesAssumption DEF HistoryInv, Of

\* It stays what it is.
LEMMA OfKept ==
  ASSUME Grown, NEW e \in 1 .. Version
  PROVE  Of(e)' = Of(e)
  BY DEF Grown, Of

\* Steps that leave the goroutines alone keep EventsInv.
LEMMA EventsKept ==
  ASSUME TypeOK, HistoryInv, ProgressInv, EventsInv, Grown,
         UNCHANGED <<startRV, cursor, held, events>>,
         \A k \in Kinds : watches'[k] = "none" <=> watches[k] = "none"
  PROVE  EventsInv'
<1>0. Version \in Nat /\ Version' \in Nat /\ Version <= Version' /\ startRV \in Nat
  BY HistoryFacts DEF Grown, TypeOK
<1>1. ASSUME NEW k \in Kinds, watches'[k] # "none"
      PROVE  cursor'[k] \in startRV' .. Version'
  BY <1>0, <1>1 DEF EventsInv, TypeOK
<1>2. \A n \in DOMAIN events : events[n] \in startRV + 1 .. Version'
  BY <1>0 DEF EventsInv, TypeOK
<1>3. ASSUME NEW k \in Kinds, held[k] # NoEvent
      PROVE  /\ watches'[k] # "none"
             /\ held[k].event = cursor[k]
             /\ cursor[k] > startRV
             /\ Of(cursor[k])' = k
             /\ held[k].base # NotRead =>
                  \A n \in DOMAIN held[k].base : held[k].base[n] \in startRV + 1 .. Version'
  <2>1. /\ watches[k] # "none" /\ held[k].event = cursor[k] /\ cursor[k] > startRV /\ Of(cursor[k]) = k
        /\ cursor[k] \in startRV .. Version
        /\ held[k].base # NotRead =>
             \A n \in DOMAIN held[k].base : held[k].base[n] \in startRV + 1 .. Version
    BY <1>3 DEF EventsInv
  <2>2. PICK c \in 1 .. Version : c = cursor[k]
    BY <1>0, <2>1
  <2>3. Of(cursor[k])' = k
    BY <2>1, <2>2 DEF Of, Grown
  <2> QED
    BY <1>0, <2>1, <2>3
<1> QED
  BY <1>1, <1>2, <1>3 DEF EventsInv

\* Most steps leave the goroutines alone.
Aside ==
  /\ UNCHANGED <<startRV, cursor, held, events, raced>>
  /\ \A k \in Kinds : watches'[k] = "none" <=> watches[k] = "none"

\* What the others do to them: the first marker is made, a kind is watched,
\* a goroutine takes one of its three steps.
LEMMA StepKinds ==
  ASSUME TypeOK, [Next]_vars
  PROVE  \/ Aside
         \/ CreateMarker /\ pc = "mark" /\ UNCHANGED <<watches, cursor, held, events, raced>>
         \/ Watch
         \/ \E k \in Kinds : Receive(k) \/ ReadEvents(k) \/ AppendEvent(k)
<1>1. CASE UNCHANGED vars
  BY <1>1 DEF vars, Aside
<1>2. CASE \E p \in Paths, type \in {"Added", "Modified", "Deleted"} : Write(p, type)
  BY <1>2 DEF Write, watching, Aside
<1>3. ASSUME NEW k \in Kinds, WatchEnds(k)
      PROVE  Aside
  BY <1>3 DEF WatchEnds, Aside, TypeOK
<1>4. CASE CreateMarker
  BY <1>4, StopWatchNone DEF CreateMarker, Abort, Aside
<1>5. CASE DeleteMarker \/ CallFails
  BY <1>5, StopWatchNone DEF DeleteMarker, CallFails, Abort, Aside
<1>6. CASE List \/ Drained \/ Sync \/ Archive
  BY <1>6 DEF List, Drained, Sync, Archive, watching, Aside
<1>7. CASE Stop
  BY <1>7, StopWatchNone DEF Stop, Aside
<1> QED
  BY <1>1, <1>2, <1>3, <1>4, <1>5, <1>6, <1>7 DEF Next, Main, Goroutine

\* What the first marker begins with.
LEMMA MarkBegins ==
  ASSUME ProgressInv, EventsInv, pc = "mark"
  PROVE  /\ startRV = 0 /\ events = <<>>
         /\ \A k \in Kinds : watches[k] = "none" /\ held[k] = NoEvent
  BY DEF ProgressInv, EventsInv

\* What a watch begins with.
LEMMA WatchBegins ==
  ASSUME TypeOK, ProgressInv, EventsInv, Watch
  PROVE  /\ startRV # 0 /\ startRV <= Version
         /\ Listing \in Kinds
         /\ watches[Listing] = "none" /\ held[Listing] = NoEvent
         /\ watches'[Listing] = "open" /\ cursor'[Listing] = startRV
         /\ \A k \in Kinds : k # Listing => watches'[k] = watches[k] /\ cursor'[k] = cursor[k]
         /\ UNCHANGED <<history, startRV, held, events, raced>>
<1>1. pc = "watch" /\ taken < Len(Resources) /\ startRV # 0 /\ startRV <= Version
  BY HistoryFacts DEF Watch, ProgressInv, TypeOK
<1>2. Listing \in Kinds /\ taken + 1 \in DOMAIN Resources
  BY <1>1, ListingKind
<1>3. ~(taken + 1 <= taken)
  BY DEF TypeOK
<1>4. watches[Listing] = "none"
  BY <1>2, <1>3 DEF ProgressInv, Listing
<1>5. held[Listing] = NoEvent
  BY <1>2, <1>4 DEF EventsInv
<1> QED
  BY <1>1, <1>2, <1>4, <1>5 DEF Watch, WatchFrom, TypeOK

\* What a goroutine receives is of its kind and newer than what it had.
LEMMA Receives ==
  ASSUME TypeOK, ProgressInv, EventsInv, NEW k \in Kinds, Receive(k)
  PROVE  \E r \in cursor[k] + 1 .. Version :
           /\ Of(r) = k
           /\ \A q \in cursor[k] + 1 .. Version : Of(q) = k => r <= q
           /\ cursor' = [cursor EXCEPT ![k] = r]
           /\ held'   = [held EXCEPT ![k] = [event |-> r, base |-> NotRead]]
           /\ watches[k] # "none" /\ held[k] = NoEvent /\ startRV # 0
           /\ cursor[k] \in startRV .. Version
           /\ r \in startRV + 1 .. Version
           /\ UNCHANGED <<history, startRV, watches, events, raced>>
<1>1. PICK r \in Pending(k) :
        /\ \A q \in Pending(k) : r <= q
        /\ cursor' = [cursor EXCEPT ![k] = r]
        /\ held'   = [held EXCEPT ![k] = [event |-> r, base |-> NotRead]]
  BY DEF Receive
<1>2. r \in cursor[k] + 1 .. Version /\ Of(r) = k
  BY <1>1 DEF Pending, Of
<1>3. \A q \in cursor[k] + 1 .. Version : Of(q) = k => r <= q
  BY <1>1 DEF Pending, Of
<1>4. watches[k] # "none" /\ held[k] = NoEvent /\ UNCHANGED <<history, startRV, watches, events, raced>>
  BY DEF Receive
<1>5. cursor[k] \in startRV .. Version /\ startRV # 0
  BY <1>4 DEF EventsInv, ProgressInv
<1>6. r \in startRV + 1 .. Version
  BY <1>2, <1>5, HistoryFacts DEF TypeOK
<1> QED
  BY <1>1, <1>2, <1>3, <1>4, <1>5, <1>6

\* What a goroutine appends.
LEMMA Appends ==
  ASSUME TypeOK, ProgressInv, EventsInv, NEW k \in Kinds, AppendEvent(k)
  PROVE  /\ held[k] # NoEvent /\ watches[k] # "none" /\ startRV # 0
         /\ held' = [held EXCEPT ![k] = NoEvent]
         /\ cursor[k] \in startRV + 1 .. Version /\ Of(cursor[k]) = k
         /\ UNCHANGED <<history, startRV, watches, cursor>>
         /\ events' \in Seq(Nat)
         /\ \A n \in DOMAIN events' : events'[n] \in startRV + 1 .. Version
         /\ ~raced' => ~raced /\ events' = Append(events, cursor[k])
<1>1. /\ held[k] # NoEvent /\ held[k].base # NotRead
      /\ held' = [held EXCEPT ![k] = NoEvent]
      /\ UNCHANGED <<history, startRV, watches, cursor>>
      /\ raced' = (raced \/ events # held[k].base)
  BY DEF AppendEvent
<1>2. /\ watches[k] # "none" /\ startRV # 0
      /\ held[k].event = cursor[k] /\ cursor[k] > startRV /\ Of(cursor[k]) = k
      /\ cursor[k] \in startRV .. Version
      /\ \A n \in DOMAIN held[k].base : held[k].base[n] \in startRV + 1 .. Version
  BY <1>1 DEF EventsInv, ProgressInv
<1>3. cursor[k] \in startRV + 1 .. Version
  BY <1>2, HistoryFacts DEF TypeOK
<1>4. held[k].base \in Seq(Nat) /\ events \in Seq(Nat)
  BY <1>1 DEF TypeOK
<1>5. PICK front \in Fronts(held[k].base) : events' = Append(front, cursor[k])
  BY <1>2 DEF AppendEvent
<1>6. /\ front \in Seq(Nat)
      /\ \A n \in 1 .. Len(front) :
              \/ n \in 1 .. Len(held[k].base) /\ front[n] = held[k].base[n]
              \/ n \in 1 .. Len(events) /\ front[n] = events[n]
  BY <1>4, FrontType
<1>7. \A n \in 1 .. Len(front) : front[n] \in startRV + 1 .. Version
  <2>1. DOMAIN held[k].base = 1 .. Len(held[k].base) /\ DOMAIN events = 1 .. Len(events)
    BY <1>4
  <2>2. \A n \in DOMAIN events : events[n] \in startRV + 1 .. Version
    BY DEF EventsInv
  <2> QED
    BY <1>2, <1>6, <2>1, <2>2
<1>8. cursor[k] \in Nat
  BY DEF TypeOK
<1>9. events' \in Seq(Nat) /\ \A n \in DOMAIN events' : events'[n] \in startRV + 1 .. Version
  BY <1>3, <1>5, <1>6, <1>7, <1>8
<1>10. ASSUME ~raced'
       PROVE  ~raced /\ events' = Append(events, cursor[k])
  <2>1. ~raced /\ events = held[k].base
    BY <1>1, <1>10 DEF TypeOK
  <2>2. front = events
    <3>1. events = [n \in DOMAIN events |-> events[n]]
      BY <1>4
    <3> QED
      BY <2>1, <3>1 DEF Fronts
  <2> QED
    BY <2>1, <2>2, <1>5
<1> QED
  BY <1>1, <1>2, <1>3, <1>9, <1>10

\* EventsInv is inductive.
LEMMA EventsStep ==
  ASSUME TypeOK, HistoryInv, ProgressInv, EventsInv, Grown, [Next]_vars
  PROVE  EventsInv'
<1>0. Version \in Nat \ {0} /\ Version' \in Nat /\ Version <= Version' /\ startRV \in Nat
  BY HistoryFacts DEF Grown, TypeOK
<1>1. CASE Aside
  BY <1>1, EventsKept DEF Aside
<1>2. CASE CreateMarker /\ pc = "mark" /\ UNCHANGED <<watches, cursor, held, events, raced>>
  BY <1>2, MarkBegins DEF EventsInv
<1>3. CASE Watch
  <2>1. /\ startRV <= Version /\ Listing \in Kinds
        /\ held[Listing] = NoEvent /\ cursor'[Listing] = startRV
        /\ \A k \in Kinds : k # Listing => watches'[k] = watches[k] /\ cursor'[k] = cursor[k]
        /\ UNCHANGED <<history, startRV, held, events, raced>>
    BY <1>3, WatchBegins
  <2>2. ASSUME NEW k \in Kinds, watches'[k] # "none"
        PROVE  cursor'[k] \in startRV .. Version
    BY <1>0, <2>1, <2>2 DEF EventsInv
  <2>3. ASSUME NEW k \in Kinds, held'[k] # NoEvent
        PROVE  k # Listing /\ held[k] # NoEvent
    BY <2>1, <2>3
  <2>4. Version' = Version /\ \A e : Of(e)' = Of(e)
    BY <2>1 DEF Version, Of
  <2> QED
    BY <2>1, <2>2, <2>3, <2>4 DEF EventsInv, Of
<1>4. ASSUME NEW k \in Kinds, Receive(k)
      PROVE  EventsInv'
  <2>1. PICK r \in startRV + 1 .. Version :
          /\ Of(r) = k
          /\ cursor' = [cursor EXCEPT ![k] = r]
          /\ held'   = [held EXCEPT ![k] = [event |-> r, base |-> NotRead]]
          /\ watches[k] # "none"
          /\ UNCHANGED <<history, startRV, watches, events, raced>>
    BY <1>4, Receives
  <2>2. /\ cursor'[k] = r /\ held'[k] = [event |-> r, base |-> NotRead]
        /\ \A j \in Kinds : j # k => cursor'[j] = cursor[j] /\ held'[j] = held[j]
    BY <2>1 DEF TypeOK
  <2>3. Version' = Version /\ startRV' = startRV /\ events' = events /\ watches' = watches
    BY <2>1 DEF Version
  <2>4. ASSUME NEW j \in Kinds, watches'[j] # "none"
        PROVE  cursor'[j] \in startRV' .. Version'
    BY <1>0, <2>2, <2>3, <2>4 DEF EventsInv
  <2>5. ASSUME NEW j \in Kinds, held'[j] # NoEvent
        PROVE  /\ watches'[j] # "none"
               /\ held'[j].event = cursor'[j]
               /\ cursor'[j] > startRV'
               /\ KindOf[history[cursor'[j]].path] = j
               /\ held'[j].base # NotRead =>
                    \A n \in DOMAIN held'[j].base : held'[j].base[n] \in startRV' + 1 .. Version'
    <3>1. CASE j = k
      BY <1>0, <2>1, <2>2, <2>3, <3>1 DEF Of
    <3>2. CASE j # k
      BY <2>2, <2>3, <2>5, <3>2 DEF EventsInv, Of
    <3> QED
      BY <3>1, <3>2
  <2> QED
    BY <2>1, <2>3, <2>4, <2>5 DEF EventsInv, Of
<1>5. ASSUME NEW k \in Kinds, ReadEvents(k)
      PROVE  EventsInv'
  <2>1. /\ held[k] # NoEvent /\ held' = [held EXCEPT ![k].base = events]
        /\ UNCHANGED <<history, startRV, watches, cursor, events>>
    BY <1>5 DEF ReadEvents
  <2>2. held[k] \in [event : Nat, base : Seq(Nat) \cup {NotRead}]
    BY <2>1 DEF TypeOK
  <2>3. held'[k].event = held[k].event /\ held'[k].base = events
    BY <2>1, <2>2 DEF TypeOK
  <2>4. \A j \in Kinds : j # k => held'[j] = held[j]
    BY <2>1 DEF TypeOK
  <2>5. Version' = Version
    BY <2>1 DEF Version
  <2>6. ASSUME NEW j \in Kinds, held'[j] # NoEvent
        PROVE  /\ watches'[j] # "none"
               /\ held'[j].event = cursor'[j]
               /\ cursor'[j] > startRV'
               /\ KindOf[history[cursor'[j]].path] = j
               /\ held'[j].base # NotRead =>
                    \A n \in DOMAIN held'[j].base : held'[j].base[n] \in startRV' + 1 .. Version'
    <3>1. held[j] # NoEvent
      BY <2>1, <2>4, <2>6
    <3>2. CASE j = k
      BY <2>1, <2>3, <2>5, <3>1, <3>2 DEF EventsInv, Of
    <3>3. CASE j # k
      BY <2>1, <2>4, <2>5, <3>1, <3>3 DEF EventsInv, Of
    <3> QED
      BY <3>2, <3>3
  <2> QED
    BY <2>1, <2>5, <2>6 DEF EventsInv, Of
<1>6. ASSUME NEW k \in Kinds, AppendEvent(k)
      PROVE  EventsInv'
  <2>1. /\ held' = [held EXCEPT ![k] = NoEvent]
        /\ UNCHANGED <<history, startRV, watches, cursor>>
        /\ \A n \in DOMAIN events' : events'[n] \in startRV + 1 .. Version
    BY <1>6, Appends
  <2>2. held'[k] = NoEvent /\ \A j \in Kinds : j # k => held'[j] = held[j]
    BY <2>1 DEF TypeOK
  <2>3. Version' = Version
    BY <2>1 DEF Version
  <2> QED
    BY <2>1, <2>2, <2>3 DEF EventsInv, Of
<1> QED
  BY <1>1, <1>2, <1>3, <1>4, <1>5, <1>6, StepKinds

\* OrderInv in parts, for events in the order es and held by hs.
Cursored(es, hs, cs, ws) ==
  \A n \in DOMAIN es :
    /\ ws[Of(es[n])] # "none"
    /\ es[n] <= cs[Of(es[n])]
    /\ hs[Of(es[n])] # NoEvent => es[n] < cs[Of(es[n])]

Sorted(es) ==
  \A m, n \in DOMAIN es : m < n /\ Of(es[m]) = Of(es[n]) => es[m] < es[n]

Complete(es, hs, cs, ws) ==
  \A k \in Kinds : ws[k] # "none" =>
    \A r \in startRV + 1 .. cs[k] : Of(r) = k =>
      \/ \E n \in DOMAIN es : es[n] = r
      \/ hs[k] # NoEvent /\ cs[k] = r

LEMMA OrderParts ==
  OrderInv <=> (~raced => /\ Cursored(events, held, cursor, watches)
                          /\ Sorted(events)
                          /\ Complete(events, held, cursor, watches))
  BY DEF OrderInv, Cursored, Sorted, Complete

\* OrderInv is inductive.
LEMMA OrderStep ==
  ASSUME TypeOK, HistoryInv, ProgressInv, EventsInv, OrderInv, Grown, [Next]_vars
  PROVE  OrderInv'
<1>0. Version \in Nat \ {0} /\ startRV \in Nat /\ DOMAIN events = 1 .. Len(events) /\ Len(events) \in Nat
  BY HistoryFacts DEF TypeOK
<1>1. \A e \in startRV + 1 .. Version : Of(e)' = Of(e)
  <2>1. \A e \in startRV + 1 .. Version : e \in 1 .. Version
    BY <1>0
  <2> QED
    BY <2>1, OfKept
<1>2. \A n \in DOMAIN events : events[n] \in startRV + 1 .. Version /\ events[n] \in Nat
  BY <1>0 DEF EventsInv
<1>3. \A n \in DOMAIN events : Of(events[n]) \in Kinds
  <2>1. ASSUME NEW n \in DOMAIN events
        PROVE  Of(events[n]) \in Kinds
    <3>1. startRV # 0
      BY <2>1, <1>0 DEF ProgressInv
    <3> QED
      BY <1>2, <3>1, EventFacts
  <2> QED
    BY <2>1
<1>4. ~raced => /\ Cursored(events, held, cursor, watches)
                /\ Sorted(events)
                /\ Complete(events, held, cursor, watches)
  BY OrderParts
<1>5. CASE Aside
  <2>1. UNCHANGED <<startRV, cursor, held, events, raced>>
    BY <1>5 DEF Aside
  <2>2. \A k \in Kinds : watches'[k] = "none" <=> watches[k] = "none"
    BY <1>5 DEF Aside
  <2>3. \A n \in DOMAIN events : Of(events[n])' = Of(events[n])
    BY <2>1, <1>1, <1>2 DEF Of
  <2> SUFFICES ASSUME ~raced'
               PROVE  OrderInv'
    BY DEF OrderInv
  <2>4. \A n \in DOMAIN events' :
          /\ watches'[Of(events[n])'] # "none"
          /\ events'[n] <= cursor'[Of(events[n])']
          /\ held'[Of(events[n])'] # NoEvent => events'[n] < cursor'[Of(events[n])']
    BY <1>3, <1>4, <2>1, <2>2, <2>3 DEF Cursored
  <2>5. \A m, n \in DOMAIN events' :
          m < n /\ Of(events[m])' = Of(events[n])' => events'[m] < events'[n]
    BY <1>4, <2>1, <2>3 DEF Sorted
  <2>6. ASSUME NEW k \in Kinds, watches'[k] # "none",
               NEW r \in startRV' + 1 .. cursor'[k], Of(r)' = k
        PROVE  \/ \E n \in DOMAIN events' : events'[n] = r
               \/ held'[k] # NoEvent /\ cursor'[k] = r
    <3>1. watches[k] # "none" /\ cursor[k] \in startRV .. Version
      BY <2>2, <2>6 DEF EventsInv
    <3>2. r \in startRV + 1 .. cursor[k] /\ r \in startRV + 1 .. Version
      BY <1>0, <2>1, <2>6, <3>1
    <3> QED
      BY <1>1, <1>4, <2>1, <2>6, <3>1, <3>2 DEF Complete
  <2> QED
    BY <2>1, <2>4, <2>5, <2>6 DEF OrderInv
<1>6. CASE CreateMarker /\ pc = "mark" /\ UNCHANGED <<watches, cursor, held, events, raced>>
  BY <1>6, MarkBegins DEF OrderInv
<1>7. ASSUME ~raced', history' = history, startRV' = startRV,
             Cursored(events', held', cursor', watches'),
             Sorted(events'),
             Complete(events', held', cursor', watches')
      PROVE  OrderInv'
  BY <1>7 DEF OrderInv, Of, Cursored, Sorted, Complete
<1>8. CASE Watch
  <2>1. /\ startRV <= Version /\ Listing \in Kinds
        /\ watches[Listing] = "none" /\ held[Listing] = NoEvent
        /\ cursor'[Listing] = startRV
        /\ \A k \in Kinds : k # Listing => watches'[k] = watches[k] /\ cursor'[k] = cursor[k]
        /\ UNCHANGED <<history, startRV, held, events, raced>>
    BY <1>8, WatchBegins
  <2> SUFFICES ASSUME ~raced'
               PROVE  OrderInv'
    BY DEF OrderInv
  <2>2. \A n \in DOMAIN events : Of(events[n]) # Listing
    BY <1>4, <2>1 DEF Cursored
  <2>3. Cursored(events, held, cursor', watches')
    BY <1>3, <1>4, <2>1, <2>2 DEF Cursored
  <2>4. Complete(events, held, cursor', watches')
    <3> SUFFICES ASSUME NEW k \in Kinds, watches'[k] # "none",
                        NEW r \in startRV + 1 .. cursor'[k], Of(r) = k
                 PROVE  \/ \E n \in DOMAIN events : events[n] = r
                        \/ held[k] # NoEvent /\ cursor'[k] = r
      BY DEF Complete
    <3>1. k # Listing
      BY <1>0, <2>1
    <3> QED
      BY <1>4, <2>1, <3>1 DEF Complete
  <2> QED
    BY <1>4, <1>7, <2>1, <2>3, <2>4
<1>9. ASSUME NEW k \in Kinds, Receive(k)
      PROVE  OrderInv'
  <2>1. PICK r \in cursor[k] + 1 .. Version :
          /\ Of(r) = k
          /\ \A q \in cursor[k] + 1 .. Version : Of(q) = k => r <= q
          /\ cursor' = [cursor EXCEPT ![k] = r]
          /\ held'   = [held EXCEPT ![k] = [event |-> r, base |-> NotRead]]
          /\ watches[k] # "none" /\ held[k] = NoEvent /\ startRV # 0
          /\ cursor[k] \in startRV .. Version
          /\ r \in startRV + 1 .. Version
          /\ UNCHANGED <<history, startRV, watches, events, raced>>
    BY <1>9, Receives
  <2> SUFFICES ASSUME ~raced'
               PROVE  OrderInv'
    BY DEF OrderInv
  <2>2. /\ cursor'[k] = r /\ held'[k] # NoEvent /\ r > cursor[k] /\ r \in Nat /\ cursor[k] \in Nat
        /\ \A j \in Kinds : j # k => cursor'[j] = cursor[j] /\ held'[j] = held[j]
    <3>1. cursor'[k] = r /\ held'[k] = [event |-> r, base |-> NotRead]
      BY <2>1 DEF TypeOK
    <3>2. r \in Nat /\ cursor[k] \in Nat /\ r > cursor[k]
      BY <1>0, <2>1
    <3>3. held'[k] # NoEvent
      BY <3>1, <3>2, NothingAssumption
    <3>4. \A j \in Kinds : j # k => cursor'[j] = cursor[j] /\ held'[j] = held[j]
      BY <2>1 DEF TypeOK
    <3> QED
      BY <3>1, <3>2, <3>3, <3>4
  <2>3. Cursored(events, held', cursor', watches)
    <3> SUFFICES ASSUME NEW n \in DOMAIN events
                 PROVE  /\ watches[Of(events[n])] # "none"
                        /\ events[n] <= cursor'[Of(events[n])]
                        /\ held'[Of(events[n])] # NoEvent => events[n] < cursor'[Of(events[n])]
      BY DEF Cursored
    <3>1. CASE Of(events[n]) = k
      BY <1>2, <1>4, <2>1, <2>2, <3>1 DEF Cursored
    <3>2. CASE Of(events[n]) # k
      BY <1>3, <1>4, <2>1, <2>2, <3>2 DEF Cursored
    <3> QED
      BY <3>1, <3>2
  <2>4. Complete(events, held', cursor', watches)
    <3> SUFFICES ASSUME NEW j \in Kinds, watches[j] # "none",
                        NEW q \in startRV + 1 .. cursor'[j], Of(q) = j
                 PROVE  \/ \E n \in DOMAIN events : events[n] = q
                        \/ held'[j] # NoEvent /\ cursor'[j] = q
      BY DEF Complete
    <3>1. CASE j = k /\ q <= cursor[k]
      <4>1. q \in startRV + 1 .. cursor[k]
        BY <1>0, <2>2, <3>1
      <4> QED
        BY <1>4, <2>1, <3>1, <4>1 DEF Complete
    <3>2. CASE j = k /\ ~(q <= cursor[k])
      <4>1. q \in cursor[k] + 1 .. Version /\ q <= r
        BY <1>0, <2>1, <2>2, <3>2
      <4>2. r <= q
        BY <2>1, <3>2, <4>1
      <4> QED
        BY <2>2, <3>2, <4>1, <4>2
    <3>3. CASE j # k
      BY <1>4, <2>1, <2>2, <3>3 DEF Complete
    <3> QED
      BY <3>1, <3>2, <3>3
  <2> QED
    BY <1>4, <1>7, <2>1, <2>3, <2>4
<1>10. ASSUME NEW k \in Kinds, ReadEvents(k)
       PROVE  OrderInv'
  <2>1. /\ held[k] # NoEvent /\ held' = [held EXCEPT ![k].base = events]
        /\ UNCHANGED <<history, startRV, watches, cursor, events, raced>>
    BY <1>10 DEF ReadEvents
  <2> SUFFICES ASSUME ~raced'
               PROVE  OrderInv'
    BY DEF OrderInv
  <2>2. \A j \in Kinds : held'[j] # NoEvent <=> held[j] # NoEvent
    <3>1. held[k] \in [event : Nat, base : Seq(Nat) \cup {NotRead}] /\ events \in Seq(Nat)
      BY <2>1 DEF TypeOK
    <3>2. held'[k] = [held[k] EXCEPT !.base = events]
      BY <2>1 DEF TypeOK
    <3>3. held'[k] \in [event : Nat, base : Seq(Nat) \cup {NotRead}]
      BY <3>1, <3>2
    <3>4. held'[k] # NoEvent
      BY <3>3, NothingAssumption
    <3>5. \A j \in Kinds : j # k => held'[j] = held[j]
      BY <2>1 DEF TypeOK
    <3> QED
      BY <2>1, <3>4, <3>5
  <2>3. Cursored(events, held', cursor, watches)
    BY <1>3, <1>4, <2>1, <2>2 DEF Cursored
  <2>4. Complete(events, held', cursor, watches)
    BY <1>4, <2>1, <2>2 DEF Complete
  <2> QED
    BY <1>4, <1>7, <2>1, <2>3, <2>4
<1>11. ASSUME NEW k \in Kinds, AppendEvent(k)
       PROVE  OrderInv'
  <2> DEFINE e == cursor[k]
  <2> SUFFICES ASSUME ~raced'
               PROVE  OrderInv'
    BY DEF OrderInv
  <2>1. /\ held[k] # NoEvent /\ watches[k] # "none" /\ startRV # 0
        /\ held' = [held EXCEPT ![k] = NoEvent]
        /\ e \in startRV + 1 .. Version /\ Of(e) = k
        /\ UNCHANGED <<history, startRV, watches, cursor>>
        /\ ~raced /\ events' = Append(events, e)
    BY <1>11, Appends
  <2>2. held'[k] = NoEvent /\ \A j \in Kinds : j # k => held'[j] = held[j]
    BY <2>1 DEF TypeOK
  <2>3. /\ DOMAIN events' = 1 .. Len(events) + 1
        /\ \A n \in DOMAIN events : events'[n] = events[n]
        /\ events'[Len(events) + 1] = e
        /\ e \in Nat
    BY <2>1 DEF TypeOK
  <2>4. \A n \in DOMAIN events' : n \in DOMAIN events \/ n = Len(events) + 1
    BY <1>0, <2>3
  <2>5. \A n \in DOMAIN events : Of(events[n]) = k => events[n] < e
    BY <1>4, <2>1 DEF Cursored
  <2> HIDE DEF e
  <2>6. Cursored(events', held', cursor, watches)
    <3> SUFFICES ASSUME NEW n \in DOMAIN events'
                 PROVE  /\ watches[Of(events'[n])] # "none"
                        /\ events'[n] <= cursor[Of(events'[n])]
                        /\ held'[Of(events'[n])] # NoEvent => events'[n] < cursor[Of(events'[n])]
      BY DEF Cursored
    <3>1. CASE n = Len(events) + 1
      BY <2>1, <2>2, <2>3, <3>1 DEF e
    <3>2. CASE n \in DOMAIN events
      <4>1. events'[n] = events[n]
        BY <2>3, <3>2
      <4> QED
        BY <1>3, <1>4, <2>1, <2>2, <3>2, <4>1 DEF Cursored
    <3> QED
      BY <2>4, <3>1, <3>2
  <2>7. Sorted(events')
    <3> SUFFICES ASSUME NEW m \in DOMAIN events', NEW n \in DOMAIN events',
                        m < n, Of(events'[m]) = Of(events'[n])
                 PROVE  events'[m] < events'[n]
      BY DEF Sorted
    <3>1. m \in DOMAIN events /\ events'[m] = events[m]
      BY <1>0, <2>3
    <3>2. CASE n \in DOMAIN events
      BY <1>4, <2>1, <2>3, <3>1, <3>2 DEF Sorted
    <3>3. CASE n = Len(events) + 1
      BY <2>1, <2>3, <2>5, <3>1, <3>3
    <3> QED
      BY <2>4, <3>2, <3>3
  <2>8. Complete(events', held', cursor, watches)
    <3> SUFFICES ASSUME NEW j \in Kinds, watches[j] # "none",
                        NEW r \in startRV + 1 .. cursor[j], Of(r) = j
                 PROVE  \/ \E n \in DOMAIN events' : events'[n] = r
                        \/ held'[j] # NoEvent /\ cursor[j] = r
      BY DEF Complete
    <3>1. CASE \E n \in DOMAIN events : events[n] = r
      BY <1>0, <2>3, <3>1
    <3>2. CASE held[j] # NoEvent /\ cursor[j] = r /\ j = k
      BY <1>0, <2>3, <3>2 DEF e
    <3>3. CASE held[j] # NoEvent /\ cursor[j] = r /\ j # k
      BY <2>2, <3>3
    <3> QED
      BY <1>4, <2>1, <3>1, <3>2, <3>3 DEF Complete
  <2> QED
    BY <1>7, <2>1, <2>6, <2>7, <2>8
<1> QED
  BY <1>5, <1>6, <1>8, <1>9, <1>10, <1>11, StepKinds

-----------------------------------------------------------------------------
(* The replay                                                              *)

\* Once all is listed, each kind was listed between the markers.
LEMMA WindowFacts ==
  ASSUME TypeOK, ProgressInv, pc \in {"drain", "sync", "done"}
  PROVE  /\ startRV \in 2 .. Version /\ startRV # 0
         /\ endRV \in startRV + 2 .. Version
         /\ \A k \in Kinds : listedAt[k] \in startRV + 1 .. endRV - 1
         /\ \A v \in startRV + 1 .. endRV - 1 : v \in 2 .. Version
<1>0. Version \in Nat /\ startRV \in Nat /\ endRV \in Nat
  BY HistoryFacts DEF TypeOK
<1>1. /\ taken = Len(Resources) /\ endRV <= Version /\ startRV \in 2 .. Version
      /\ \A k \in Kinds : listedAt[k] < endRV
      /\ \A k \in Kinds : listedAt[k] # 0 => listedAt[k] \in startRV + 1 .. Version
      /\ \A n \in DOMAIN Resources : n <= taken => listedAt[Resources[n]] # 0
  BY DEF ProgressInv
<1>2. ASSUME NEW k \in Kinds
      PROVE  listedAt[k] \in startRV + 1 .. endRV - 1
  <2>1. PICK n \in DOMAIN Resources : Resources[n] = k
    BY ResourcesAssumption
  <2>2. n <= taken
    BY <1>1, <2>1, SomeResource
  <2>3. listedAt[k] # 0
    BY <1>1, <2>1, <2>2
  <2> QED
    BY <1>0, <1>1, <2>3
<1>3. PICK k \in Kinds : TRUE
  BY ResourcesAssumption
<1>4. endRV \in startRV + 2 .. Version
  BY <1>0, <1>1, <1>2, <1>3
<1> QED
  BY <1>0, <1>1, <1>2, <1>4

\* Steps that only add to the history keep ReplayInv.
LEMMA ReplayKept ==
  ASSUME TypeOK, ProgressInv, ReplayInv, Grown, pc \in {"sync", "done"},
         UNCHANGED <<startRV, endRV, list, listedAt, held, events, raced, synced>>,
         pc' = "done" => synced = Len(events)
  PROVE  ReplayInv'
<1>01. pc \in {"drain", "sync", "done"}
  OBVIOUS
<1>02. /\ startRV \in 2 .. Version /\ endRV \in startRV + 2 .. Version
       /\ \A k \in Kinds : listedAt[k] \in startRV + 1 .. endRV - 1
       /\ Version \in Nat /\ startRV \in Nat /\ endRV \in Nat
  BY <1>01, WindowFacts, HistoryFacts DEF TypeOK
<1>0. /\ \A v \in startRV + 1 .. endRV - 1 : v \in 1 .. Version
      /\ \A p \in Paths : listedAt[KindOf[p]] \in startRV + 1 .. endRV - 1
      /\ endRV - 1 \in startRV + 1 .. endRV - 1
      /\ startRV \in Nat /\ endRV \in Nat
  <2>1. \A p \in Paths : KindOf[p] \in Kinds
    BY ResourcesAssumption
  <2>2. \A v \in startRV + 1 .. endRV - 1 : v \in 1 .. Version
    BY <1>02
  <2>3. endRV - 1 \in startRV + 1 .. endRV - 1
    BY <1>02
  <2> QED
    BY <1>02, <2>1, <2>2, <2>3
<1>1. \A v \in startRV + 1 .. endRV - 1 : history'[v] = history[v] /\ At(v)' = At(v)
  BY <1>0 DEF Grown
<1>2. ASSUME NEW p \in Paths, NEW v \in startRV .. endRV - 1
      PROVE  Still(p, v, endRV - 1)' <=> Still(p, v, endRV - 1)
  BY <1>0, <1>1 DEF Still
<1>3. ASSUME NEW p \in Paths
      PROVE  InWindow(p)'
  BY <1>1 DEF ReplayInv, InWindow
<1>4. ASSUME NEW p \in Paths, ~raced
      PROVE  NotBack(p)'
  <2>1. NotBack(p)
    BY <1>4 DEF ReplayInv
  <2>2. PICK at \in startRV + 1 .. endRV - 1 : at = listedAt[KindOf[p]] /\ at = listedAt'[KindOf[p]]
    BY <1>0
  <2>3. At(at)' = At(at)
    BY <1>1
  <2>4. \A n \in 1 .. synced : events[n] \in at + 1 .. endRV - 1 =>
          history'[events[n]] = history[events[n]] /\ At(events[n])' = At(events[n])
    <3> SUFFICES ASSUME NEW n \in 1 .. synced, events[n] \in at + 1 .. endRV - 1
                 PROVE  history'[events[n]] = history[events[n]] /\ At(events[n])' = At(events[n])
      OBVIOUS
    <3>1. events[n] \in startRV + 1 .. endRV - 1
      BY <1>0
    <3> QED
      BY <1>1, <3>1 DEF At
  <2> QED
    BY <2>1, <2>2, <2>3, <2>4 DEF NotBack, At
<1>5. ASSUME NEW p \in Paths, ~raced
      PROVE  Converging(p)'
  <2>1. Converging(p)
    BY <1>5 DEF ReplayInv
  <2>2. Still(p, startRV + 1, endRV - 1)' <=> Still(p, startRV + 1, endRV - 1)
    BY <1>0, <1>1 DEF Still
  <2>3. At(endRV - 1)' = At(endRV - 1)
    BY <1>0, <1>1 DEF At
  <2>4. ASSUME NEW r \in startRV' + 2 .. endRV' - 1,
               history'[r].path = p, Still(p, r, endRV - 1)'
        PROVE  /\ list'[p] <= r
               /\ list'[p] = r => At(r)'[p] = r
               /\ (\E n \in 1 .. synced' : events'[n] = r) => list'[p] = At(r)'[p]
    <3>1. r \in startRV + 2 .. endRV - 1 /\ r \in startRV + 1 .. endRV - 1 /\ r \in startRV .. endRV - 1
      BY <1>0
    <3>2. history[r].path = p /\ Still(p, r, endRV - 1)
      BY <1>1, <1>2, <2>4, <3>1
    <3> QED
      BY <1>1, <2>1, <3>1, <3>2 DEF Converging
  <2> QED
    BY <2>1, <2>2, <2>3, <2>4 DEF Converging
<1> QED
  BY <1>3, <1>4, <1>5 DEF ReplayInv

\* The replay starts from what was listed.
LEMMA ReplayBegins ==
  ASSUME TypeOK, HistoryInv, ProgressInv, ListInv, Drained
  PROVE  ReplayInv'
<1>1. /\ pc = "drain" /\ pc' = "sync" /\ \A k \in Kinds : held[k] = NoEvent
      /\ UNCHANGED <<history, startRV, endRV, list, listedAt, held, events, raced, synced>>
  BY DEF Drained, watching
<1>2. /\ startRV \in 2 .. Version /\ endRV \in startRV + 2 .. Version
      /\ \A k \in Kinds : listedAt[k] \in startRV + 1 .. endRV - 1
      /\ Version \in Nat /\ startRV \in Nat /\ endRV \in Nat
  BY <1>1, WindowFacts, HistoryFacts DEF TypeOK
<1>3. /\ synced = 0 /\ synced <= Len(events)
      /\ \A p \in Paths : listedAt[KindOf[p]] # 0 => list[p] = At(listedAt[KindOf[p]])[p]
  BY <1>1 DEF ListInv, TypeOK
<1>4. ASSUME NEW p \in Paths
      PROVE  InWindow(p) /\ NotBack(p) /\ Converging(p)
  <2>1. PICK at \in startRV + 1 .. endRV - 1 : at = listedAt[KindOf[p]]
    BY <1>2, ResourcesAssumption
  <2>2. list[p] = At(at)[p]
    BY <1>2, <1>3, <2>1
  <2>3. InWindow(p)
    BY <2>2 DEF InWindow
  <2>4. NotBack(p)
    BY <2>1, <2>2 DEF NotBack
  <2>5. ASSUME Still(p, startRV + 1, endRV - 1)
        PROVE  list[p] = At(endRV - 1)[p]
    <3>1. Still(p, at, endRV - 1)
      BY <1>2, <2>5 DEF Still
    <3>2. endRV - 1 \in 1 .. Version /\ at \in 1 .. endRV - 1
      BY <1>2
    <3> QED
      BY <2>2, <3>1, <3>2 DEF HistoryInv
  <2>6. ASSUME NEW r \in startRV + 2 .. endRV - 1,
               history[r].path = p, Still(p, r, endRV - 1)
        PROVE  /\ list[p] <= r
               /\ list[p] = r => At(r)[p] = r
               /\ (\E n \in 1 .. synced : events[n] = r) => list[p] = At(r)[p]
    <3>1. r \in 1 .. Version /\ at \in 1 .. Version /\ r \in Nat /\ at \in Nat
      BY <1>2
    <3>2. At(r)[p] <= r /\ At(at)[p] <= at /\ At(r)[p] \in Nat /\ At(at)[p] \in Nat
      BY <3>1, HistoryFacts DEF HistoryInv
    <3>3. CASE r <= at
      <4>1. Still(p, r, at) /\ r \in 1 .. at
        BY <1>2, <2>6, <3>3, <3>1 DEF Still
      <4>2. At(at)[p] = At(r)[p]
        BY <3>1, <4>1 DEF HistoryInv
      <4> QED
        BY <1>3, <2>2, <3>2, <4>2
    <3>4. CASE at < r
      BY <1>3, <2>2, <3>1, <3>2, <3>4
    <3> QED
      BY <3>1, <3>3, <3>4
  <2>7. Converging(p)
    BY <2>5, <2>6 DEF Converging
  <2> QED
    BY <2>3, <2>4, <2>7
<1>5. \A p \in Paths : InWindow(p)' /\ NotBack(p)' /\ Converging(p)'
  BY <1>1, <1>4 DEF InWindow, NotBack, Converging, Still, At
<1> QED
  BY <1>1, <1>3, <1>5 DEF ReplayInv

\* One more event is replayed.
LEMMA ReplayGoesOn ==
  ASSUME TypeOK, HistoryInv, ProgressInv, EventsInv, OrderInv, ReplayInv, Sync
  PROVE  ReplayInv'
<1>1. /\ pc = "sync" /\ pc' = "sync" /\ synced < Len(events) /\ synced' = synced + 1
      /\ list' = Replayed(events[synced + 1])
      /\ UNCHANGED <<history, startRV, endRV, listedAt, held, events, raced>>
  BY DEF Sync, watching
<1>2. /\ startRV \in 2 .. Version /\ endRV \in startRV + 2 .. Version
      /\ \A k \in Kinds : listedAt[k] \in startRV + 1 .. endRV - 1
      /\ Version \in Nat /\ startRV \in Nat /\ endRV \in Nat /\ synced \in Nat
      /\ Len(events) \in Nat /\ DOMAIN events = 1 .. Len(events)
  <2>1. pc \in {"drain", "sync", "done"}
    BY <1>1
  <2>2. events \in Seq(Nat) /\ startRV \in Nat /\ endRV \in Nat /\ synced \in Nat
    BY DEF TypeOK
  <2>3. Len(events) \in Nat /\ DOMAIN events = 1 .. Len(events)
    BY <2>2
  <2> QED
    BY <2>1, <2>2, <2>3, WindowFacts, HistoryFacts
<1>3. PICK e \in startRV + 1 .. Version : e = events[synced + 1]
  BY <1>1, <1>2 DEF EventsInv
<1>4. PICK q \in Paths : q = history[e].path
  BY <1>2, <1>3 DEF HistoryInv
<1>5. At(e)[q] = IF history[e].type = "Deleted" THEN 0 ELSE e
  BY <1>2, <1>3, <1>4 DEF HistoryInv
<1>6. list[q] \in Nat /\ list \in [Paths -> Nat] /\ e \in Nat
  BY <1>2, <1>3 DEF TypeOK
<1>7. list' = IF e < endRV /\ e > list[q] THEN [list EXCEPT ![q] = At(e)[q]] ELSE list
  BY <1>1, <1>3, <1>4, <1>5 DEF Replayed, IsOlder, IsNewer
<1>8. /\ e < endRV /\ e > list[q] => list'[q] = At(e)[q]
      /\ ~(e < endRV /\ e > list[q]) => list'[q] = list[q]
      /\ \A p \in Paths : p # q => list'[p] = list[p]
  BY <1>6, <1>7
<1>9. \A n \in 1 .. synced' : n \in 1 .. synced \/ events[n] = e
  BY <1>1, <1>2, <1>3
<1>10. 1 .. synced \subseteq 1 .. synced' /\ synced' \in 1 .. synced' /\ events[synced'] = e
  BY <1>1, <1>2, <1>3
\* Of the events of the path, those replayed before came earlier.
<1>11. ASSUME ~raced, NEW n \in 1 .. synced, history[events[n]].path = q
       PROVE  events[n] < e
  <2>1. n \in DOMAIN events /\ synced + 1 \in DOMAIN events /\ n < synced + 1
    BY <1>1, <1>2
  <2>2. Of(events[n]) = Of(events[synced + 1])
    BY <1>3, <1>4, <1>11 DEF Of
  <2> QED
    BY <1>3, <1>11, <2>1, <2>2 DEF OrderInv
<1>12. ASSUME NEW p \in Paths
       PROVE  InWindow(p)'
  <2>1. InWindow(p)
    BY <1>1 DEF ReplayInv
  <2>2. CASE list'[p] = list[p]
    BY <1>1, <2>1, <2>2 DEF InWindow, At
  <2>3. CASE list'[p] # list[p]
    <3>1. p = q /\ e < endRV /\ list'[p] = At(e)[p]
      BY <1>8, <2>3
    <3>2. e \in startRV + 1 .. endRV - 1
      BY <1>2, <1>3, <3>1
    <3> QED
      BY <1>1, <3>1, <3>2 DEF InWindow, At
  <2> QED
    BY <2>2, <2>3
<1>13. ASSUME NEW p \in Paths, ~raced
       PROVE  NotBack(p)'
  <2>1. PICK at \in startRV + 1 .. endRV - 1 : at = listedAt[KindOf[p]] /\ at = listedAt'[KindOf[p]]
    BY <1>1, <1>2, ResourcesAssumption
  <2>2. at \in 1 .. Version /\ at \in Nat /\ At(at)[p] \in Nat
    BY <1>2, HistoryFacts
  <2> SUFFICES ASSUME At(at)[p] # 0
               PROVE  \/ list'[p] = At(at)[p]
                      \/ \E n \in 1 .. synced' :
                           /\ events[n] \in at + 1 .. endRV - 1
                           /\ history[events[n]].path = p
                           /\ list'[p] = At(events[n])[p]
    BY <1>1, <2>1 DEF NotBack, At
  <2>3. \/ list[p] = At(at)[p]
        \/ \E n \in 1 .. synced :
             /\ events[n] \in at + 1 .. endRV - 1
             /\ history[events[n]].path = p
             /\ list[p] = At(events[n])[p]
    BY <1>1, <1>13, <2>1 DEF ReplayInv, NotBack
  <2>4. CASE list'[p] = list[p]
    BY <1>10, <2>3, <2>4
  <2>5. CASE list'[p] # list[p]
    <3>1. p = q /\ e < endRV /\ e > list[p] /\ list'[p] = At(e)[p]
      BY <1>8, <2>5
    <3>2. at < e
      <4>1. CASE list[p] = At(at)[p]
        <5>1. Still(p, At(at)[p], at)
          BY <2>2 DEF HistoryInv
        <5> QED
          BY <1>4, <1>6, <2>2, <3>1, <4>1, <5>1 DEF Still
      <4>2. CASE \E n \in 1 .. synced :
                   events[n] \in at + 1 .. endRV - 1 /\ history[events[n]].path = p
        <5>1. PICK n \in 1 .. synced :
                events[n] \in at + 1 .. endRV - 1 /\ history[events[n]].path = p
          BY <4>2
        <5>2. events[n] < e
          BY <1>11, <1>13, <3>1, <5>1
        <5> QED
          BY <1>2, <1>6, <2>2, <5>1, <5>2
      <4> QED
        BY <2>3, <4>1, <4>2
    <3>3. e \in at + 1 .. endRV - 1
      BY <1>2, <1>6, <2>2, <3>1, <3>2
    <3> QED
      BY <1>4, <1>10, <3>1, <3>3
  <2> QED
    BY <2>4, <2>5
<1>14. ASSUME NEW p \in Paths, ~raced
       PROVE  Converging(p)'
  <2>1. Converging(p)
    BY <1>1, <1>14 DEF ReplayInv
  <2>2. ASSUME Still(p, startRV + 1, endRV - 1)
        PROVE  list'[p] = At(endRV - 1)[p]
    <3>1. CASE list'[p] = list[p]
      BY <2>1, <2>2, <3>1 DEF Converging
    <3>2. CASE list'[p] # list[p]
      <4>1. p = q /\ e < endRV /\ list'[p] = At(e)[p]
        BY <1>8, <3>2
      <4>2. e = startRV + 1
        BY <1>2, <1>3, <1>4, <2>2, <4>1 DEF Still
      <4>3. endRV - 1 \in 1 .. Version /\ e \in 1 .. endRV - 1
        BY <1>2, <4>2
      <4> QED
        BY <2>2, <4>1, <4>2, <4>3 DEF HistoryInv
    <3> QED
      BY <3>1, <3>2
  <2>3. ASSUME NEW r \in startRV + 2 .. endRV - 1,
               history[r].path = p, Still(p, r, endRV - 1)
        PROVE  /\ list'[p] <= r
               /\ list'[p] = r => At(r)[p] = r
               /\ (\E n \in 1 .. synced' : events[n] = r) => list'[p] = At(r)[p]
    <3>1. /\ list[p] <= r
          /\ list[p] = r => At(r)[p] = r
          /\ (\E n \in 1 .. synced : events[n] = r) => list[p] = At(r)[p]
      BY <2>1, <2>3 DEF Converging
    <3>2. r \in Nat /\ r < endRV /\ r # 0
      BY <1>2
    <3>3. CASE p # q
      <4>1. list'[p] = list[p]
        BY <1>8, <3>3
      <4>2. r # e
        BY <1>4, <2>3, <3>3
      <4> QED
        BY <1>9, <3>1, <4>1, <4>2
    <3>4. CASE p = q /\ ~(e < endRV /\ e > list[q])
      <4>1. list'[p] = list[p]
        BY <1>8, <3>4
      <4>2. r = e => list[p] = At(r)[p]
        BY <1>6, <3>1, <3>2, <3>4
      <4> QED
        BY <1>9, <3>1, <4>1, <4>2
    <3>5. CASE p = q /\ e < endRV /\ e > list[q]
      <4>1. list'[p] = At(e)[p] /\ At(e)[p] \in {0, e}
        BY <1>5, <1>8, <3>5
      <4>2. e <= r
        BY <1>2, <1>4, <1>6, <2>3, <3>2, <3>5 DEF Still
      <4>3. list'[p] = r => At(r)[p] = r
        BY <1>6, <3>2, <4>1, <4>2
      <4>4. \A n \in 1 .. synced : events[n] # r
        BY <1>6, <1>11, <1>14, <2>3, <3>2, <3>5, <4>2
      <4>5. (\E n \in 1 .. synced' : events[n] = r) => list'[p] = At(r)[p]
        BY <1>9, <4>1, <4>4
      <4> QED
        BY <1>6, <3>2, <4>1, <4>2, <4>3, <4>5
    <3> QED
      BY <3>3, <3>4, <3>5
  <2> QED
    BY <1>1, <2>2, <2>3 DEF Converging, Still, At
<1>15. synced' <= Len(events')
  BY <1>1, <1>2
<1> QED
  BY <1>1, <1>12, <1>13, <1>14, <1>15 DEF ReplayInv

\* ReplayInv is inductive: until the replay begins it says nothing, and from
\* then on no goroutine has anything left to do.
LEMMA ReplayStep ==
  ASSUME TypeOK, HistoryInv, ProgressInv, ListInv, EventsInv, OrderInv, ReplayInv,
         Grown, [Next]_vars
  PROVE  ReplayInv'
<1> SUFFICES ASSUME pc' \in {"sync", "done"}
             PROVE  ReplayInv'
  BY DEF ReplayInv
<1>1. CASE UNCHANGED vars
  BY <1>1, ReplayKept DEF vars, ReplayInv
<1>2. ASSUME NEW p \in Paths, NEW type \in {"Added", "Modified", "Deleted"}, Write(p, type)
      PROVE  ReplayInv'
  BY <1>2, ReplayKept DEF Write, watching, ReplayInv
<1>3. ASSUME NEW k \in Kinds, Goroutine(k)
      PROVE  FALSE
  <2>1. pc \in {"sync", "done"}
    BY <1>3 DEF Goroutine, Receive, ReadEvents, AppendEvent, WatchEnds
  <2>2. held[k] = NoEvent /\ watches[k] # "open"
    BY <2>1 DEF ReplayInv, TypeOK
  <2> QED
    BY <1>3, <2>2 DEF Goroutine, Receive, ReadEvents, AppendEvent, WatchEnds
<1>4. ~CreateMarker /\ ~DeleteMarker
  BY DEF CreateMarker, DeleteMarker, Abort, AfterCall
<1>5. ~List /\ ~Watch /\ ~CallFails /\ ~Stop
  BY DEF List, Watch, CallFails, Abort, Stop
<1>6. CASE Drained
  BY <1>6, ReplayBegins
<1>7. CASE Sync
  BY <1>7, ReplayGoesOn
<1>8. CASE Archive
  BY <1>8, ReplayKept DEF Archive, watching
<1> QED
  BY <1>1, <1>2, <1>3, <1>4, <1>5, <1>6, <1>7, <1>8 DEF Next, Main

-----------------------------------------------------------------------------
(* The theorems                                                            *)

LEMMA Initially ==
  ASSUME Init
  PROVE  IndInv
<1>1. PICK found \in SUBSET (Paths \ {Marker}) :
        history = <<[path |-> NoPath, type |-> "Found",
                     now |-> [p \in Paths |-> IF p \in found THEN 1 ELSE 0]]>>
  BY DEF Init
<1> DEFINE first == [path |-> NoPath, type |-> "Found",
                     now |-> [p \in Paths |-> IF p \in found THEN 1 ELSE 0]]
<1>2. first \in Change
  BY DEF Change
<1>3. history = <<first>>
  BY <1>1
<1> HIDE DEF first
<1>4. Version = 1 /\ history[1] = first /\ history \in Seq(Change) \ {<<>>}
  BY <1>2, <1>3 DEF Version
<1>5. /\ pc = "mark" /\ taken = 0 /\ startRV = 0 /\ endRV = 0 /\ synced = 0
      /\ list = [p \in Paths |-> 0] /\ listedAt = [k \in Kinds |-> 0]
      /\ watches = [k \in Kinds |-> "none"] /\ cursor = [k \in Kinds |-> 0]
      /\ held = [k \in Kinds |-> NoEvent] /\ events = <<>> /\ raced = FALSE
  BY DEF Init
<1>6. Len(Resources) \in Nat \ {0} /\ \A n \in DOMAIN Resources : n \in Nat \ {0} /\ Resources[n] \in Kinds
  BY SomeResource
<1>7. TypeOK
  <2>1. /\ list \in [Paths -> Nat] /\ listedAt \in [Kinds -> Nat] /\ cursor \in [Kinds -> Nat]
        /\ watches \in [Kinds -> {"none", "open", "stopped"}]
        /\ held \in [Kinds -> [event : Nat, base : Seq(Nat) \cup {NotRead}] \cup {NoEvent}]
    BY <1>5
  <2>2. taken \in 0 .. Len(Resources) /\ {startRV, endRV, synced} \subseteq Nat
    BY <1>5, <1>6
  <2>3. pc \in DOMAIN AfterCall
    BY <1>5 DEF AfterCall
  <2>4. events \in Seq(Nat)
    BY <1>5
  <2>5. raced \in BOOLEAN
    BY <1>5
  <2> QED
    BY <1>4, <1>5, <2>1, <2>2, <2>3, <2>4, <2>5 DEF TypeOK
<1>8. HistoryInv
  <2>1. \A p \in Paths : At(1)[p] \in {0, 1}
    <3>1. At(1) = [p \in Paths |-> IF p \in found THEN 1 ELSE 0]
      BY <1>4 DEF At, first
    <3> QED
      BY <3>1
  <2>2. \A p \in Paths : Still(p, 1, 1)
    BY DEF Still
  <2>3. \A v \in 1 .. Version : v = 1
    BY <1>4
  <2>4. \A v \in 2 .. Version : FALSE
    BY <1>4
  <2>5. \A p \in Paths : \A v \in 1 .. Version :
          At(v)[p] <= v /\ (At(v)[p] # 0 => Still(p, At(v)[p], v))
    BY <2>1, <2>2, <2>3
  <2>6. \A p \in Paths : \A w \in 1 .. Version : \A v \in 1 .. w :
          Still(p, v, w) /\ At(w)[p] = At(v)[p]
    BY <2>2, <1>4
  <2> QED
    BY <2>4, <2>5, <2>6 DEF HistoryInv
<1>9. ProgressInv
  BY <1>5, <1>6 DEF ProgressInv
<1>10. ListInv
  BY <1>5, ResourcesAssumption DEF ListInv
<1>11. EventsInv /\ OrderInv
  BY <1>5 DEF EventsInv, OrderInv
<1>12. ReplayInv
  BY <1>5 DEF ReplayInv
<1> QED
  BY <1>7, <1>8, <1>9, <1>10, <1>11, <1>12 DEF IndInv

\* The inductive invariant, of every call of SnapshotWithClient.
THEOREM Invariance == Spec => []IndInv
<1>1. Init => IndInv
  BY Initially
<1>2. IndInv /\ [Next]_vars => IndInv'
  BY HistoryStep, TypeStep, ProgressStep, ListStep, EventsStep, OrderStep, ReplayStep DEF IndInv
<1> QED
  BY <1>1, <1>2, PTL DEF Spec

\* SnapshotWithClient keeps its types, and returns with no watch running.
THEOREM TypeCorrect == Spec => []TypeOK
<1>1. IndInv => TypeOK
  BY DEF IndInv
<1> QED
  BY <1>1, Invariance, PTL

\* However the events come, are lost or race, what SnapshotWithClient archives
\* of each path is that path between the two markers.
THEOREM Window == Spec => []OfTheWindow
<1>1. IndInv => OfTheWindow
  BY DEF IndInv, ReplayInv, InWindow, OfTheWindow
<1> QED
  BY <1>1, Invariance, PTL

\* The replay of a watch, which begins before the list it is replayed over,
\* never takes a listed resource back, if no appends have overlapped.
THEOREM NotTakenBack == Spec => []NotBeforeListing
<1>1. IndInv => NotBeforeListing
  <2> SUFFICES ASSUME IndInv, pc = "done", ~raced, NEW p \in Paths,
                      At(listedAt[KindOf[p]])[p] # 0
               PROVE  \E v \in listedAt[KindOf[p]] .. endRV - 1 : list[p] = At(v)[p]
    BY DEF NotBeforeListing
  <2>1. /\ startRV \in 2 .. Version /\ endRV \in startRV + 2 .. Version
        /\ \A k \in Kinds : listedAt[k] \in startRV + 1 .. endRV - 1
        /\ Version \in Nat
    BY WindowFacts, HistoryFacts DEF IndInv
  <2>2. PICK at \in startRV + 1 .. endRV - 1 : at = listedAt[KindOf[p]]
    BY <2>1, ResourcesAssumption
  <2>3. /\ at \in at .. endRV - 1
        /\ \A v \in at + 1 .. endRV - 1 : v \in at .. endRV - 1
    BY <2>1
  <2>4. \/ list[p] = At(at)[p]
        \/ \E n \in 1 .. synced :
             events[n] \in at + 1 .. endRV - 1 /\ list[p] = At(events[n])[p]
    BY <2>2 DEF IndInv, ReplayInv, NotBack
  <2> QED
    BY <2>2, <2>3, <2>4
<1> QED
  BY <1>1, Invariance, PTL

\* Lists read one after the other and events replayed over them make the
\* cluster as it stood at one version, if every event was heard.
THEOREM Exactness == Spec => []ExactWhenHeard
<1>1. IndInv => ExactWhenHeard
  <2> SUFFICES ASSUME IndInv, pc = "done", Heard
               PROVE  list = At(endRV - 1)
    BY DEF ExactWhenHeard
  <2>0. TypeOK /\ HistoryInv /\ ProgressInv /\ OrderInv /\ ReplayInv
    BY DEF IndInv
  <2>1. /\ startRV \in 2 .. Version /\ endRV \in startRV + 2 .. Version
        /\ Version \in Nat
    BY <2>0, WindowFacts, HistoryFacts
  <2>2. /\ endRV - 1 \in 1 .. Version /\ startRV + 1 \in 1 .. endRV - 1
        /\ \A q \in startRV + 1 .. endRV - 1 : q \in 1 .. Version /\ q < endRV /\ q \in Nat
    BY <2>1
  <2>3. synced = Len(events) /\ ~raced /\ \A k \in Kinds : held[k] = NoEvent
    BY <2>0 DEF ReplayInv, Heard
  <2>4. ASSUME NEW k \in Kinds
        PROVE  watches[k] # "none"
    <3>1. PICK n \in DOMAIN Resources : Resources[n] = k
      BY ResourcesAssumption
    <3>2. n <= taken
      BY <2>0, <3>1, SomeResource DEF ProgressInv
    <3> QED
      BY <2>0, <3>1, <3>2 DEF ProgressInv
  <2>5. ASSUME NEW p \in Paths
        PROVE  list[p] = At(endRV - 1)[p]
    <3>1. Converging(p)
      BY <2>0, <2>3 DEF ReplayInv
    <3>2. CASE Still(p, startRV + 1, endRV - 1)
      BY <3>1, <3>2 DEF Converging
    <3>3. CASE ~Still(p, startRV + 1, endRV - 1)
      <4>1. PICK q \in startRV + 2 .. endRV - 1 :
              history[q].path = p /\ Still(p, q, endRV - 1)
        <5>1. \E q \in startRV + 1 + 1 .. endRV - 1 :
                history[q].path = p /\ Still(p, q, endRV - 1)
          BY <2>0, <2>2, <3>3 DEF HistoryInv
        <5> QED
          BY <2>1, <5>1
      <4>2. At(endRV - 1)[p] = At(q)[p]
        BY <2>0, <2>1, <2>2, <4>1 DEF HistoryInv
      <4>3. KindOf[p] \in Kinds /\ Of(q) = KindOf[p]
        BY <4>1, ResourcesAssumption DEF Of
      <4>4. q \in startRV + 1 .. cursor[KindOf[p]]
        <5>1. q \notin Pending(KindOf[p])
          BY <2>1, <4>3 DEF Heard
        <5>2. cursor[KindOf[p]] \in Nat
          BY <2>0, <4>3 DEF TypeOK
        <5> QED
          BY <2>1, <4>3, <5>1, <5>2 DEF Pending, Of
      <4>5. PICK n \in DOMAIN events : events[n] = q
        BY <2>0, <2>3, <2>4, <4>3, <4>4 DEF OrderInv
      <4>6. n \in 1 .. synced
        BY <2>0, <2>3, <4>5 DEF TypeOK
      <4> QED
        BY <3>1, <4>1, <4>2, <4>5, <4>6 DEF Converging
    <3> QED
      BY <3>2, <3>3
  <2>6. At(endRV - 1) \in [Paths -> Nat] /\ list \in [Paths -> Nat]
    BY <2>0, <2>2, HistoryFacts DEF TypeOK
  <2> QED
    BY <2>5, <2>6
<1> QED
  BY <1>1, Invariance, PTL
===============================================================================
