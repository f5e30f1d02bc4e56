------------------------- MODULE ClusterRestore_proofs -------------------------
(***************************************************************************)
(* Proofs about ClusterRestore, for any archives, preferences, targets and *)
(* any number of calls: what a call creates follows the rules of its       *)
(* preference, its status accounts for every item of the archive, and what *)
(* it takes apart finds each other again.                                  *)
(***************************************************************************)
EXTENDS ClusterRestore, FiniteSetTheorems, WellFoundedInduction, TLAPS

-----------------------------------------------------------------------------
(* The helpers.                                                            *)

\* An item has one directory, or stays in the archive.
LEMMA OneDirectory ==
  ASSUME NEW p, NEW i
  PROVE  PreferedToRestore(p, i) \in Dirs \cup {"Exclude"}
BY DEF PreferedToRestore, Dirs

\* Sorting puts each item where its preference says.
LEMMA SortedTyped ==
  ASSUME NEW p, NEW items
  PROVE  /\ Sorted(p, items) \in [Dirs -> SUBSET items]
         /\ \A d \in Dirs : Sorted(p, items)[d] = {i \in items : PreferedToRestore(p, i) = d}
BY DEF Sorted

\* A pass has items of the archive.
LEMMA PassTyped ==
  ASSUME NEW a, NEW d \in [Dirs -> SUBSET a], NEW step
  PROVE  PassItems(d, step) \subseteq a
<1>1. CASE step \in DirPasses
  <2>1. step \in Dirs
    BY <1>1 DEF DirPasses, Dirs
  <2> QED
    BY <1>1, <2>1 DEF PassItems
<1>2. CASE step = "PVC"
  <2>1. step \in Dirs /\ step \notin DirPasses
    BY <1>2 DEF DirPasses, Dirs
  <2> QED
    BY <1>2, <2>1 DEF PassItems
<1>3. CASE step \notin DirPasses /\ step # "PVC"
  BY <1>3 DEF PassItems
<1> QED
  BY <1>1, <1>2, <1>3

\* The passes, one after the other.
LEMMA PassOrder ==
  /\ NextStep["Namespace"] = "CRD" /\ NextStep["CRD"] = "reload"
  /\ NextStep["reload"] = "PVC"    /\ NextStep["PVC"] = "Restore"
  /\ NextStep["Restore"] = "App"   /\ NextStep["App"] = "cleanup"
BY DEF NextStep, DirPasses

\* What creating an item does to the target.
LEMMA ItemCreated ==
  ASSUME TypeOK, NEW i \in Item, NEW list, CreateItem(i, list)
  PROVE  /\ list \in {"created", "existed", "failed"}
         /\ cluster' \subseteq Item
         /\ budget' \in [BudgetKinds -> Nat]
<1>1. CASE Spend("fault")
  <2>1. budget' \in [BudgetKinds -> Nat]
    BY <1>1 DEF Spend, TypeOK, BudgetKinds
  <2> QED
    BY <2>1 DEF CreateItem, TypeOK
<1>2. CASE UNCHANGED budget
  BY <1>2 DEF CreateItem, TypeOK
<1> QED
  BY <1>1, <1>2 DEF CreateItem

\* Spending leaves a budget.
LEMMA Spent ==
  ASSUME TypeOK, NEW kind \in BudgetKinds, Spend(kind)
  PROVE  budget' \in [BudgetKinds -> Nat]
BY DEF Spend, TypeOK, BudgetKinds

-----------------------------------------------------------------------------
(* Types.                                                                  *)

\* Everything has its type at the beginning.
LEMMA TypeInit == Init => TypeOK
<1> SUFFICES ASSUME Init PROVE TypeOK
  OBVIOUS
<1>1. /\ archive \subseteq Item
      /\ pref \in [Restores -> Preference]
      /\ cluster \subseteq Item
      /\ budget \in [BudgetKinds -> Nat]
  BY RestoreAssumption DEF Init
<1>2. pc \in [Restores -> Steps] /\ tries \in [Restores -> 0 .. MaxTries]
  BY RestoreAssumption DEF Init, Steps
<1>3. EmptyDirs \in [Dirs -> SUBSET archive] /\ EmptyStatus \in [Lists -> SUBSET archive]
  BY DEF EmptyDirs, EmptyStatus
<1>4. dirs \in [Restores -> [Dirs -> SUBSET archive]] /\ status \in [Restores -> [Lists -> SUBSET archive]]
  BY <1>3 DEF Init
<1>5. /\ stored \in BOOLEAN /\ tgz \in {"none", "cut", "whole"}
      /\ served \in [Restores -> SUBSET Kinds]
      /\ tempdir \subseteq Restores /\ todo \in [Restores -> SUBSET archive]
      /\ bound \subseteq Item \X Item /\ kinds \subseteq Custom /\ markers \subseteq Restores
  BY DEF Init
<1> QED
  BY <1>1, <1>2, <1>4, <1>5 DEF TypeOK

\* What the target does is typed, and no call notices it at once.
LEMMA TargetTyped ==
  ASSUME TypeOK, TargetNext
  PROVE  TypeOK' /\ UNCHANGED <<callVars, archive, pref, markers>>
<1>1. ASSUME NEW c \in cluster, NEW v \in cluster, Bind(c, v)
      PROVE  TypeOK' /\ UNCHANGED <<callVars, archive, pref, markers>>
  BY <1>1 DEF Bind, TypeOK, callVars, sourceVars
<1>2. ASSUME NEW x \in cluster, Establish(x)
      PROVE  TypeOK' /\ UNCHANGED <<callVars, archive, pref, markers>>
  <2>1. x.defines \in Custom
    BY <1>2 DEF Establish, TypeOK, Item
  <2> QED
    BY <1>2, <2>1 DEF Establish, TypeOK, callVars, sourceVars
<1>3. ASSUME NEW x \in cluster, OtherDeletes(x)
      PROVE  TypeOK' /\ UNCHANGED <<callVars, archive, pref, markers>>
  <2>1. budget' \in [BudgetKinds -> Nat]
    BY <1>3, Spent DEF OtherDeletes, BudgetKinds
  <2> QED
    BY <1>3, <2>1 DEF OtherDeletes, TypeOK, callVars, sourceVars
<1>4. ASSUME NEW i \in archive, OtherCreates(i)
      PROVE  TypeOK' /\ UNCHANGED <<callVars, archive, pref, markers>>
  <2>1. budget' \in [BudgetKinds -> Nat]
    BY <1>4, Spent DEF OtherCreates, BudgetKinds
  <2> QED
    BY <1>4, <2>1 DEF OtherCreates, TypeOK, callVars, sourceVars
<1>5. ASSUME FileDeleted
      PROVE  TypeOK' /\ UNCHANGED <<callVars, archive, pref, markers>>
  <2>1. budget' \in [BudgetKinds -> Nat]
    BY <1>5, Spent DEF FileDeleted, BudgetKinds
  <2> QED
    BY <1>5, <2>1 DEF FileDeleted, TypeOK, callVars, clusterVars
<1> QED
  BY <1>1, <1>2, <1>3, <1>4, <1>5 DEF TargetNext

\* An item of a call is one of the archive.
LEMMA ItemsAreItems ==
  ASSUME TypeOK, NEW r \in Restores
  PROVE  /\ archive \subseteq Item /\ dirs[r] \in [Dirs -> SUBSET archive]
         /\ todo[r] \subseteq archive /\ status[r] \in [Lists -> SUBSET archive]
         /\ \A c : VolumesOf(c, dirs[r]["PV"]) \subseteq archive \cap dirs[r]["PV"]
<1>1. dirs[r] \in [Dirs -> SUBSET archive]
  BY DEF TypeOK
<1>2. dirs[r]["PV"] \subseteq archive
  BY <1>1 DEF Dirs
<1>3. \A c : VolumesOf(c, dirs[r]["PV"]) \subseteq archive \cap dirs[r]["PV"]
  BY <1>2 DEF VolumesOf
<1> QED
  BY <1>1, <1>3 DEF TypeOK

\* Counting an item is typed.
LEMMA CountTyped ==
  ASSUME TypeOK, NEW r \in Restores, NEW i \in archive, NEW list \in Lists, Count(r, i, list)
  PROVE  /\ status' \in [Restores -> [Lists -> SUBSET archive]]
         /\ status'[r] = [status[r] EXCEPT ![list] = @ \cup {i}]
         /\ \A s \in Restores \ {r} : status'[s] = status[s]
<1>1. status \in [Restores -> [Lists -> SUBSET archive]]
  BY DEF TypeOK
<1>2. [status[r] EXCEPT ![list] = @ \cup {i}] \in [Lists -> SUBSET archive]
  BY <1>1
<1> QED
  BY <1>1, <1>2 DEF Count

\* A step of a call is typed: download and extraction.
LEMMA StartTyped ==
  ASSUME TypeOK, NEW r \in Restores,
         CreateFile(r) \/ Download(r) \/ Discover(r) \/ Extract(r)
  PROVE  TypeOK'
<1> USE DEF Steps, DirPasses
<1>1. CASE CreateFile(r)
  BY <1>1 DEF CreateFile, Goto, TypeOK, clusterVars
<1>2. CASE Download(r)
  BY <1>2 DEF Download, Goto, Abort, TypeOK, clusterVars
<1>3. CASE Discover(r)
  <2>1. NewServerResources \subseteq Kinds
    BY DEF NewServerResources, TypeOK, Kinds
  <2> QED
    BY <1>3, <2>1 DEF Discover, Goto, TypeOK, clusterVars, sourceVars
<1>4. CASE Extract(r)
  <2> DEFINE sorted == Sorted(pref[r], archive)
             left   == {i \in archive : PreferedToRestore(pref[r], i) = "Exclude"}
  <2>1. sorted \in [Dirs -> SUBSET archive] /\ sorted["Namespace"] \subseteq archive
    BY SortedTyped DEF Dirs
  <2>2. left \subseteq archive
    OBVIOUS
  <2>3. dirs' = [dirs EXCEPT ![r] = sorted] \/ UNCHANGED dirs
    BY <1>4 DEF Extract
  <2>4. todo' = [todo EXCEPT ![r] = sorted["Namespace"]] \/ UNCHANGED todo
    BY <1>4 DEF Extract
  <2>5. status' = [status EXCEPT ![r].preference = left] \/ UNCHANGED status
    BY <1>4 DEF Extract
  <2>6. pc' \in [Restores -> Steps] /\ tempdir' \subseteq Restores
    BY <1>4 DEF Extract, Goto, TypeOK
  <2>7. UNCHANGED <<served, tries, sourceVars, clusterVars, budget>>
    BY <1>4 DEF Extract
  <2> HIDE DEF sorted, left
  <2>8. dirs' \in [Restores -> [Dirs -> SUBSET archive]]
    BY <2>1, <2>3 DEF TypeOK
  <2>9. todo' \in [Restores -> SUBSET archive]
    BY <2>1, <2>4 DEF TypeOK
  <2>10. status' \in [Restores -> [Lists -> SUBSET archive]]
    <3>1. CASE status' = [status EXCEPT ![r].preference = left]
      <4>1. status[r] \in [Lists -> SUBSET archive] /\ "preference" \in Lists
        BY DEF TypeOK, Lists
      <4>2. [status[r] EXCEPT !.preference = left] \in [Lists -> SUBSET archive]
        BY <4>1, <2>2
      <4> QED
        BY <3>1, <4>2 DEF TypeOK
    <3> QED
      BY <3>1, <2>5 DEF TypeOK
  <2> QED
    BY <2>6, <2>7, <2>8, <2>9, <2>10 DEF TypeOK, sourceVars, clusterVars
<1> QED
  BY <1>1, <1>2, <1>3, <1>4

\* A step of a call is typed: the end of a pass, and the end of the call.
LEMMA TurnTyped ==
  ASSUME TypeOK, NEW r \in Restores,
         PassDone(r) \/ Reload(r) \/ UnknownKind(r) \/ Cleanup(r) \/ CreateMarker(r)
           \/ DeleteMarker(r) \/ MarkerFailed(r) \/ Fail(r)
  PROVE  TypeOK'
<1> USE DEF Steps, DirPasses
<1>1. ASSUME Turn(r), pc[r] \in DirPasses \cup {"reload", "PVC"}
      PROVE  /\ pc' \in [Restores -> Steps]
             /\ todo' \in [Restores -> SUBSET archive]
  <2>1. NextStep[pc[r]] \in Steps
    BY <1>1, PassOrder
  <2>2. PassItems(dirs[r], NextStep[pc[r]]) \subseteq archive
    BY PassTyped, ItemsAreItems
  <2>3. /\ pc' = [pc EXCEPT ![r] = NextStep[pc[r]]]
        /\ todo' = [todo EXCEPT ![r] = PassItems(dirs[r], NextStep[pc[r]])]
    BY <1>1 DEF Turn, Goto
  <2> QED
    BY <2>1, <2>2, <2>3 DEF TypeOK
<1>2. CASE PassDone(r)
  <2>1. Turn(r) /\ pc[r] \in DirPasses \cup {"reload", "PVC"}
    BY <1>2 DEF PassDone
  <2> QED
    BY <1>1, <1>2, <2>1 DEF PassDone, TypeOK, sourceVars, clusterVars
<1>3. CASE Reload(r)
  <2>1. Turn(r) /\ pc[r] \in DirPasses \cup {"reload", "PVC"}
    BY <1>3 DEF Reload
  <2>2. NewServerResources \subseteq Kinds
    BY DEF NewServerResources, TypeOK, Kinds
  <2> QED
    BY <1>1, <1>3, <2>1, <2>2 DEF Reload, TypeOK, sourceVars, clusterVars
<1>4. CASE UnknownKind(r)
  BY <1>4 DEF UnknownKind, Abort, Goto, TypeOK, sourceVars, clusterVars
<1>5. CASE Cleanup(r)
  BY <1>5 DEF Cleanup, Goto, TypeOK, sourceVars, clusterVars
<1>6. CASE CreateMarker(r)
  BY <1>6 DEF CreateMarker, Goto, TypeOK, sourceVars
<1>7. CASE DeleteMarker(r)
  BY <1>7 DEF DeleteMarker, Goto, TypeOK, sourceVars
<1>8. CASE MarkerFailed(r)
  <2>1. budget' \in [BudgetKinds -> Nat]
    BY <1>8, Spent DEF MarkerFailed, BudgetKinds
  <2>2. markers' \subseteq Restores
    BY <1>8 DEF MarkerFailed, TypeOK
  <2> QED
    BY <1>8, <2>1, <2>2 DEF MarkerFailed, Abort, Goto, TypeOK, sourceVars
<1>9. CASE Fail(r)
  <2>1. budget' \in [BudgetKinds -> Nat]
    BY <1>9, Spent DEF Fail, BudgetKinds
  <2> QED
    BY <1>9, <2>1 DEF Fail, Abort, Goto, TypeOK, sourceVars, clusterVars
<1> QED
  BY <1>2, <1>3, <1>4, <1>5, <1>6, <1>7, <1>8, <1>9

\* A step of a call is typed: an item, a volume or a claim.
LEMMA ItemTyped ==
  ASSUME TypeOK, NEW r \in Restores,
         RestoreItem(r) \/ ClaimExcluded(r) \/ RestoreVolume(r) \/ RestoreClaim(r) \/ WaitBound(r)
  PROVE  TypeOK'
<1> USE DEF Steps, DirPasses
<1>1. \A l \in {"created", "existed", "failed", "excluded"} : l \in Lists
  BY DEF Lists
<1>2. archive \subseteq Item /\ todo[r] \subseteq archive
  BY ItemsAreItems
<1>3. ASSUME NEW i, Without(r, i)
      PROVE  todo' \in [Restores -> SUBSET archive]
  BY <1>3 DEF Without, TypeOK
<1>4. CASE RestoreItem(r)
  <2>1. PICK i \in todo[r] :
          /\ \/ Count(r, i, "excluded") /\ UNCHANGED <<cluster, budget>>
             \/ \E list \in Lists : CreateItem(i, list) /\ Count(r, i, list)
          /\ Without(r, i)
    BY <1>4 DEF RestoreItem
  <2>2. status' \in [Restores -> [Lists -> SUBSET archive]]
    BY <1>1, <1>2, <2>1, CountTyped
  <2>3. cluster' \subseteq Item /\ budget' \in [BudgetKinds -> Nat]
    BY <1>2, <2>1, ItemCreated DEF TypeOK
  <2> QED
    BY <1>3, <1>4, <2>1, <2>2, <2>3 DEF RestoreItem, TypeOK, sourceVars
<1>5. CASE ClaimExcluded(r)
  <2>1. PICK c \in todo[r] : Count(r, c, "excluded") /\ Without(r, c)
    BY <1>5 DEF ClaimExcluded
  <2>2. status' \in [Restores -> [Lists -> SUBSET archive]]
    BY <1>1, <1>2, <2>1, CountTyped
  <2> QED
    BY <1>3, <1>5, <2>1, <2>2 DEF ClaimExcluded, TypeOK, sourceVars, clusterVars
<1>6. CASE RestoreVolume(r)
  <2>0. PICK c \in todo[r] : \E v \in VolumesOf(c, dirs[r]["PV"]) :
          \/ Count(r, v, "excluded") /\ Without(r, c) /\ UNCHANGED <<pc, cluster, budget>>
          \/ \E list \in Lists :
               /\ CreateItem(v, list) /\ Count(r, v, list)
               /\ \/ Goto(r, "claim") /\ UNCHANGED todo
                  \/ Without(r, c) /\ UNCHANGED pc
    BY <1>6 DEF RestoreVolume
  <2>1. PICK v \in VolumesOf(c, dirs[r]["PV"]) :
          \/ Count(r, v, "excluded") /\ Without(r, c) /\ UNCHANGED <<pc, cluster, budget>>
          \/ \E list \in Lists :
               /\ CreateItem(v, list) /\ Count(r, v, list)
               /\ \/ Goto(r, "claim") /\ UNCHANGED todo
                  \/ Without(r, c) /\ UNCHANGED pc
    BY <2>0
  <2>2. v \in archive
    BY ItemsAreItems
  <2>3. status' \in [Restores -> [Lists -> SUBSET archive]]
    BY <1>1, <2>1, <2>2, CountTyped
  <2>4. cluster' \subseteq Item /\ budget' \in [BudgetKinds -> Nat]
    BY <1>2, <2>1, <2>2, ItemCreated DEF TypeOK
  <2>5. todo' \in [Restores -> SUBSET archive] /\ pc' \in [Restores -> Steps]
    BY <1>3, <2>1 DEF Goto, TypeOK
  <2> QED
    BY <1>6, <2>3, <2>4, <2>5 DEF RestoreVolume, TypeOK, sourceVars
<1>7. CASE RestoreClaim(r)
  <2>1. PICK c \in todo[r], list \in Lists :
          /\ CreateItem(c, list) /\ Count(r, c, list)
          /\ \/ Goto(r, "wait") /\ UNCHANGED todo
             \/ Goto(r, "PVC") /\ Without(r, c)
    BY <1>7 DEF RestoreClaim
  <2>2. status' \in [Restores -> [Lists -> SUBSET archive]]
    BY <1>2, <2>1, CountTyped
  <2>3. cluster' \subseteq Item /\ budget' \in [BudgetKinds -> Nat]
    BY <1>2, <2>1, ItemCreated DEF TypeOK
  <2>4. todo' \in [Restores -> SUBSET archive] /\ pc' \in [Restores -> Steps]
    BY <1>3, <2>1 DEF Goto, TypeOK
  <2>5. tries' \in [Restores -> 0 .. MaxTries]
    BY <1>7, RestoreAssumption DEF RestoreClaim, TypeOK
  <2> QED
    BY <1>7, <2>2, <2>3, <2>4, <2>5 DEF RestoreClaim, TypeOK, sourceVars
<1>8. CASE WaitBound(r)
  <2>1. PICK c \in todo[r] :
          \/ Without(r, c) /\ Goto(r, "PVC") /\ UNCHANGED <<served, dirs, tempdir, tries, status>>
          \/ /\ tries[r] < MaxTries
             /\ tries' = [tries EXCEPT ![r] = @ + 1]
             /\ UNCHANGED <<pc, served, dirs, tempdir, todo, status>>
          \/ Abort(r)
    BY <1>8 DEF WaitBound
  <2>2. tries' \in [Restores -> 0 .. MaxTries]
    BY <2>1, RestoreAssumption DEF TypeOK, Abort
  <2>3. todo' \in [Restores -> SUBSET archive] /\ pc' \in [Restores -> Steps]
    BY <1>3, <2>1 DEF Goto, Abort, TypeOK
  <2>4. UNCHANGED <<served, dirs, tempdir, status, sourceVars, clusterVars, budget>>
    BY <1>8, <2>1 DEF WaitBound, Abort
  <2> QED
    BY <2>2, <2>3, <2>4 DEF TypeOK, sourceVars, clusterVars
<1> QED
  BY <1>4, <1>5, <1>6, <1>7, <1>8

\* Every reachable state is typed: whatever the archives, preferences and
\* targets, a call handles items of its archive and looks at a claim at most
\* as often as it may.
THEOREM TypeCorrect == Spec => []TypeOK
<1>1. ASSUME TypeOK, [Next]_vars PROVE TypeOK'
  <2>1. CASE Next
    <3>1. ASSUME NEW r \in Restores, CallNext(r) PROVE TypeOK'
      BY <1>1, <3>1, StartTyped, TurnTyped, ItemTyped DEF CallNext
    <3> QED
      BY <1>1, <2>1, <3>1, TargetTyped DEF Next
  <2>2. CASE UNCHANGED vars
    BY <1>1, <2>2 DEF TypeOK, vars, callVars, sourceVars, clusterVars
  <2> QED
    BY <1>1, <2>1, <2>2
<1> QED
  BY <1>1, TypeInit, PTL DEF Spec

-----------------------------------------------------------------------------
(* What a step leaves alone.                                               *)

\* The archive and the preferences stay what they are.
LEMMA SourceStays ==
  ASSUME NEW r \in Restores, CallNext(r)
  PROVE  UNCHANGED <<archive, pref>>
<1>1. UNCHANGED sourceVars => UNCHANGED <<archive, pref>>
  BY DEF sourceVars
<1>2. CASE CreateFile(r) \/ Download(r)
  BY <1>2 DEF CreateFile, Download
<1>3. CASE Discover(r) \/ Extract(r) \/ PassDone(r) \/ Reload(r)
  BY <1>1, <1>3 DEF Discover, Extract, PassDone, Reload
<1>4. CASE UnknownKind(r) \/ RestoreItem(r) \/ ClaimExcluded(r) \/ RestoreVolume(r)
  BY <1>1, <1>4 DEF UnknownKind, RestoreItem, ClaimExcluded, RestoreVolume
<1>5. CASE RestoreClaim(r) \/ WaitBound(r) \/ Cleanup(r) \/ CreateMarker(r)
  BY <1>1, <1>5 DEF RestoreClaim, WaitBound, Cleanup, CreateMarker
<1>6. CASE DeleteMarker(r) \/ MarkerFailed(r) \/ Fail(r)
  BY <1>1, <1>6 DEF DeleteMarker, MarkerFailed, Fail
<1> QED
  BY <1>2, <1>3, <1>4, <1>5, <1>6 DEF CallNext

\* What the invariant says of a call is of the call alone.
LEMMA OwnState ==
  ASSUME NEW s \in Restores, CallInv(s), UNCHANGED <<archive, pref>>,
         pc'[s] = pc[s], dirs'[s] = dirs[s], todo'[s] = todo[s], status'[s] = status[s],
         s \in tempdir' => s \in tempdir, s \in markers' => s \in markers
  PROVE  CallInv(s)'
<1>1. ExtractedFirst(s)'
  BY DEF CallInv, ExtractedFirst, Extracted, Sorted
<1>2. TodoOfPass(s)'
  BY DEF CallInv, TodoOfPass
<1>3. VolumeFirst(s)'
  BY DEF CallInv, VolumeFirst, Created
<1>4. ClaimSecond(s)'
  BY DEF CallInv, ClaimSecond, Created, Claims
<1>5. ByTheRules(s)'
  BY DEF CallInv, ByTheRules, OfDirPass, OfVolumePass, Created
<1>6. Accounted(s)'
  <2>1. Pending(s)' = Pending(s)
    BY DEF Pending, Volumes
  <2>2. Counted(s)' = Counted(s)
    BY DEF Counted
  <2>3. PassedOver(s)' = PassedOver(s)
    BY DEF PassedOver, Claims
  <2> QED
    BY <2>1, <2>2, <2>3 DEF CallInv, Accounted, Volumes
<1>7. CountedOnce(s)'
  BY DEF CallInv, CountedOnce, Volumes
<1>8. EndsClean(s)'
  BY DEF CallInv, EndsClean
<1> QED
  BY <1>1, <1>2, <1>3, <1>4, <1>5, <1>6, <1>7, <1>8 DEF CallInv

\* A step of one call changes nothing that is another's.
LEMMA OthersStay ==
  ASSUME TypeOK, NEW r \in Restores, NEW s \in Restores \ {r}, CallNext(r)
  PROVE  /\ pc'[s] = pc[s] /\ dirs'[s] = dirs[s] /\ todo'[s] = todo[s] /\ status'[s] = status[s]
         /\ tries'[s] = tries[s]
         /\ s \in tempdir' => s \in tempdir
         /\ s \in markers' => s \in markers
<1> USE DEF TypeOK
<1>1. CASE CreateFile(r)
  BY <1>1 DEF CreateFile, Goto, clusterVars
<1>2. CASE Download(r)
  BY <1>2 DEF Download, Goto, Abort, clusterVars
<1>3. CASE Discover(r)
  BY <1>3 DEF Discover, Goto, clusterVars
<1>4. CASE Extract(r)
  <2>1. pc'[s] = pc[s] /\ dirs'[s] = dirs[s] /\ todo'[s] = todo[s]
    BY <1>4 DEF Extract, Goto
  <2>2. status'[s] = status[s]
    BY <1>4 DEF Extract
  <2> QED
    BY <1>4, <2>1, <2>2 DEF Extract, clusterVars
<1>5. CASE PassDone(r)
  BY <1>5 DEF PassDone, Turn, Goto, clusterVars
<1>6. CASE Reload(r)
  BY <1>6 DEF Reload, Turn, Goto, clusterVars
<1>7. CASE UnknownKind(r)
  BY <1>7 DEF UnknownKind, Abort, Goto, clusterVars
<1>8. CASE RestoreItem(r)
  <2>1. status'[s] = status[s]
    BY <1>8 DEF RestoreItem, Count
  <2> QED
    BY <1>8, <2>1 DEF RestoreItem, Without
<1>9. CASE ClaimExcluded(r)
  <2>1. status'[s] = status[s]
    BY <1>9 DEF ClaimExcluded, Count
  <2> QED
    BY <1>9, <2>1 DEF ClaimExcluded, Without, clusterVars
<1>10. CASE RestoreVolume(r)
  <2>1. status'[s] = status[s]
    BY <1>10 DEF RestoreVolume, Count
  <2> QED
    BY <1>10, <2>1 DEF RestoreVolume, Without, Goto
<1>11. CASE RestoreClaim(r)
  <2>1. status'[s] = status[s]
    BY <1>11 DEF RestoreClaim, Count
  <2> QED
    BY <1>11, <2>1 DEF RestoreClaim, Without, Goto
<1>12. CASE WaitBound(r)
  BY <1>12 DEF WaitBound, Abort, Without, Goto, clusterVars
<1>13. CASE Cleanup(r)
  BY <1>13 DEF Cleanup, Goto, clusterVars
<1>14. CASE CreateMarker(r) \/ DeleteMarker(r)
  BY <1>14 DEF CreateMarker, DeleteMarker, Goto
<1>15. CASE MarkerFailed(r)
  BY <1>15 DEF MarkerFailed, Abort, Goto
<1>16. CASE Fail(r)
  BY <1>16 DEF Fail, Abort, Goto, clusterVars
<1> QED
  BY <1>1, <1>2, <1>3, <1>4, <1>5, <1>6, <1>7, <1>8, <1>9, <1>10, <1>11, <1>12, <1>13, <1>14,
     <1>15, <1>16 DEF CallNext

-----------------------------------------------------------------------------
(* The invariant of a call, step by step.                                  *)

\* Where items are, once the archive is sorted.
LEMMA Sorting ==
  ASSUME NEW r \in Restores, Extracted(r)
  PROVE  /\ \A d \in Dirs, i \in archive : i \in dirs[r][d] <=> PreferedToRestore(pref[r], i) = d
         /\ \A d \in Dirs : dirs[r][d] \subseteq archive
         /\ \A i \in archive : i \in dirs[r]["PV"] => i \in Volumes
         /\ \A i \in archive : i \in dirs[r]["PVC"] => i \in Claims
         /\ \A i \in archive, d \in DirPasses : i \in dirs[r][d] => i \notin Volumes \cup Claims
<1>1. \A d \in Dirs : dirs[r][d] = {i \in archive : PreferedToRestore(pref[r], i) = d}
  BY DEF Extracted, Sorted
<1>2. \A p, i : PreferedToRestore(p, i) = "PV" => i.kind = "PersistentVolume"
  BY DEF PreferedToRestore
<1>3. \A p, i : PreferedToRestore(p, i) = "PVC" => i.kind = "PersistentVolumeClaim"
  BY DEF PreferedToRestore
<1>4. \A p, i : PreferedToRestore(p, i) \in DirPasses =>
                  i.kind # "PersistentVolume" /\ i.kind # "PersistentVolumeClaim"
  BY DEF PreferedToRestore, DirPasses
<1>5. DirPasses \subseteq Dirs /\ "PV" \in Dirs /\ "PVC" \in Dirs
  BY DEF DirPasses, Dirs
<1> QED
  BY <1>1, <1>2, <1>3, <1>4, <1>5 DEF Volumes, Claims

\* Files have an order, so there is only one first.
LEMMA OneFirst ==
  ASSUME archive \in Archives, NEW T, T \subseteq archive,
         NEW c, NEW d, IsFirst(c, T), IsFirst(d, T)
  PROVE  c = d
<1>1. c \in archive /\ d \in archive
  BY DEF IsFirst
<1>2. Rank[c] \in Nat /\ Rank[d] \in Nat /\ (Rank[c] = Rank[d] => c = d)
  BY <1>1, RestoreAssumption
<1>3. Rank[c] <= Rank[d] /\ Rank[d] <= Rank[c]
  BY DEF IsFirst
<1> QED
  BY <1>2, <1>3

\* Which passes are left after a step.
LEMMA PassesLeft ==
  /\ PassesAfter("Namespace") = {"CRD", "PVC", "Restore", "App"}
  /\ PassesAfter("CRD") = {"PVC", "Restore", "App"}
  /\ PassesAfter("reload") = {"PVC", "Restore", "App"}
  /\ PassesAfter("PVC") = {"Restore", "App"}
  /\ PassesAfter("claim") = {"Restore", "App"}
  /\ PassesAfter("wait") = {"Restore", "App"}
  /\ PassesAfter("Restore") = {"App"}
  /\ \A step \in {"App", "cleanup", "marker", "unmark", "done"} : PassesAfter(step) = {}
<1>1. PassesAfter("Namespace") = {"CRD", "PVC", "Restore", "App"}
  BY DEF PassesAfter
<1>2. PassesAfter("CRD") = {"PVC", "Restore", "App"} /\ PassesAfter("reload") = {"PVC", "Restore", "App"}
  BY DEF PassesAfter
<1>3. \A step \in {"PVC", "claim", "wait"} : PassesAfter(step) = {"Restore", "App"}
  BY DEF PassesAfter
<1>4. PassesAfter("Restore") = {"App"}
  BY DEF PassesAfter
<1>5. \A step \in {"App", "cleanup", "marker", "unmark", "done"} : PassesAfter(step) = {}
  BY DEF PassesAfter
<1> QED
  BY <1>1, <1>2, <1>3, <1>4, <1>5

\* A call that fails has nothing more to answer for than what it has done.
LEMMA AbortKeeps ==
  ASSUME TypeOK, NEW r \in Restores, CallInv(r), Abort(r), UNCHANGED <<archive, pref>>
  PROVE  CallInv(r)'
<1>1. /\ pc'[r] = "failed" /\ dirs'[r] = dirs[r]
      /\ todo'[r] = todo[r] /\ status'[r] = status[r]
  BY DEF Abort, Goto, TypeOK
<1>2. ExtractedFirst(r)'
  BY <1>1 DEF CallInv, ExtractedFirst, Extracted, Sorted, EarlySteps
<1>3. TodoOfPass(r)' /\ VolumeFirst(r)' /\ Accounted(r)' /\ EndsClean(r)'
  BY <1>1 DEF TodoOfPass, VolumeFirst, Accounted, EndsClean
<1>4. ClaimSecond(r)'
  BY <1>1 DEF CallInv, ClaimSecond, Created, Claims
<1>5. ByTheRules(r)'
  BY <1>1 DEF CallInv, ByTheRules, OfDirPass, OfVolumePass, Created
<1>6. CountedOnce(r)'
  BY <1>1 DEF CallInv, CountedOnce, Volumes
<1> QED
  BY <1>2, <1>3, <1>4, <1>5, <1>6 DEF CallInv

\* Before the archive is extracted, nothing is counted.
LEMMA EarlyKeeps ==
  ASSUME TypeOK, NEW r \in Restores, CallInv(r), CreateFile(r) \/ Download(r) \/ Discover(r)
  PROVE  CallInv(r)'
<1>1. CASE Abort(r)
  BY <1>1, AbortKeeps, SourceStays DEF CallNext
<1>2. CASE ~Abort(r)
  <2>1. /\ pc[r] \in EarlySteps /\ pc'[r] \in EarlySteps
        /\ dirs'[r] = dirs[r] /\ todo'[r] = todo[r] /\ status'[r] = status[r]
    BY <1>2 DEF CreateFile, Download, Discover, Goto, EarlySteps, TypeOK
  <2>2. UNCHANGED <<archive, pref>>
    BY SourceStays DEF CallNext
  <2>3. status[r] = EmptyStatus
    BY <2>1 DEF CallInv, ExtractedFirst
  <2>4. \A l \in Lists : status'[r][l] = {}
    BY <2>1, <2>3 DEF EmptyStatus
  <2>5. ExtractedFirst(r)'
    BY <2>1, <2>3 DEF ExtractedFirst
  <2>6. \A step \in EarlySteps : PassItems(dirs[r], PassOf(step)) = {}
    <3>1. \A step \in EarlySteps : PassOf(step) = step /\ step \notin DirPasses /\ step # "PVC"
      BY DEF EarlySteps, PassOf, DirPasses
    <3> QED
      BY <3>1 DEF PassItems
  <2>7. TodoOfPass(r)'
    <3>1. pc[r] # "failed" /\ pc'[r] # "failed"
      BY <2>1 DEF EarlySteps
    <3>2. todo[r] = {}
      BY <2>1, <2>6, <3>1 DEF CallInv, TodoOfPass
    <3> QED
      BY <2>1, <3>2 DEF TodoOfPass
  <2>8. VolumeFirst(r)' /\ Accounted(r)' /\ EndsClean(r)'
    BY <2>1 DEF VolumeFirst, Accounted, EndsClean, EarlySteps
  <2>9. ClaimSecond(r)' /\ ByTheRules(r)' /\ CountedOnce(r)'
    BY <2>4 DEF ClaimSecond, ByTheRules, CountedOnce, Created, Lists
  <2> QED
    BY <2>5, <2>7, <2>8, <2>9 DEF CallInv
<1> QED
  BY <1>1, <1>2

\* All of the archive is pending when it has been sorted, but what is excluded.
LEMMA ExtractKeeps ==
  ASSUME TypeOK, NEW r \in Restores, CallInv(r), Extract(r)
  PROVE  CallInv(r)'
<1> DEFINE sorted == Sorted(pref[r], archive)
           left   == {i \in archive : PreferedToRestore(pref[r], i) = "Exclude"}
<1>1. UNCHANGED <<archive, pref>>
  BY SourceStays DEF CallNext
<1>2. pc[r] \in EarlySteps /\ status[r] = EmptyStatus
  BY DEF Extract, EarlySteps, CallInv, ExtractedFirst
<1>3. CASE pc'[r] = "failed"
  <2>1. dirs'[r] = dirs[r] /\ todo'[r] = todo[r] /\ status'[r] = status[r]
    BY <1>3 DEF Extract, Goto, TypeOK
  <2>2. \A l \in Lists : status'[r][l] = {}
    BY <1>2, <2>1 DEF EmptyStatus
  <2>3. ExtractedFirst(r)' /\ TodoOfPass(r)' /\ VolumeFirst(r)' /\ Accounted(r)' /\ EndsClean(r)'
    BY <1>2, <1>3, <2>1 DEF ExtractedFirst, TodoOfPass, VolumeFirst, Accounted, EndsClean
  <2>4. ClaimSecond(r)' /\ ByTheRules(r)' /\ CountedOnce(r)'
    BY <2>2 DEF ClaimSecond, ByTheRules, CountedOnce, Created, Lists
  <2> QED
    BY <2>3, <2>4 DEF CallInv
<1>4. CASE pc'[r] # "failed"
  <2>1. /\ pc' = [pc EXCEPT ![r] = "Namespace"]
        /\ dirs' = [dirs EXCEPT ![r] = sorted]
        /\ todo' = [todo EXCEPT ![r] = sorted["Namespace"]]
        /\ status' = [status EXCEPT ![r].preference = left]
    BY <1>4 DEF Extract, Goto, TypeOK
  <2>2. /\ pc'[r] = "Namespace" /\ dirs'[r] = sorted /\ todo'[r] = sorted["Namespace"]
        /\ status'[r] = [status[r] EXCEPT !.preference = left]
    BY <2>1 DEF TypeOK
  <2>3. /\ status'[r].preference = left
        /\ \A l \in Lists \ {"preference"} : status'[r][l] = {}
    <3>1. EmptyStatus \in [Lists -> {{}}] /\ "preference" \in Lists
      BY DEF EmptyStatus, Lists
    <3> QED
      BY <1>2, <2>2, <3>1
  <2>4. Extracted(r)'
    BY <1>1, <2>2, <2>3 DEF Extracted
  <2>5. ExtractedFirst(r)'
    BY <2>2, <2>4 DEF ExtractedFirst, EarlySteps
  <2>6. TodoOfPass(r)'
    <3>1. PassOf("Namespace") = "Namespace" /\ "Namespace" \in DirPasses
      BY DEF PassOf, DirPasses
    <3>2. \A d : PassItems(d, "Namespace") = d["Namespace"]
      BY <3>1 DEF PassItems
    <3> QED
      BY <2>2, <3>1, <3>2 DEF TodoOfPass
  <2>7. VolumeFirst(r)' /\ EndsClean(r)'
    BY <2>2 DEF VolumeFirst, EndsClean
  <2>8. ClaimSecond(r)' /\ ByTheRules(r)' /\ CountedOnce(r)'
    BY <2>3 DEF ClaimSecond, ByTheRules, CountedOnce, Created, Lists
  <2>9. Accounted(r)'
    <3>1. Counted(r)' = left
      BY <2>3 DEF Counted, Lists
    <3>2. \A d \in Dirs : sorted[d] = {i \in archive : PreferedToRestore(pref[r], i) = d}
      BY SortedTyped
    <3>3. Pending(r)' = {i \in archive \ Volumes :
             \E d \in {"Namespace", "CRD", "PVC", "Restore", "App"} :
               PreferedToRestore(pref[r], i) = d}
      <4>1. {"Namespace", "CRD", "PVC", "Restore", "App"} \subseteq Dirs
        BY DEF Dirs
      <4>2. PassesAfter("Namespace") = {"CRD", "PVC", "Restore", "App"}
        BY PassesLeft
      <4>3. \A i \in archive :
              (i \in sorted["Namespace"] \/ \E d \in {"CRD", "PVC", "Restore", "App"} : i \in sorted[d])
              <=> \E d \in {"Namespace", "CRD", "PVC", "Restore", "App"} :
                    PreferedToRestore(pref[r], i) = d
        BY <3>2, <4>1
      <4> HIDE DEF sorted, left
      <4>4. Pending(r)' = {i \in archive \ Volumes :
               i \in sorted["Namespace"] \/ \E d \in {"CRD", "PVC", "Restore", "App"} : i \in sorted[d]}
        BY <1>1, <2>2, <4>2 DEF Pending, Volumes
      <4> QED
        BY <4>3, <4>4
    <3>4. \A i \in archive : PreferedToRestore(pref[r], i) = "PV" => i \in Volumes
      BY DEF PreferedToRestore, Volumes
    <3>5. \A i : PreferedToRestore(pref[r], i) \in {"Namespace", "CRD", "PVC", "Restore", "App"}
                   \/ PreferedToRestore(pref[r], i) = "PV" \/ PreferedToRestore(pref[r], i) = "Exclude"
      BY OneDirectory DEF Dirs
    <3>6. archive \ Volumes \subseteq Pending(r)' \cup Counted(r)'
      BY <3>1, <3>3, <3>4, <3>5
    <3>7. Pending(r)' \cap Counted(r)' = {}
      BY <3>1, <3>3
    <3> QED
      BY <1>1, <3>6, <3>7 DEF Accounted, Volumes
  <2> QED
    BY <2>5, <2>6, <2>7, <2>8, <2>9 DEF CallInv
<1> QED
  BY <1>3, <1>4

\* When a pass is done the items of the next one are taken up.
LEMMA TurnKeeps ==
  ASSUME TypeOK, NEW r \in Restores, CallInv(r), PassDone(r) \/ Reload(r)
  PROVE  CallInv(r)'
<1> DEFINE old == pc[r]
           new == NextStep[pc[r]]
<1>1. UNCHANGED <<archive, pref>>
  BY SourceStays DEF CallNext
<1>2. old \in {"Namespace", "CRD", "reload", "PVC", "Restore", "App"}
  BY DEF PassDone, Reload, DirPasses
<1>3. /\ pc'[r] = new /\ todo'[r] = PassItems(dirs[r], new)
      /\ dirs'[r] = dirs[r] /\ status'[r] = status[r]
  <2>1. Turn(r)
    BY DEF PassDone, Reload
  <2>2. pc' = [pc EXCEPT ![r] = new] /\ todo' = [todo EXCEPT ![r] = PassItems(dirs[r], new)]
    BY <2>1 DEF Turn, Goto
  <2> QED
    BY <2>2 DEF PassDone, Reload, TypeOK
<1>4. todo[r] = {}
  <2>1. CASE Reload(r)
    <3>1. pc[r] = "reload"
      BY <2>1 DEF Reload
    <3>2. PassItems(dirs[r], PassOf("reload")) = {}
      BY DEF PassItems, PassOf, DirPasses
    <3> QED
      BY <3>1, <3>2 DEF CallInv, TodoOfPass
  <2> QED
    BY <2>1 DEF PassDone
<1>5. Extracted(r) /\ old \notin EarlySteps \cup {"failed", "claim", "wait"}
  BY <1>2 DEF CallInv, ExtractedFirst, EarlySteps
<1>6. new \in {"CRD", "reload", "PVC", "Restore", "App", "cleanup"}
  BY <1>2, PassOrder
<1> HIDE DEF new
<1>7. ExtractedFirst(r)'
  <2>1. Extracted(r)'
    BY <1>1, <1>3, <1>5 DEF Extracted, Sorted
  <2> QED
    BY <1>3, <1>6, <2>1 DEF ExtractedFirst, EarlySteps
<1>8. TodoOfPass(r)'
  BY <1>3, <1>6 DEF TodoOfPass, PassOf
<1>9. VolumeFirst(r)' /\ EndsClean(r)'
  BY <1>3, <1>6 DEF VolumeFirst, EndsClean
<1>10. ClaimSecond(r)'
  BY <1>1, <1>3 DEF CallInv, ClaimSecond, Created, Claims
<1>11. ByTheRules(r)'
  BY <1>1, <1>3 DEF CallInv, ByTheRules, OfDirPass, OfVolumePass, Created
<1>12. CountedOnce(r)'
  BY <1>1, <1>3 DEF CallInv, CountedOnce, Volumes
<1>13. Accounted(r)'
  <2>1. Pending(r) = {i \in archive \ Volumes : \E d \in PassesAfter(old) : i \in dirs[r][d]}
    BY <1>4 DEF Pending
  <2>2. Pending(r)' = {i \in archive \ Volumes : \/ i \in PassItems(dirs[r], new)
                                                \/ \E d \in PassesAfter(new) : i \in dirs[r][d]}
    <3>1. pc'[r] # "wait"
      BY <1>3, <1>6
    <3> QED
      BY <1>1, <1>3, <3>1 DEF Pending, Volumes
  <2>3. Counted(r)' = Counted(r) /\ PassedOver(r)' = PassedOver(r)
    BY <1>1, <1>3 DEF Counted, PassedOver, Claims
  <2>4. /\ Pending(r) \cap Counted(r) = {}
        /\ archive \ Volumes \subseteq Pending(r) \cup Counted(r) \cup PassedOver(r)
    BY <1>5 DEF CallInv, Accounted
  <2>5. \A i \in archive : i \in dirs[r]["PVC"] => i \in Claims
    BY <1>5, Sorting
  <2>6. /\ \A step \in {"CRD", "Restore", "App"} : PassItems(dirs[r], step) = dirs[r][step]
        /\ PassItems(dirs[r], "reload") = {} /\ PassItems(dirs[r], "cleanup") = {}
        /\ \/ PassItems(dirs[r], "PVC") = dirs[r]["PVC"]
           \/ PassItems(dirs[r], "PVC") = {} /\ dirs[r]["PV"] = {}
    <3>1. {"CRD", "Restore", "App"} \subseteq DirPasses
          /\ "reload" \notin DirPasses /\ "cleanup" \notin DirPasses /\ "PVC" \notin DirPasses
      BY DEF DirPasses
    <3>2. \A step \in {"CRD", "Restore", "App"} : PassItems(dirs[r], step) = dirs[r][step]
      BY <3>1 DEF PassItems
    <3>3. PassItems(dirs[r], "reload") = {} /\ PassItems(dirs[r], "cleanup") = {}
      BY <3>1 DEF PassItems
    <3>4. PassItems(dirs[r], "PVC") = IF dirs[r]["PV"] # {} THEN dirs[r]["PVC"] ELSE {}
      BY <3>1 DEF PassItems
    <3> QED
      BY <3>2, <3>3, <3>4
  <2>7. Pending(r)' \subseteq Pending(r) /\ Pending(r) \subseteq Pending(r)' \cup PassedOver(r)
    <3>1. CASE old = "Namespace"
      <4>1. new = "CRD" /\ PassesAfter(old) = {"CRD", "PVC", "Restore", "App"}
            /\ PassesAfter(new) = {"PVC", "Restore", "App"}
        BY <3>1, PassOrder, PassesLeft DEF new
      <4> QED
        BY <2>1, <2>2, <2>6, <4>1
    <3>2. CASE old = "CRD"
      <4>1. new = "reload" /\ PassesAfter(old) = {"PVC", "Restore", "App"}
            /\ PassesAfter(new) = {"PVC", "Restore", "App"}
        BY <3>2, PassOrder, PassesLeft DEF new
      <4> QED
        BY <2>1, <2>2, <2>6, <4>1
    <3>3. CASE old = "reload"
      <4>1. new = "PVC" /\ PassesAfter(old) = {"PVC", "Restore", "App"}
            /\ PassesAfter(new) = {"Restore", "App"}
        BY <3>3, PassOrder, PassesLeft DEF new
      <4>2. dirs[r]["PV"] = {} => Claims \subseteq PassedOver(r)
        BY DEF PassedOver
      <4> QED
        BY <2>1, <2>2, <2>5, <2>6, <4>1, <4>2
    <3>4. CASE old = "PVC"
      <4>1. new = "Restore" /\ PassesAfter(old) = {"Restore", "App"} /\ PassesAfter(new) = {"App"}
        BY <3>4, PassOrder, PassesLeft DEF new
      <4> QED
        BY <2>1, <2>2, <2>6, <4>1
    <3>5. CASE old = "Restore"
      <4>1. new = "App" /\ PassesAfter(old) = {"App"} /\ PassesAfter(new) = {}
        BY <3>5, PassOrder, PassesLeft DEF new
      <4> QED
        BY <2>1, <2>2, <2>6, <4>1
    <3>6. CASE old = "App"
      <4>1. new = "cleanup" /\ PassesAfter(old) = {} /\ PassesAfter(new) = {}
        BY <3>6, PassOrder, PassesLeft DEF new
      <4> QED
        BY <2>1, <2>2, <2>6, <4>1
    <3> QED
      BY <1>2, <3>1, <3>2, <3>3, <3>4, <3>5, <3>6
  <2>8. /\ Pending(r)' \cap Counted(r)' = {}
        /\ archive \ Volumes \subseteq Pending(r)' \cup Counted(r)' \cup PassedOver(r)'
    BY <2>3, <2>4, <2>7
  <2> QED
    BY <1>1, <2>8 DEF Accounted, Volumes
<1> QED
  BY <1>7, <1>8, <1>9, <1>10, <1>11, <1>12, <1>13 DEF CallInv

\* The last steps count nothing and leave nothing behind.
LEMMA EndKeeps ==
  ASSUME TypeOK, NEW r \in Restores, CallInv(r), Cleanup(r) \/ CreateMarker(r) \/ DeleteMarker(r)
  PROVE  CallInv(r)'
<1>1. UNCHANGED <<archive, pref>>
  BY SourceStays DEF CallNext
<1>2. /\ pc[r] \in {"cleanup", "marker", "unmark"} /\ pc'[r] \in {"marker", "unmark", "done"}
      /\ dirs'[r] = dirs[r] /\ todo'[r] = todo[r] /\ status'[r] = status[r]
  BY DEF Cleanup, CreateMarker, DeleteMarker, Goto, TypeOK
<1>3. Extracted(r) /\ pc[r] \notin EarlySteps \cup {"failed"}
  BY <1>2 DEF CallInv, ExtractedFirst, EarlySteps
<1>4. EndsClean(r)'
  BY DEF Cleanup, CreateMarker, DeleteMarker, Goto, TypeOK, CallInv, EndsClean
<1>5. ExtractedFirst(r)'
  <2>1. Extracted(r)'
    BY <1>1, <1>2, <1>3 DEF Extracted, Sorted
  <2> QED
    BY <1>2, <2>1 DEF ExtractedFirst, EarlySteps
<1>6. TodoOfPass(r)'
  <2>1. \A step \in {"cleanup", "marker", "unmark", "done"} : PassItems(dirs[r], PassOf(step)) = {}
    <3>1. \A step \in {"cleanup", "marker", "unmark", "done"} :
            PassOf(step) = step /\ step \notin DirPasses /\ step # "PVC"
      BY DEF PassOf, DirPasses
    <3> QED
      BY <3>1 DEF PassItems
  <2>2. todo[r] = {}
    BY <1>2, <2>1 DEF CallInv, TodoOfPass
  <2> QED
    BY <1>2, <2>2 DEF TodoOfPass
<1>7. VolumeFirst(r)'
  BY <1>2 DEF VolumeFirst
<1>8. ClaimSecond(r)'
  BY <1>1, <1>2 DEF CallInv, ClaimSecond, Created, Claims
<1>9. ByTheRules(r)'
  BY <1>1, <1>2 DEF CallInv, ByTheRules, OfDirPass, OfVolumePass, Created
<1>10. CountedOnce(r)'
  BY <1>1, <1>2 DEF CallInv, CountedOnce, Volumes
<1>11. Accounted(r)'
  <2>1. PassesAfter(pc[r]) = {} /\ PassesAfter(pc'[r]) = {}
    BY <1>2, PassesLeft
  <2>2. Pending(r)' = Pending(r)
    BY <1>1, <1>2, <2>1 DEF Pending, Volumes
  <2>3. Counted(r)' = Counted(r) /\ PassedOver(r)' = PassedOver(r)
    BY <1>1, <1>2 DEF Counted, PassedOver, Claims
  <2> QED
    BY <1>1, <1>3, <2>2, <2>3 DEF CallInv, Accounted, Volumes
<1> QED
  BY <1>4, <1>5, <1>6, <1>7, <1>8, <1>9, <1>10, <1>11 DEF CallInv

\* What counting an item adds to the account.
LEMMA CountedMore ==
  ASSUME TypeOK, NEW r \in Restores, NEW i \in archive,
         NEW list \in {"created", "existed", "failed", "excluded"}, Count(r, i, list)
  PROVE  /\ \A l \in Lists : l # list => status'[r][l] = status[r][l]
         /\ status'[r][list] = status[r][list] \cup {i}
         /\ Counted(r)' = Counted(r) \cup {i}
         /\ list = "created" => Created(r)' = Created(r) \cup {i}
         /\ list # "created" => Created(r)' = Created(r)
         /\ list = "excluded" => status'[r].excluded = status[r].excluded \cup {i}
         /\ list # "excluded" => status'[r].excluded = status[r].excluded
         /\ status'[r].preference = status[r].preference
<1>1. list \in Lists /\ {"created", "excluded", "preference"} \subseteq Lists
  BY DEF Lists
<1>2. status'[r] = [status[r] EXCEPT ![list] = @ \cup {i}]
      /\ status' \in [Restores -> [Lists -> SUBSET archive]]
  BY <1>1, CountTyped
<1>3. status[r] \in [Lists -> SUBSET archive]
  BY DEF TypeOK
<1>4. /\ \A l \in Lists : l # list => status'[r][l] = status[r][l]
      /\ status'[r][list] = status[r][list] \cup {i}
  BY <1>1, <1>2, <1>3
<1>5. Counted(r)' = Counted(r) \cup {i}
  BY <1>1, <1>4 DEF Counted
<1> QED
  BY <1>1, <1>2, <1>4, <1>5 DEF Created

\* An item that is counted once, by the rules, and not before its volume,
\* leaves the account in order.
LEMMA AccountKept ==
  ASSUME TypeOK, NEW r \in Restores, CallInv(r), UNCHANGED <<archive, pref>>,
         dirs'[r] = dirs[r],
         pc[r] \in DirPasses \cup {"PVC", "claim"}, pc'[r] \in DirPasses \cup {"PVC", "claim", "wait"},
         NEW i \in archive,
         NEW list \in {"created", "existed", "failed", "excluded"}, Count(r, i, list),
         i \in Volumes \/ i \notin Counted(r),
         \/ OfVolumePass(r, i)
         \/ /\ OfDirPass(r, i)
            /\ list = "created"  => ~LeftOut(pref[r], LookedAt(dirs[r]), i)
            /\ list = "excluded" => LeftOut(pref[r], LookedAt(dirs[r]), i),
         list = "created" /\ i \in Claims => VolumesOf(i, dirs[r]["PV"]) \cap Created(r) # {}
  PROVE  ExtractedFirst(r)' /\ ClaimSecond(r)' /\ ByTheRules(r)' /\ CountedOnce(r)' /\ EndsClean(r)'
<1>1. /\ \A l \in Lists : l # list => status'[r][l] = status[r][l]
      /\ status'[r][list] = status[r][list] \cup {i}
      /\ list = "created" => Created(r)' = Created(r) \cup {i}
      /\ list # "created" => Created(r)' = Created(r)
      /\ list = "excluded" => status'[r].excluded = status[r].excluded \cup {i}
      /\ list # "excluded" => status'[r].excluded = status[r].excluded
      /\ status'[r].preference = status[r].preference
  BY CountedMore
<1>2. pc'[r] \notin EarlySteps \cup {"failed", "marker", "unmark", "done"}
  BY DEF DirPasses, EarlySteps
<1>3. pc[r] \notin EarlySteps \cup {"failed"}
  BY DEF DirPasses, EarlySteps
<1>4. ExtractedFirst(r)'
  <2>1. Extracted(r)
    BY <1>3 DEF CallInv, ExtractedFirst
  <2>2. Extracted(r)'
    BY <1>1, <2>1 DEF Extracted, Sorted
  <2> QED
    BY <1>2, <2>2 DEF ExtractedFirst
<1>5. ClaimSecond(r)'
  <2>1. Created(r) \subseteq Created(r)' /\ Claims' = Claims
    BY <1>1 DEF Claims
  <2>2. \A c \in Claims \cap Created(r) : VolumesOf(c, dirs[r]["PV"]) \cap Created(r) # {}
    BY DEF CallInv, ClaimSecond
  <2>3. \A c \in Claims \cap Created(r)' : VolumesOf(c, dirs[r]["PV"]) \cap Created(r) # {}
    BY <1>1, <2>2
  <2>4. \A c \in Claims \cap Created(r)' : VolumesOf(c, dirs[r]["PV"]) \cap Created(r)' # {}
    BY <2>1, <2>3
  <2> QED
    BY <2>1, <2>4 DEF ClaimSecond
<1>6. ByTheRules(r)'
  <2>1. /\ \A x \in Created(r) :
             \/ OfDirPass(r, x) /\ ~LeftOut(pref[r], LookedAt(dirs[r]), x)
             \/ OfVolumePass(r, x)
        /\ \A x \in status[r].excluded :
             \/ OfDirPass(r, x) /\ LeftOut(pref[r], LookedAt(dirs[r]), x)
             \/ OfVolumePass(r, x)
    BY DEF CallInv, ByTheRules
  <2>2. /\ \A x \in Created(r)' :
             \/ OfDirPass(r, x) /\ ~LeftOut(pref[r], LookedAt(dirs[r]), x)
             \/ OfVolumePass(r, x)
        /\ \A x \in status'[r].excluded :
             \/ OfDirPass(r, x) /\ LeftOut(pref[r], LookedAt(dirs[r]), x)
             \/ OfVolumePass(r, x)
    BY <1>1, <2>1
  <2> QED
    BY <2>2 DEF ByTheRules, OfDirPass, OfVolumePass
<1>7. CountedOnce(r)'
  <2>1. \A l, k \in Lists : l # k => (status[r][l] \cap status[r][k]) \subseteq Volumes
    BY DEF CallInv, CountedOnce
  <2>2. i \in Volumes \/ \A l \in Lists : i \notin status[r][l]
    BY DEF Counted
  <2>3. ASSUME NEW l \in Lists, NEW k \in Lists, l # k,
               NEW x \in status'[r][l] \cap status'[r][k]
        PROVE  x \in Volumes
    <3>1. CASE x = i
      <4>1. i \in status[r][l] \/ i \in status[r][k]
        BY <1>1, <2>3, <3>1
      <4> QED
        BY <2>2, <3>1, <4>1
    <3>2. CASE x # i
      <4>1. x \in status[r][l] /\ x \in status[r][k]
        BY <1>1, <2>3, <3>2
      <4> QED
        BY <2>1, <2>3, <4>1
    <3> QED
      BY <3>1, <3>2
  <2> QED
    BY <2>3 DEF CountedOnce, Volumes
<1>8. EndsClean(r)'
  BY <1>2 DEF EndsClean
<1> QED
  BY <1>4, <1>5, <1>6, <1>7, <1>8

\* An item of a pass is counted, and is no longer pending.
LEMMA ItemKeeps ==
  ASSUME TypeOK, archive \in Archives, NEW r \in Restores, CallInv(r),
         RestoreItem(r) \/ ClaimExcluded(r)
  PROVE  CallInv(r)'
<1>1. UNCHANGED <<archive, pref>>
  BY SourceStays DEF CallNext
<1>2. PICK i \in todo[r], list \in {"created", "existed", "failed", "excluded"} :
        /\ Count(r, i, list) /\ Without(r, i)
        /\ pc[r] \in DirPasses =>
             /\ list = "created"  => ~LeftOut(pref[r], LookedAt(dirs[r]), i)
             /\ list = "excluded" => LeftOut(pref[r], LookedAt(dirs[r]), i)
        /\ pc[r] = "PVC" => list = "excluded"
  <2>1. CASE RestoreItem(r)
    <3>1. PICK i \in todo[r] :
            /\ \/ LeftOut(pref[r], LookedAt(dirs[r]), i) /\ Count(r, i, "excluded")
               \/ /\ ~LeftOut(pref[r], LookedAt(dirs[r]), i)
                  /\ \E list \in Lists : CreateItem(i, list) /\ Count(r, i, list)
            /\ Without(r, i)
      BY <2>1 DEF RestoreItem
    <3>2. i \in Item
      BY ItemsAreItems
    <3>3. pc[r] # "PVC"
      BY <2>1 DEF RestoreItem, DirPasses
    <3> QED
      BY <3>1, <3>2, <3>3, ItemCreated
  <2>2. CASE ClaimExcluded(r)
    <3>1. pc[r] = "PVC" /\ "PVC" \notin DirPasses
      BY <2>2 DEF ClaimExcluded, DirPasses
    <3> QED
      BY <2>2, <3>1 DEF ClaimExcluded
  <2> QED
    BY <2>1, <2>2
<1>3. /\ pc[r] \in DirPasses \cup {"PVC"} /\ pc'[r] = pc[r] /\ dirs'[r] = dirs[r]
      /\ todo'[r] = todo[r] \ {i}
  BY <1>2 DEF RestoreItem, ClaimExcluded, Without, TypeOK
<1>4. pc[r] \notin EarlySteps \cup {"failed", "claim", "wait"}
  BY <1>3 DEF DirPasses, EarlySteps
<1>5. Extracted(r) /\ i \in archive /\ todo[r] \subseteq archive
  BY <1>4, ItemsAreItems DEF CallInv, ExtractedFirst
<1>6. todo[r] \subseteq PassItems(dirs[r], pc[r]) /\ PassItems(dirs[r], pc[r]) \subseteq dirs[r][pc[r]]
  <2>1. PassOf(pc[r]) = pc[r]
    BY <1>4 DEF PassOf
  <2>2. CASE pc[r] \in DirPasses
    BY <1>4, <2>1, <2>2 DEF CallInv, TodoOfPass, PassItems
  <2>3. CASE pc[r] = "PVC"
    <3>1. "PVC" \notin DirPasses
      BY DEF DirPasses
    <3>2. PassItems(dirs[r], pc[r]) \subseteq dirs[r][pc[r]]
      BY <2>3, <3>1 DEF PassItems
    <3> QED
      BY <1>4, <2>1, <3>2 DEF CallInv, TodoOfPass
  <2> QED
    BY <1>3, <2>2, <2>3
<1>7. i \in dirs[r][pc[r]] /\ PreferedToRestore(pref[r], i) = pc[r] /\ i \notin Volumes
  <2>1. DirPasses \cup {"PVC"} \subseteq Dirs
    BY DEF DirPasses, Dirs
  <2>2. i \in dirs[r]["PVC"] => i \in Claims
    BY <1>5, Sorting
  <2>3. Claims \cap Volumes = {}
    BY DEF Claims, Volumes
  <2> QED
    BY <1>3, <1>5, <1>6, <2>1, <2>2, <2>3, Sorting
<1>8. pc[r] \in DirPasses => i \notin Claims
  BY <1>5, <1>7, Sorting
<1>9. i \in Pending(r) /\ i \notin Counted(r)
  <2>1. i \in Pending(r)
    BY <1>4, <1>5, <1>7 DEF Pending
  <2> QED
    BY <1>4, <2>1 DEF CallInv, Accounted
<1>10. ExtractedFirst(r)' /\ ClaimSecond(r)' /\ ByTheRules(r)' /\ CountedOnce(r)' /\ EndsClean(r)'
  <2>1. CASE pc[r] \in DirPasses
    <3>1. OfDirPass(r, i)
      BY <1>7, <2>1 DEF OfDirPass
    <3> QED
      BY <1>1, <1>2, <1>3, <1>5, <1>8, <1>9, <2>1, <3>1, AccountKept
  <2>2. CASE pc[r] = "PVC"
    <3>1. OfVolumePass(r, i) /\ list # "created"
      BY <1>2, <1>7, <2>2 DEF OfVolumePass
    <3> QED
      BY <1>1, <1>2, <1>3, <1>5, <1>9, <2>2, <3>1, AccountKept
  <2> QED
    BY <1>3, <2>1, <2>2
<1>11. TodoOfPass(r)' /\ VolumeFirst(r)'
  BY <1>3, <1>4, <1>6 DEF TodoOfPass, VolumeFirst, PassOf
<1>12. Accounted(r)'
  <2>1. Counted(r)' = Counted(r) \cup {i}
    BY <1>2, <1>5, CountedMore
  <2>2. i \notin Pending(r)' /\ Pending(r)' \subseteq Pending(r) /\ Pending(r) \subseteq Pending(r)' \cup {i}
    <3>1. \A d \in PassesAfter(pc[r]) : i \notin dirs[r][d]
      <4>1. \A d \in PassesAfter(pc[r]) : d \in Dirs /\ d # pc[r]
        BY <1>3, PassesLeft DEF DirPasses, Dirs
      <4> QED
        BY <1>5, <1>7, <4>1, Sorting
    <3>2. Pending(r) = {x \in archive \ Volumes :
                          x \in todo[r] \/ \E d \in PassesAfter(pc[r]) : x \in dirs[r][d]}
      BY <1>4 DEF Pending
    <3>3. Pending(r)' = {x \in archive \ Volumes :
                           x \in todo[r] \ {i} \/ \E d \in PassesAfter(pc[r]) : x \in dirs[r][d]}
      BY <1>1, <1>3, <1>4 DEF Pending, Volumes
    <3> QED
      BY <3>1, <3>2, <3>3
  <2>3. PassedOver(r) \subseteq PassedOver(r)'
    <3>1. /\ status[r].existed \subseteq status'[r].existed
          /\ status[r].failed \subseteq status'[r].failed
          /\ status[r].excluded \subseteq status'[r].excluded
      BY <1>2, <1>5, CountedMore DEF Lists
    <3> QED
      BY <1>1, <1>3, <3>1 DEF PassedOver, Claims
  <2>4. /\ Pending(r) \cap Counted(r) = {}
        /\ archive \ Volumes \subseteq Pending(r) \cup Counted(r) \cup PassedOver(r)
    BY <1>4 DEF CallInv, Accounted
  <2> QED
    BY <1>1, <2>1, <2>2, <2>3, <2>4 DEF Accounted, Volumes
<1> QED
  BY <1>10, <1>11, <1>12 DEF CallInv

\* The claims of the volume pass, and those that are not pending while they wait.
LEMMA VolumePass ==
  ASSUME TypeOK, NEW r \in Restores, CallInv(r), pc[r] \in {"PVC", "claim", "wait"}
  PROVE  /\ Extracted(r) /\ todo[r] \subseteq archive
         /\ todo[r] \subseteq PassItems(dirs[r], "PVC")
         /\ PassItems(dirs[r], "PVC") \subseteq dirs[r]["PVC"]
         /\ todo[r] \subseteq Claims
         /\ \A c \in todo[r], d \in {"Restore", "App"} : c \notin dirs[r][d]
         /\ Claims \cap Volumes = {}
<1>1. Extracted(r) /\ pc[r] # "failed"
  BY DEF CallInv, ExtractedFirst, EarlySteps
<1>2. PassOf(pc[r]) = "PVC"
  BY DEF PassOf
<1>3. todo[r] \subseteq PassItems(dirs[r], "PVC")
  BY <1>1, <1>2 DEF CallInv, TodoOfPass
<1>4. PassItems(dirs[r], "PVC") \subseteq dirs[r]["PVC"]
  <2>1. "PVC" \notin DirPasses
    BY DEF DirPasses
  <2> QED
    BY <2>1 DEF PassItems
<1>5. todo[r] \subseteq archive
  BY ItemsAreItems
<1>6. {"PVC", "Restore", "App"} \subseteq Dirs
  BY DEF Dirs
<1>7. todo[r] \subseteq Claims
  BY <1>1, <1>3, <1>4, <1>5, Sorting
<1>8. \A c \in todo[r], d \in {"Restore", "App"} : c \notin dirs[r][d]
  <2>1. {"Restore", "App"} \subseteq DirPasses
    BY DEF DirPasses
  <2> QED
    BY <1>1, <1>5, <1>7, <2>1, Sorting
<1>9. Claims \cap Volumes = {}
  BY DEF Claims, Volumes
<1> QED
  BY <1>1, <1>3, <1>4, <1>5, <1>7, <1>8, <1>9

\* A volume is counted, and its claim goes on only if it was created.
LEMMA VolumeKeeps ==
  ASSUME TypeOK, archive \in Archives, NEW r \in Restores, CallInv(r), RestoreVolume(r)
  PROVE  CallInv(r)'
<1>1. UNCHANGED <<archive, pref>> /\ pc[r] = "PVC" /\ dirs'[r] = dirs[r]
  BY SourceStays DEF CallNext, RestoreVolume
<1>2. /\ Extracted(r) /\ todo[r] \subseteq archive
      /\ todo[r] \subseteq PassItems(dirs[r], "PVC") /\ todo[r] \subseteq Claims
      /\ \A c \in todo[r], d \in {"Restore", "App"} : c \notin dirs[r][d]
      /\ Claims \cap Volumes = {}
  BY <1>1, VolumePass
<1>3. PICK c \in todo[r], v \in archive, list \in {"created", "existed", "failed", "excluded"} :
        /\ IsFirst(c, todo[r])
        /\ v \in VolumesOf(c, dirs[r]["PV"])
        /\ Count(r, v, list)
        /\ \/ list = "created" /\ Goto(r, "claim") /\ UNCHANGED todo
           \/ list # "created" /\ Without(r, c) /\ UNCHANGED pc
  <2>1. PICK c \in todo[r] :
          /\ IsFirst(c, todo[r])
          /\ \E v \in VolumesOf(c, dirs[r]["PV"]) :
               \/ Count(r, v, "excluded") /\ Without(r, c) /\ UNCHANGED <<pc, cluster, budget>>
               \/ \E list \in Lists :
                    /\ CreateItem(v, list) /\ Count(r, v, list)
                    /\ \/ list = "created" /\ Goto(r, "claim") /\ UNCHANGED todo
                       \/ list # "created" /\ Without(r, c) /\ UNCHANGED pc
    BY DEF RestoreVolume
  <2>2. PICK v \in VolumesOf(c, dirs[r]["PV"]) :
          \/ Count(r, v, "excluded") /\ Without(r, c) /\ UNCHANGED <<pc, cluster, budget>>
          \/ \E list \in Lists :
               /\ CreateItem(v, list) /\ Count(r, v, list)
               /\ \/ list = "created" /\ Goto(r, "claim") /\ UNCHANGED todo
                  \/ list # "created" /\ Without(r, c) /\ UNCHANGED pc
    BY <2>1
  <2>3. v \in archive /\ v \in Item
    BY ItemsAreItems
  <2>4. CASE Count(r, v, "excluded") /\ Without(r, c) /\ UNCHANGED <<pc, cluster, budget>>
    <3>1. Count(r, v, "excluded") /\ Without(r, c) /\ UNCHANGED pc
      BY <2>4
    <3> QED
      BY <2>1, <2>3, <3>1
  <2>5. ASSUME NEW list \in Lists, CreateItem(v, list), Count(r, v, list),
               \/ list = "created" /\ Goto(r, "claim") /\ UNCHANGED todo
               \/ list # "created" /\ Without(r, c) /\ UNCHANGED pc
        PROVE  \E x \in archive, l \in {"created", "existed", "failed", "excluded"} :
                 /\ x \in VolumesOf(c, dirs[r]["PV"])
                 /\ Count(r, x, l)
                 /\ \/ l = "created" /\ Goto(r, "claim") /\ UNCHANGED todo
                    \/ l # "created" /\ Without(r, c) /\ UNCHANGED pc
    <3>1. list \in {"created", "existed", "failed"}
      BY <2>3, <2>5, ItemCreated
    <3> QED
      BY <2>3, <2>5, <3>1
  <2> QED
    BY <2>1, <2>2, <2>4, <2>5
<1>4. v \in dirs[r]["PV"] /\ v \in Volumes /\ OfVolumePass(r, v)
  <2>1. v \in dirs[r]["PV"]
    BY <1>3 DEF VolumesOf
  <2> QED
    BY <1>2, <2>1, Sorting DEF OfVolumePass
<1>5. \/ list = "created" /\ pc'[r] = "claim" /\ todo'[r] = todo[r]
      \/ list # "created" /\ pc'[r] = "PVC" /\ todo'[r] = todo[r] \ {c}
  BY <1>1, <1>3 DEF Goto, Without, TypeOK
<1>6. ExtractedFirst(r)' /\ ClaimSecond(r)' /\ ByTheRules(r)' /\ CountedOnce(r)' /\ EndsClean(r)'
  BY <1>1, <1>2, <1>3, <1>4, <1>5, AccountKept
<1>7. TodoOfPass(r)'
  BY <1>1, <1>2, <1>5 DEF TodoOfPass, PassOf
<1>8. VolumeFirst(r)'
  <2>1. CASE list = "created"
    <3>1. v \in Created(r)'
      BY <1>3, <2>1, CountedMore
    <3>2. VolumesOf(c, dirs[r]["PV"]) \cap Created(r)' # {}
      BY <1>3, <3>1
    <3> QED
      BY <1>1, <1>3, <1>5, <2>1, <3>2 DEF VolumeFirst
  <2>2. CASE list # "created"
    BY <1>5, <2>2 DEF VolumeFirst
  <2> QED
    BY <2>1, <2>2
<1>9. Accounted(r)'
  <2>1. Counted(r)' = Counted(r) \cup {v}
    BY <1>3, CountedMore
  <2>2. PassedOver(r) \subseteq PassedOver(r)' /\ (list # "created" => c \in PassedOver(r)')
    <3>1. /\ status[r].existed \subseteq status'[r].existed
          /\ status[r].failed \subseteq status'[r].failed
          /\ status[r].excluded \subseteq status'[r].excluded
          /\ list # "created" => v \in status'[r].existed \cup status'[r].failed \cup status'[r].excluded
      BY <1>3, CountedMore DEF Lists
    <3>2. PassedOver(r) \subseteq PassedOver(r)'
      BY <1>1, <3>1 DEF PassedOver, Claims
    <3>3. list # "created" => c \in PassedOver(r)'
      BY <1>1, <1>2, <1>3, <3>1 DEF PassedOver, Claims
    <3> QED
      BY <3>2, <3>3
  <2>3. /\ Pending(r) \cap Counted(r) = {}
        /\ archive \ Volumes \subseteq Pending(r) \cup Counted(r) \cup PassedOver(r)
    <3>1. pc[r] \notin EarlySteps \cup {"failed"}
      BY <1>1 DEF EarlySteps
    <3> QED
      BY <3>1 DEF CallInv, Accounted
  <2>4. Pending(r) = {x \in archive \ Volumes :
                        x \in todo[r] \/ \E d \in {"Restore", "App"} : x \in dirs[r][d]}
    BY <1>1, PassesLeft DEF Pending
  <2>5. Pending(r)' = {x \in archive \ Volumes :
                         x \in todo'[r] \/ \E d \in {"Restore", "App"} : x \in dirs[r][d]}
    <3>1. PassesAfter(pc'[r]) = {"Restore", "App"} /\ pc'[r] # "wait"
      BY <1>5, PassesLeft
    <3> QED
      BY <1>1, <3>1 DEF Pending, Volumes
  <2>6. /\ Pending(r)' \subseteq Pending(r)
        /\ Pending(r) \subseteq Pending(r)' \cup (IF list = "created" THEN {} ELSE {c})
    BY <1>5, <2>4, <2>5
  <2>7. Pending(r)' \cap Volumes = {}
    BY <2>5
  <2>8. /\ Pending(r)' \cap Counted(r)' = {}
        /\ archive \ Volumes \subseteq Pending(r)' \cup Counted(r)' \cup PassedOver(r)'
    BY <1>4, <2>1, <2>2, <2>3, <2>6, <2>7
  <2> QED
    BY <1>1, <2>8 DEF Accounted, Volumes
<1> QED
  BY <1>6, <1>7, <1>8, <1>9 DEF CallInv

\* The claim of that volume is counted.
LEMMA ClaimKeeps ==
  ASSUME TypeOK, archive \in Archives, NEW r \in Restores, CallInv(r), RestoreClaim(r)
  PROVE  CallInv(r)'
<1>1. UNCHANGED <<archive, pref>> /\ pc[r] = "claim" /\ dirs'[r] = dirs[r]
  BY SourceStays DEF CallNext, RestoreClaim
<1>2. /\ Extracted(r) /\ todo[r] \subseteq archive
      /\ todo[r] \subseteq PassItems(dirs[r], "PVC") /\ todo[r] \subseteq Claims
      /\ PassItems(dirs[r], "PVC") \subseteq dirs[r]["PVC"]
      /\ \A c \in todo[r], d \in {"Restore", "App"} : c \notin dirs[r][d]
      /\ Claims \cap Volumes = {}
  BY <1>1, VolumePass
<1>3. PICK c \in todo[r], list \in {"created", "existed", "failed", "excluded"} :
        /\ IsFirst(c, todo[r])
        /\ Count(r, c, list)
        /\ \/ list = "created" /\ Goto(r, "wait") /\ UNCHANGED todo
           \/ list # "created" /\ Goto(r, "PVC") /\ Without(r, c)
  <2>1. PICK c \in todo[r], list \in Lists :
          /\ IsFirst(c, todo[r])
          /\ CreateItem(c, list) /\ Count(r, c, list)
          /\ \/ list = "created" /\ Goto(r, "wait") /\ UNCHANGED todo
             \/ list # "created" /\ Goto(r, "PVC") /\ Without(r, c)
    BY DEF RestoreClaim
  <2>2. c \in Item
    BY ItemsAreItems
  <2>3. list \in {"created", "existed", "failed"}
    BY <2>1, <2>2, ItemCreated
  <2> QED
    BY <2>1, <2>3
<1>4. \/ list = "created" /\ pc'[r] = "wait" /\ todo'[r] = todo[r]
      \/ list # "created" /\ pc'[r] = "PVC" /\ todo'[r] = todo[r] \ {c}
  BY <1>1, <1>3 DEF Goto, Without, TypeOK
<1>5. VolumesOf(c, dirs[r]["PV"]) \cap Created(r) # {}
  <2>1. PICK d \in todo[r] : IsFirst(d, todo[r]) /\ VolumesOf(d, dirs[r]["PV"]) \cap Created(r) # {}
    BY <1>1 DEF CallInv, VolumeFirst
  <2>2. c = d
    BY <1>2, <1>3, <2>1, OneFirst
  <2> QED
    BY <2>1, <2>2
<1>6. pc[r] \notin EarlySteps \cup {"failed", "wait"}
  BY <1>1 DEF EarlySteps
<1>7. c \in Pending(r) /\ c \notin Counted(r)
  <2>1. c \in Pending(r)
    BY <1>2, <1>6 DEF Pending
  <2> QED
    BY <1>6, <2>1 DEF CallInv, Accounted
<1>8. ExtractedFirst(r)' /\ ClaimSecond(r)' /\ ByTheRules(r)' /\ CountedOnce(r)' /\ EndsClean(r)'
  <2>1. OfVolumePass(r, c) /\ c \in archive
    BY <1>2 DEF OfVolumePass
  <2> QED
    BY <1>1, <1>3, <1>4, <1>5, <1>7, <2>1, AccountKept
<1>9. TodoOfPass(r)'
  BY <1>1, <1>2, <1>4 DEF TodoOfPass, PassOf
<1>10. VolumeFirst(r)'
  <2>1. CASE list = "created"
    <3>1. Created(r)' = Created(r) \cup {c}
      BY <1>2, <1>3, <2>1, CountedMore
    <3> QED
      BY <1>1, <1>3, <1>4, <1>5, <2>1, <3>1 DEF VolumeFirst
  <2>2. CASE list # "created"
    BY <1>4, <2>2 DEF VolumeFirst
  <2> QED
    BY <2>1, <2>2
<1>11. Accounted(r)'
  <2>1. Counted(r)' = Counted(r) \cup {c}
    BY <1>2, <1>3, CountedMore
  <2>2. PassedOver(r) \subseteq PassedOver(r)'
    <3>1. /\ status[r].existed \subseteq status'[r].existed
          /\ status[r].failed \subseteq status'[r].failed
          /\ status[r].excluded \subseteq status'[r].excluded
      BY <1>2, <1>3, CountedMore DEF Lists
    <3> QED
      BY <1>1, <3>1 DEF PassedOver, Claims
  <2>3. /\ Pending(r) \cap Counted(r) = {}
        /\ archive \ Volumes \subseteq Pending(r) \cup Counted(r) \cup PassedOver(r)
    BY <1>6 DEF CallInv, Accounted
  <2>4. Pending(r) = {x \in archive \ Volumes :
                        x \in todo[r] \/ \E d \in {"Restore", "App"} : x \in dirs[r][d]}
    BY <1>1, PassesLeft DEF Pending
  <2>5. Pending(r)' = {x \in archive \ Volumes :
                         x \in todo[r] \ {c} \/ \E d \in {"Restore", "App"} : x \in dirs[r][d]}
    <3>1. PassesAfter(pc'[r]) = {"Restore", "App"}
      BY <1>4, PassesLeft
    <3>2. CASE list = "created"
      <4>1. \A x : x \in todo[r] /\ ~IsFirst(x, todo[r]) <=> x \in todo[r] \ {c}
        BY <1>2, <1>3, OneFirst
      <4>2. Pending(r)' = {x \in archive \ Volumes :
                             \/ x \in todo[r] /\ ~IsFirst(x, todo[r])
                             \/ \E d \in {"Restore", "App"} : x \in dirs[r][d]}
        BY <1>1, <1>4, <3>1, <3>2 DEF Pending, Volumes
      <4> QED
        BY <4>1, <4>2
    <3>3. CASE list # "created"
      BY <1>1, <1>4, <3>1, <3>3 DEF Pending, Volumes
    <3> QED
      BY <3>2, <3>3
  <2>6. c \notin Pending(r)' /\ Pending(r)' \subseteq Pending(r) /\ Pending(r) \subseteq Pending(r)' \cup {c}
    BY <1>2, <2>4, <2>5
  <2>7. /\ Pending(r)' \cap Counted(r)' = {}
        /\ archive \ Volumes \subseteq Pending(r)' \cup Counted(r)' \cup PassedOver(r)'
    BY <2>1, <2>2, <2>3, <2>6
  <2> QED
    BY <1>1, <2>7 DEF Accounted, Volumes
<1> QED
  BY <1>8, <1>9, <1>10, <1>11 DEF CallInv

\* Waiting counts nothing: the claim was created before.
LEMMA WaitKeeps ==
  ASSUME TypeOK, archive \in Archives, NEW r \in Restores, CallInv(r), WaitBound(r)
  PROVE  CallInv(r)'
<1>1. UNCHANGED <<archive, pref>> /\ pc[r] = "wait" /\ UNCHANGED <<tempdir, markers>>
  BY SourceStays DEF CallNext, WaitBound, Abort, clusterVars
<1>2. PICK c \in todo[r] :
        /\ IsFirst(c, todo[r])
        /\ \/ Without(r, c) /\ Goto(r, "PVC") /\ UNCHANGED <<dirs, status>>
           \/ UNCHANGED <<pc, dirs, todo, status>>
           \/ Abort(r)
  <2>1. PICK c \in todo[r] :
        /\ IsFirst(c, todo[r])
        /\ \/ Without(r, c) /\ Goto(r, "PVC") /\ UNCHANGED <<served, dirs, tempdir, tries, status>>
           \/ UNCHANGED <<pc, served, dirs, tempdir, todo, status>>
           \/ Abort(r)
    BY DEF WaitBound
  <2> QED
    BY <2>1
<1>3. CASE Abort(r)
  BY <1>1, <1>3, AbortKeeps
<1>4. CASE UNCHANGED <<pc, dirs, todo, status>>
  BY <1>1, <1>4, OwnState
<1>5. CASE Without(r, c) /\ Goto(r, "PVC") /\ UNCHANGED <<dirs, status>>
  <2>1. /\ pc'[r] = "PVC" /\ todo'[r] = todo[r] \ {c}
        /\ dirs'[r] = dirs[r] /\ status'[r] = status[r]
    BY <1>5 DEF Without, Goto, TypeOK
  <2>2. /\ Extracted(r) /\ todo[r] \subseteq archive
        /\ todo[r] \subseteq PassItems(dirs[r], "PVC")
    BY <1>1, VolumePass
  <2>3. c \in Created(r)
    <3>1. PICK d \in todo[r] : IsFirst(d, todo[r]) /\ d \in Created(r)
      BY <1>1 DEF CallInv, VolumeFirst
    <3>2. c = d
      BY <1>2, <2>2, <3>1, OneFirst
    <3> QED
      BY <3>1, <3>2
  <2>4. ExtractedFirst(r)'
    <3>1. Extracted(r)'
      BY <1>1, <2>1, <2>2 DEF Extracted, Sorted
    <3> QED
      BY <2>1, <3>1 DEF ExtractedFirst, EarlySteps
  <2>5. TodoOfPass(r)'
    BY <1>1, <2>1, <2>2 DEF TodoOfPass, PassOf
  <2>6. VolumeFirst(r)' /\ EndsClean(r)'
    BY <2>1 DEF VolumeFirst, EndsClean
  <2>7. ClaimSecond(r)'
    BY <1>1, <2>1 DEF CallInv, ClaimSecond, Created, Claims
  <2>8. ByTheRules(r)'
    BY <1>1, <2>1 DEF CallInv, ByTheRules, OfDirPass, OfVolumePass, Created
  <2>9. CountedOnce(r)'
    BY <1>1, <2>1 DEF CallInv, CountedOnce, Volumes
  <2>10. Accounted(r)'
    <3>1. Counted(r)' = Counted(r) /\ PassedOver(r)' = PassedOver(r)
      BY <1>1, <2>1 DEF Counted, PassedOver, Claims
    <3>2. Pending(r)' = Pending(r)
      <4>1. \A x : x \in todo[r] /\ ~IsFirst(x, todo[r]) <=> x \in todo[r] \ {c}
        BY <1>2, <2>2, OneFirst
      <4>2. PassesAfter(pc[r]) = {"Restore", "App"} /\ PassesAfter(pc'[r]) = {"Restore", "App"}
        BY <1>1, <2>1, PassesLeft
      <4>3. Pending(r) = {x \in archive \ Volumes :
                            \/ x \in todo[r] /\ ~IsFirst(x, todo[r])
                            \/ \E d \in {"Restore", "App"} : x \in dirs[r][d]}
        BY <1>1, <4>2 DEF Pending
      <4>4. Pending(r)' = {x \in archive \ Volumes :
                             x \in todo[r] \ {c} \/ \E d \in {"Restore", "App"} : x \in dirs[r][d]}
        BY <1>1, <2>1, <4>2 DEF Pending, Volumes
      <4> QED
        BY <4>1, <4>3, <4>4
    <3>3. /\ Pending(r) \cap Counted(r) = {}
          /\ archive \ Volumes \subseteq Pending(r) \cup Counted(r) \cup PassedOver(r)
      <4>1. pc[r] \notin EarlySteps \cup {"failed"}
        BY <1>1 DEF EarlySteps
      <4> QED
        BY <4>1 DEF CallInv, Accounted
    <3> QED
      BY <1>1, <3>1, <3>2, <3>3 DEF Accounted, Volumes
  <2> QED
    BY <2>4, <2>5, <2>6, <2>7, <2>8, <2>9, <2>10 DEF CallInv
<1> QED
  BY <1>2, <1>3, <1>4, <1>5

-----------------------------------------------------------------------------
(* The theorems.                                                           *)

\* In the beginning every call has everything before it.
LEMMA InvInit == Init => IndInv
<1> SUFFICES ASSUME Init PROVE IndInv
  OBVIOUS
<1>1. TypeOK /\ archive \in Archives
  BY TypeInit DEF Init
<1>2. ASSUME NEW r \in Restores PROVE CallInv(r)
  <2>1. pc[r] = "create" /\ todo[r] = {} /\ status[r] = EmptyStatus
    BY DEF Init
  <2>2. \A l \in Lists : status[r][l] = {}
    BY <2>1 DEF EmptyStatus
  <2>3. ExtractedFirst(r) /\ TodoOfPass(r) /\ VolumeFirst(r) /\ Accounted(r) /\ EndsClean(r)
    BY <2>1 DEF ExtractedFirst, TodoOfPass, VolumeFirst, Accounted, EndsClean, EarlySteps
  <2>4. ClaimSecond(r) /\ ByTheRules(r) /\ CountedOnce(r)
    BY <2>2 DEF ClaimSecond, ByTheRules, CountedOnce, Created, Lists
  <2> QED
    BY <2>3, <2>4 DEF CallInv
<1> QED
  BY <1>1, <1>2 DEF IndInv

\* A call keeps its own account through each of its steps.
LEMMA CallKeeps ==
  ASSUME TypeOK, archive \in Archives, NEW r \in Restores, CallInv(r), CallNext(r)
  PROVE  CallInv(r)'
<1>1. UNCHANGED <<archive, pref>>
  BY SourceStays
<1>2. ASSUME UnknownKind(r) \/ MarkerFailed(r) \/ Fail(r) PROVE CallInv(r)'
  <2>1. Abort(r)
    BY <1>2 DEF UnknownKind, MarkerFailed, Fail
  <2> QED
    BY <1>1, <2>1, AbortKeeps
<1> QED
  BY <1>2, EarlyKeeps, ExtractKeeps, TurnKeeps, ItemKeeps, VolumeKeeps, ClaimKeeps, WaitKeeps,
     EndKeeps DEF CallNext

\* The inductive invariant: however calls, their failures and the target
\* mix, each call keeps its own account.
THEOREM Invariance == Spec => []IndInv
<1>1. ASSUME IndInv, TypeOK', [Next]_vars PROVE IndInv'
  <2>1. TypeOK /\ archive \in Archives /\ \A r \in Restores : CallInv(r)
    BY <1>1 DEF IndInv
  <2>2. ASSUME NEW r \in Restores, CallNext(r) PROVE IndInv'
    <3>1. UNCHANGED <<archive, pref>>
      BY <2>2, SourceStays
    <3>2. CallInv(r)'
      BY <2>1, <2>2, CallKeeps
    <3>3. ASSUME NEW s \in Restores \ {r} PROVE CallInv(s)'
      <4>1. /\ pc'[s] = pc[s] /\ dirs'[s] = dirs[s] /\ todo'[s] = todo[s] /\ status'[s] = status[s]
            /\ s \in tempdir' => s \in tempdir
            /\ s \in markers' => s \in markers
        BY <2>1, <2>2, OthersStay
      <4> QED
        BY <2>1, <3>1, <4>1, OwnState
    <3> QED
      BY <1>1, <2>1, <3>1, <3>2, <3>3 DEF IndInv
  <2>3. ASSUME UNCHANGED <<callVars, archive, pref, markers>> PROVE IndInv'
    <3>1. ASSUME NEW s \in Restores PROVE CallInv(s)'
      BY <2>1, <2>3, OwnState DEF callVars
    <3> QED
      BY <1>1, <2>1, <2>3, <3>1 DEF IndInv
  <2>4. CASE TargetNext
    BY <2>1, <2>3, <2>4, TargetTyped
  <2>5. CASE UNCHANGED vars
    BY <2>3, <2>5 DEF vars, sourceVars, clusterVars
  <2> QED
    BY <1>1, <2>2, <2>4, <2>5 DEF Next
<1> QED
  BY <1>1, InvInit, TypeCorrect, PTL DEF Spec

\* At the end nothing is pending.
LEMMA Accounts == IndInv => EveryItemCounted
<1> SUFFICES ASSUME IndInv, NEW r \in Restores
             PROVE  /\ \A l, k \in Lists : l # k => (status[r][l] \cap status[r][k]) \subseteq Volumes
                    /\ pc[r] = "done" => archive \ Counted(r) \subseteq Volumes \cup PassedOver(r)
  BY DEF EveryItemCounted
<1>1. CallInv(r)
  BY DEF IndInv
<1>2. CASE pc[r] = "done"
  <2>1. PassesAfter("done") = {}
    BY PassesLeft
  <2>2. todo[r] = {}
    <3>1. PassOf("done") = "done" /\ "done" \notin DirPasses
      BY DEF PassOf, DirPasses
    <3>2. PassItems(dirs[r], "done") = {}
      BY <3>1 DEF PassItems
    <3> QED
      BY <1>1, <1>2, <3>1, <3>2 DEF CallInv, TodoOfPass
  <2>3. Pending(r) = {}
    BY <1>2, <2>1, <2>2 DEF Pending
  <2>4. archive \ Volumes \subseteq Pending(r) \cup Counted(r) \cup PassedOver(r)
    BY <1>1, <1>2 DEF CallInv, Accounted, EarlySteps
  <2> QED
    BY <1>1, <2>3, <2>4 DEF CallInv, CountedOnce
<1>3. CASE pc[r] # "done"
  BY <1>1, <1>3 DEF CallInv, CountedOnce
<1> QED
  BY <1>2, <1>3

\* The status of a restore that is done accounts for every item of the
\* archive, once, but for volumes and the claims that were passed over.
THEOREM Accounting == Spec => []EveryItemCounted
BY Accounts, Invariance, PTL

\* No claim is ever created without its volume having been, by the same call.
THEOREM VolumeBeforeClaim == Spec => []ClaimAfterVolume
<1>1. IndInv => ClaimAfterVolume
  BY DEF IndInv, CallInv, ClaimSecond, ClaimAfterVolume
<1> QED
  BY <1>1, Invariance, PTL

\* Nothing of an excluded namespace is created, and no right that serves only
\* excluded ServiceAccounts, in whatever order and directories items come.
THEOREM Exclusion == Spec => []NothingExcluded
<1>1. IndInv => NothingExcluded
  <2> SUFFICES ASSUME IndInv, NEW r \in Restores, NEW i \in Created(r)
               PROVE  /\ i.ns \notin pref[r].namespaces
                      /\ i.kind = "Namespace" => i.name \notin pref[r].namespaces
                      /\ i.kind = "ClusterRoleBinding" => ~(i.subjects \subseteq pref[r].namespaces)
                      /\ i.kind = "ClusterRole" =>
                           \E b \in archive : b.kind = "ClusterRoleBinding" /\ b.role = i.name
                                                /\ ~(b.subjects \subseteq pref[r].namespaces)
    BY DEF NothingExcluded
  <2> DEFINE out == pref[r].namespaces
             d   == LookedAt(dirs[r])
  <2>1. TypeOK /\ archive \in Archives /\ CallInv(r)
    BY DEF IndInv
  <2>2. i \in archive /\ i \in Item /\ status[r].created # {}
    <3>1. status[r].created \subseteq archive
      BY <2>1, ItemsAreItems DEF Lists
    <3> QED
      BY <2>1, <3>1 DEF Created, TypeOK
  <2>3. Extracted(r)
    <3>1. EmptyStatus.created = {}
      BY DEF EmptyStatus, Lists
    <3> QED
      BY <2>1, <2>2, <3>1 DEF CallInv, ExtractedFirst
  <2>4. out \subseteq Names
    <3>1. pref[r] \in Preference
      BY <2>1 DEF TypeOK
    <3> QED
      BY <3>1 DEF Preference
  <2>5. \/ OfDirPass(r, i) /\ ~LeftOut(pref[r], d, i)
        \/ OfVolumePass(r, i)
    BY <2>1 DEF CallInv, ByTheRules
  <2>6. PreferedToRestore(pref[r], i) \in Dirs
    <3>1. \E dd \in Dirs : i \in dirs[r][dd]
      BY <2>5 DEF OfDirPass, OfVolumePass, DirPasses, Dirs
    <3> QED
      BY <2>2, <2>3, <3>1, Sorting
  <2>7. "Exclude" \notin Dirs
    BY DEF Dirs
  <2>8. \A n \in Names : <<n, n>> \in Starts /\ <<n, n>> \in Contains
    BY PreferenceAssumption
  <2>9. CASE i.kind \in {"Namespace", "CustomResourceDefinition"}
    <3>1. i.ns = NoName
      BY <2>1, <2>2, <2>9, RestoreAssumption DEF ClusterScoped
    <3>2. i.ns \notin out
      BY <2>4, <3>1, PreferenceAssumption
    <3>3. i.kind = "Namespace" => ~NamesOne(i, out)
      BY <2>6, <2>7 DEF PreferedToRestore
    <3>4. i.kind = "Namespace" => i.name \notin out
      BY <2>4, <2>8, <3>3 DEF NamesOne
    <3> QED
      BY <2>9, <3>2, <3>4
  <2>10. CASE i.kind \notin {"Namespace", "CustomResourceDefinition"}
    <3>1. ~InExcludedNamespace(pref[r], i)
      BY <2>6, <2>7, <2>10 DEF PreferedToRestore
    <3>2. i.ns \notin out
      BY <2>4, <2>8, <3>1 DEF InExcludedNamespace
    <3>3. ASSUME i.kind \in {"ClusterRole", "ClusterRoleBinding"}
          PROVE  ~LeftOut(pref[r], d, i) /\ d \subseteq archive
      <4>1. ~OfVolumePass(r, i)
        <5>1. i \notin Volumes \cup Claims
          BY <3>3 DEF Volumes, Claims
        <5> QED
          BY <2>2, <2>3, <5>1, Sorting DEF OfVolumePass
      <4>2. d \subseteq archive
        BY <2>3, Sorting DEF LookedAt, Dirs
      <4> QED
        BY <2>5, <4>1, <4>2
    <3>4. ASSUME i.kind = "ClusterRole"
          PROVE  \E b \in archive : b.kind = "ClusterRoleBinding" /\ b.role = i.name
                                      /\ ~(b.subjects \subseteq out)
      <4>1. i.name \in IncludedRoleNames(pref[r], d)
        BY <3>3, <3>4 DEF LeftOut
      <4>2. PICK b \in IncludedBindings(pref[r], d) : b.role = i.name
        BY <4>1 DEF IncludedRoleNames
      <4> QED
        BY <3>3, <3>4, <4>2 DEF IncludedBindings, IsUserNamespace
    <3>5. ASSUME i.kind = "ClusterRoleBinding"
          PROVE  ~(i.subjects \subseteq out)
      <4>1. PICK b \in IncludedBindings(pref[r], d) : b.name = i.name
        BY <3>3, <3>5 DEF LeftOut
      <4>2. b \in archive /\ b.kind = "ClusterRoleBinding" /\ \E n \in b.subjects : n \notin out
        BY <3>3, <3>5, <4>1 DEF IncludedBindings, IsUserNamespace
      <4>3. b.ns = NoName /\ i.ns = NoName
        BY <2>1, <2>2, <3>5, <4>2, RestoreAssumption DEF ClusterScoped
      <4>4. b = i
        BY <2>1, <2>2, <3>5, <4>1, <4>2, <4>3, RestoreAssumption
      <4> QED
        BY <4>2, <4>4
    <3> QED
      BY <2>10, <3>2, <3>4, <3>5
  <2> QED
    BY <2>9, <2>10
<1> QED
  BY <1>1, Invariance, PTL

\* A binding comes with its role and Endpoints are left to their Service, even
\* if they are restored in different passes.
THEOREM Together == Spec => []GoTogether
<1>1. IndInv => GoTogether
  <2> SUFFICES ASSUME IndInv, NEW r \in Restores
               PROVE  LET d == dirs[r]["Restore"] \cup dirs[r]["App"] IN
                 /\ pc[r] = "done" =>
                      \A b \in Created(r), x \in d :
                        b.kind = "ClusterRoleBinding" /\ x.kind = "ClusterRole"
                          /\ x.name = b.role /\ ~x.owned => x \notin status[r].excluded
                 /\ \A e \in Created(r), x \in d :
                      ~(e.kind = "Endpoints" /\ x.kind = "Service" /\ e.ns = x.ns /\ e.name = x.name)
    BY DEF GoTogether
  <2> DEFINE d == LookedAt(dirs[r])
  <2>1. TypeOK /\ archive \in Archives /\ CallInv(r)
    BY DEF IndInv
  <2>2. status[r].created \subseteq archive /\ status[r].excluded \subseteq archive
    BY <2>1, ItemsAreItems DEF Lists
  <2>3. ASSUME NEW e \in Created(r) PROVE Extracted(r) /\ d \subseteq archive
    <3>1. EmptyStatus.created = {}
      BY DEF EmptyStatus, Lists
    <3>2. Extracted(r)
      BY <2>1, <2>3, <3>1 DEF CallInv, ExtractedFirst, Created
    <3>3. d \subseteq archive
      BY <3>2, Sorting DEF LookedAt, Dirs
    <3> QED
      BY <3>2, <3>3
  <2>4. ASSUME NEW e \in Created(r), e.kind \in {"Endpoints", "ClusterRoleBinding"}
        PROVE  ~LeftOut(pref[r], d, e)
    <3>1. e \in archive /\ e \notin Volumes \cup Claims
      BY <2>2, <2>4 DEF Created, Volumes, Claims
    <3>2. ~OfVolumePass(r, e)
      BY <2>3, <3>1, Sorting DEF OfVolumePass
    <3> QED
      BY <2>1, <3>2 DEF CallInv, ByTheRules
  <2>5. ASSUME NEW e \in Created(r), NEW x \in d,
               e.kind = "Endpoints", x.kind = "Service", e.ns = x.ns, e.name = x.name
        PROVE  FALSE
    BY <2>4, <2>5 DEF LeftOut, HasService
  <2>6. ASSUME NEW b \in Created(r), NEW x \in d, b.kind = "ClusterRoleBinding",
               x.kind = "ClusterRole", x.name = b.role, ~x.owned, x \in status[r].excluded
        PROVE  FALSE
    <3>1. Extracted(r) /\ d \subseteq archive /\ b \in archive
      BY <2>2, <2>3 DEF Created
    <3>2. LeftOut(pref[r], d, x)
      <4>1. x \in archive /\ x \notin Volumes \cup Claims
        BY <2>6, <3>1 DEF Volumes, Claims
      <4>2. ~OfVolumePass(r, x)
        BY <3>1, <4>1, Sorting DEF OfVolumePass
      <4> QED
        BY <2>1, <2>6, <4>2 DEF CallInv, ByTheRules
    <3>3. PICK c \in IncludedBindings(pref[r], d) : c.name = b.name
      BY <2>4, <2>6 DEF LeftOut
    <3>4. c \in archive /\ c.kind = "ClusterRoleBinding"
      BY <3>1, <3>3 DEF IncludedBindings
    <3>5. b.ns = NoName /\ c.ns = NoName
      BY <2>1, <2>6, <3>1, <3>4, RestoreAssumption DEF ClusterScoped
    <3>6. c = b
      BY <2>1, <2>6, <3>1, <3>3, <3>4, <3>5, RestoreAssumption
    <3>7. x.name \in IncludedRoleNames(pref[r], d)
      BY <2>6, <3>3, <3>6 DEF IncludedRoleNames
    <3> QED
      BY <2>6, <3>2, <3>7 DEF LeftOut
  <2> QED
    BY <2>5, <2>6 DEF LookedAt
<1> QED
  BY <1>1, Invariance, PTL

\* Nothing is created from a part of an archive, although calls share the file
\* it is downloaded to and cut it off under each other.
THEOREM Whole == Spec => []WholeArchive
<1>1. IndInv => WholeArchive
  <2> SUFFICES ASSUME IndInv, NEW r \in Restores, Counted(r) # {}
               PROVE  archive = status[r].preference \cup UNION {dirs[r][d] : d \in Dirs}
    BY DEF WholeArchive
  <2>1. CallInv(r)
    BY DEF IndInv
  <2>2. \A l \in Lists : EmptyStatus[l] = {}
    BY DEF EmptyStatus
  <2>3. Extracted(r)
    BY <2>1, <2>2 DEF CallInv, ExtractedFirst, Counted
  <2>4. status[r].preference = {i \in archive : PreferedToRestore(pref[r], i) = "Exclude"}
    BY <2>3 DEF Extracted
  <2>5. /\ \A d \in Dirs : dirs[r][d] \subseteq archive
        /\ \A i \in archive, d \in Dirs : PreferedToRestore(pref[r], i) = d => i \in dirs[r][d]
    BY <2>3, Sorting
  <2> QED
    BY <2>4, <2>5, OneDirectory
<1> QED
  BY <1>1, Invariance, PTL

\* A restore that succeeds has removed its files and its marker.
THEOREM Clean == Spec => []DoneLeavesNothing
<1>1. IndInv => DoneLeavesNothing
  BY DEF IndInv, CallInv, EndsClean, DoneLeavesNothing
<1> QED
  BY <1>1, Invariance, PTL

-----------------------------------------------------------------------------
(* Claims and volumes find each other again.                               *)

\* What the cluster binds is there, and each claim and volume has one partner.
BoundOnce ==
  /\ \A b \in bound : /\ b[1] \in cluster /\ b[1].kind = "PersistentVolumeClaim"
                      /\ b[2] \in cluster /\ b[2].kind = "PersistentVolume"
  /\ \A b, d \in bound : b[1] = d[1] \/ b[2] = d[2] => b = d

\* The volume that r has created for the claim c is bound.
VolumeBound(r, c) == \E v \in Volumes \cap Created(r) : v.name = c.volume /\ IsBound(v)

\* A call has waited for each claim it has created, but for the last one.
WaitedFor(r) ==
  \A c \in Claims \cap Created(r) : IsFirst(c, todo[r]) \/ VolumeBound(r, c)

\* No call creates two claims for one volume.
OneClaim(r) == \A c, d \in Claims \cap Created(r) : c.volume = d.volume => c = d

\* The volume a call has just created is that of none of its claims.
NewVolume(r) ==
  pc[r] = "claim" =>
    \A c \in todo[r], d \in Claims \cap Created(r) : IsFirst(c, todo[r]) => d.volume # c.volume

\* All that is bound was created by r.
Own(r) == \A b \in bound : b[1] \in Created(r) /\ b[2] \in Created(r)

Matched(b) == b[1].volume = b[2].name

\* The claim r has created last is bound to a volume whose own claim could not
\* be created. All other pairs match, and r does not come further: the volume
\* it waits for stays unbound.
Crossed(r) ==
  /\ pc[r] \in {"wait", "failed"}
  /\ \E c \in Claims \cap Created(r), v \in Volumes \cap Created(r) :
       /\ IsFirst(c, todo[r]) /\ <<c, v>> \in bound
       /\ \A d \in Claims \cap Created(r) : d.volume # v.name
       /\ \A b \in bound : b[1] = c \/ Matched(b)

PairsOf(r) == Own(r) => (\A b \in bound : Matched(b)) \/ Crossed(r)

CallPairs(r) == WaitedFor(r) /\ OneClaim(r) /\ NewVolume(r) /\ PairsOf(r)

\* The inductive invariant behind ReboundInPairs: a call makes one claim at a
\* time, so there is one free volume at most for the cluster to choose.
PairsInv == BoundOnce /\ \A r \in Restores : CallPairs(r)

\* No two volumes of an archive have the same name.
LEMMA OneName ==
  ASSUME archive \in Archives, NEW v \in Volumes, NEW w \in Volumes, v.name = w.name
  PROVE  v = w
<1>1. v \in archive /\ w \in archive /\ v.kind = w.kind /\ v.kind \in ClusterScoped
  BY DEF Volumes, ClusterScoped
<1>2. v.ns = NoName /\ w.ns = NoName
  BY <1>1, RestoreAssumption
<1> QED
  BY <1>1, <1>2, RestoreAssumption

\* While a call does not wait, it has waited for all of its claims.
LEMMA AllWaitedFor ==
  ASSUME IndInv, NEW r \in Restores, CallPairs(r), pc[r] \notin {"wait", "failed"},
         NEW c \in Claims \cap Created(r)
  PROVE  VolumeBound(r, c) /\ ~IsFirst(c, todo[r])
<1>1. TypeOK /\ CallInv(r) /\ "created" \in Lists
  BY DEF IndInv, Lists
<1>2. pc[r] \notin EarlySteps
  <2>1. status[r].created # {}
    BY DEF Created
  <2>2. EmptyStatus.created = {}
    BY <1>1 DEF EmptyStatus
  <2> QED
    BY <1>1, <2>1, <2>2 DEF CallInv, ExtractedFirst
<1>3. c \in archive \ Volumes /\ c \in Counted(r)
  BY <1>1 DEF Claims, Volumes, Created, Counted
<1>4. c \notin Pending(r)
  BY <1>1, <1>2, <1>3 DEF CallInv, Accounted
<1>5. c \notin todo[r]
  BY <1>3, <1>4 DEF Pending
<1>6. ~IsFirst(c, todo[r])
  BY <1>5 DEF IsFirst
<1> QED
  BY <1>6 DEF CallPairs, WaitedFor

\* While a call does not wait, the pairs match, if all of them are its own.
LEMMA NotCrossed ==
  ASSUME NEW r \in Restores, CallPairs(r), pc[r] \notin {"wait", "failed"}, Own(r)
  PROVE  \A b \in bound : Matched(b)
BY DEF CallPairs, PairsOf, Crossed

\* What is bound is a claim and a volume.
LEMMA BoundTyped ==
  ASSUME TypeOK, BoundOnce, NEW b \in bound
  PROVE  /\ b = <<b[1], b[2]>> /\ b[1] \in Item /\ b[2] \in Item
         /\ b[1] \in cluster /\ b[1].kind = "PersistentVolumeClaim"
         /\ b[2] \in cluster /\ b[2].kind = "PersistentVolume"
         /\ b[1] \in archive => b[1] \in Claims
         /\ b[2] \in archive => b[2] \in Volumes
BY DEF TypeOK, BoundOnce, Claims, Volumes

\* What is not in the cluster is not bound, and a volume that is, is one of a pair.
LEMMA WhoIsBound ==
  ASSUME TypeOK, BoundOnce, NEW x, IsBound(x)
  PROVE  /\ x \in cluster
         /\ x.kind = "PersistentVolume" => \E b \in bound : b[2] = x
<1>1. PICK b \in bound : x = b[1] \/ x = b[2]
  BY DEF IsBound
<1> QED
  BY <1>1, BoundTyped

\* What the invariant says of a call is of the call, and of what is bound.
LEMMA PairsStay ==
  ASSUME NEW r \in Restores, CallPairs(r), UNCHANGED <<archive, bound>>,
         todo'[r] = todo[r], status'[r] = status[r],
         pc'[r] = pc[r] \/ pc'[r] = "failed"
  PROVE  CallPairs(r)'
<1>1. Created(r)' = Created(r) /\ Volumes' = Volumes /\ Claims' = Claims
  BY DEF Created, Volumes, Claims
<1>2. WaitedFor(r)'
  BY <1>1 DEF CallPairs, WaitedFor, VolumeBound, IsBound
<1>3. OneClaim(r)' /\ NewVolume(r)'
  BY <1>1 DEF CallPairs, OneClaim, NewVolume
<1>4. Own(r)' => Own(r)
  BY <1>1 DEF Own
<1>5. Crossed(r) => Crossed(r)'
  BY <1>1 DEF Crossed, Matched
<1>6. PairsOf(r)'
  BY <1>4, <1>5 DEF CallPairs, PairsOf, Matched
<1> QED
  BY <1>2, <1>3, <1>6 DEF CallPairs

\* A call that does not wait goes on, and creates neither volume nor claim.
LEMMA PairsGoOn ==
  ASSUME IndInv, BoundOnce, NEW r \in Restores, CallPairs(r), UNCHANGED <<archive, bound>>,
         pc[r] \notin {"wait", "failed"}, pc'[r] \notin {"claim", "wait", "failed"},
         Created(r) \subseteq Created(r)', Created(r)' \subseteq archive,
         \A i \in Created(r)' \ Created(r) : i \notin Volumes \cup Claims
  PROVE  CallPairs(r)'
<1>1. Volumes' = Volumes /\ Claims' = Claims /\ TypeOK
  BY DEF Volumes, Claims, IndInv
<1>2. Claims \cap Created(r)' = Claims \cap Created(r) /\ Volumes \cap Created(r)' = Volumes \cap Created(r)
  OBVIOUS
<1>3. WaitedFor(r)'
  BY <1>1, <1>2, AllWaitedFor DEF WaitedFor, VolumeBound, IsBound
<1>4. OneClaim(r)' /\ NewVolume(r)'
  BY <1>1, <1>2 DEF CallPairs, OneClaim, NewVolume
<1>5. ASSUME Own(r)' PROVE Own(r)
  <2>1. ASSUME NEW b \in bound PROVE b[1] \in Created(r) /\ b[2] \in Created(r)
    <3>1. b[1] \in Created(r)' /\ b[2] \in Created(r)'
      BY <1>5, <2>1 DEF Own
    <3>2. b[1] \in Claims /\ b[2] \in Volumes
      BY <1>1, <3>1, BoundTyped
    <3> QED
      BY <3>1, <3>2
  <2> QED
    BY <2>1 DEF Own
<1>6. PairsOf(r)'
  BY <1>5, NotCrossed DEF PairsOf, Matched
<1> QED
  BY <1>3, <1>4, <1>6 DEF CallPairs

\* What is new in the cluster is not bound.
LEMMA NewIsFree ==
  ASSUME TypeOK, BoundOnce, NEW r \in Restores, NEW i, i \notin cluster, UNCHANGED bound,
         Created(r)' = Created(r) \cup {i}, Own(r)'
  PROVE  Own(r)
<1>1. ASSUME NEW b \in bound PROVE b[1] \in Created(r) /\ b[2] \in Created(r)
  <2>1. b[1] \in Created(r)' /\ b[2] \in Created(r)'
    BY DEF Own
  <2>2. b[1] # i /\ b[2] # i
    BY BoundTyped
  <2> QED
    BY <2>1, <2>2
<1> QED
  BY <1>1 DEF Own

\* A volume that is created is not that of a claim created before: that one
\* has been waited for, and is bound.
LEMMA VolumePairs ==
  ASSUME IndInv, BoundOnce, NEW r \in Restores, CallPairs(r), UNCHANGED <<archive, bound>>,
         pc[r] = "PVC", pc'[r] = "claim", todo'[r] = todo[r],
         NEW c \in todo[r], IsFirst(c, todo[r]),
         NEW v \in Volumes, v.name = c.volume, v \notin cluster,
         Created(r)' = Created(r) \cup {v}
  PROVE  CallPairs(r)'
<1>1. /\ Volumes' = Volumes /\ Claims' = Claims
      /\ TypeOK /\ archive \in Archives /\ todo[r] \subseteq archive
  BY ItemsAreItems DEF Volumes, Claims, IndInv
<1>2. Claims \cap Created(r)' = Claims \cap Created(r)
  BY DEF Claims, Volumes
<1>3. WaitedFor(r)'
  <2>1. ASSUME NEW d \in Claims \cap Created(r) PROVE VolumeBound(r, d)'
    <3>1. VolumeBound(r, d)
      BY AllWaitedFor
    <3> QED
      BY <1>1, <3>1 DEF VolumeBound, IsBound
  <2> QED
    BY <1>1, <1>2, <2>1 DEF WaitedFor
<1>4. OneClaim(r)'
  BY <1>1, <1>2 DEF CallPairs, OneClaim
<1>5. NewVolume(r)'
  <2>1. ASSUME NEW d \in Claims \cap Created(r) PROVE d.volume # c.volume
    <3>1. PICK w \in Volumes \cap Created(r) : w.name = d.volume /\ IsBound(w)
      BY AllWaitedFor DEF VolumeBound
    <3>2. w \in cluster
      BY <1>1, <3>1, WhoIsBound
    <3>3. w # v
      BY <3>2
    <3> QED
      BY <1>1, <3>1, <3>3, OneName
  <2>2. \A x : IsFirst(x, todo[r]) => x = c
    BY <1>1, OneFirst
  <2> QED
    BY <1>1, <1>2, <2>1, <2>2 DEF NewVolume
<1>6. PairsOf(r)'
  BY <1>1, NewIsFree, NotCrossed DEF PairsOf, Matched
<1> QED
  BY <1>3, <1>4, <1>5, <1>6 DEF CallPairs

\* A claim that is created is the only one of its volume.
LEMMA ClaimPairs ==
  ASSUME IndInv, BoundOnce, NEW r \in Restores, CallPairs(r), UNCHANGED <<archive, bound>>,
         pc[r] = "claim", pc'[r] = "wait", todo'[r] = todo[r],
         NEW c \in todo[r], IsFirst(c, todo[r]), c \notin cluster,
         Created(r)' = Created(r) \cup {c}
  PROVE  CallPairs(r)'
<1>1. Volumes' = Volumes /\ Claims' = Claims /\ TypeOK
  BY DEF Volumes, Claims, IndInv
<1>2. \A d \in Claims \cap Created(r)' : d = c \/ d \in Claims \cap Created(r)
  OBVIOUS
<1>3. WaitedFor(r)'
  <2>1. ASSUME NEW d \in Claims \cap Created(r) PROVE VolumeBound(r, d)'
    <3>1. VolumeBound(r, d)
      BY AllWaitedFor
    <3> QED
      BY <1>1, <3>1 DEF VolumeBound, IsBound
  <2> QED
    BY <1>1, <1>2, <2>1 DEF WaitedFor
<1>4. OneClaim(r)'
  BY <1>1, <1>2 DEF CallPairs, OneClaim, NewVolume
<1>5. NewVolume(r)'
  BY DEF NewVolume
<1>6. PairsOf(r)'
  BY <1>1, NewIsFree, NotCrossed DEF PairsOf, Matched
<1> QED
  BY <1>3, <1>4, <1>5, <1>6 DEF CallPairs

\* If the volume of the last claim is bound, it is bound to that claim: any
\* other claim is of another volume.
LEMMA WaitPairs ==
  ASSUME IndInv, BoundOnce, NEW r \in Restores, CallPairs(r), UNCHANGED <<archive, bound>>,
         pc[r] = "wait", pc'[r] = "PVC", status'[r] = status[r],
         NEW c \in todo[r], IsFirst(c, todo[r]), todo'[r] = todo[r] \ {c},
         NEW v \in VolumesOf(c, dirs[r]["PV"]), IsBound(v)
  PROVE  CallPairs(r)'
<1>1. /\ Created(r)' = Created(r) /\ Volumes' = Volumes /\ Claims' = Claims
      /\ TypeOK /\ archive \in Archives /\ CallInv(r) /\ todo[r] \subseteq archive
  BY ItemsAreItems DEF Created, Volumes, Claims, IndInv
<1>2. Extracted(r) /\ \A x : VolumesOf(x, dirs[r]["PV"]) \subseteq archive \cap dirs[r]["PV"]
  BY <1>1, ItemsAreItems, VolumePass
<1>3. \A x : VolumesOf(x, dirs[r]["PV"]) \subseteq Volumes
  BY <1>2, Sorting
<1>4. \A x : IsFirst(x, todo[r]) => x = c
  BY <1>1, OneFirst
<1>5. v.name = c.volume /\ v \in Volumes /\ v \in Created(r)
  <2>1. VolumesOf(c, dirs[r]["PV"]) \cap Created(r) # {}
    BY <1>1, <1>4 DEF CallInv, VolumeFirst
  <2>2. PICK w \in VolumesOf(c, dirs[r]["PV"]) : w \in Created(r)
    BY <2>1
  <2>3. w.name = c.volume /\ v.name = c.volume
    BY DEF VolumesOf
  <2> QED
    BY <1>1, <1>3, <2>2, <2>3, OneName
<1>6. c \in Claims \cap Created(r)
  <2>1. c \in Created(r)
    BY <1>1, <1>4 DEF CallInv, VolumeFirst
  <2> QED
    BY <1>1, <2>1, VolumePass
<1>7. WaitedFor(r)'
  <2>1. \A d \in Claims \cap Created(r) : VolumeBound(r, d)
    BY <1>4, <1>5 DEF CallPairs, WaitedFor, VolumeBound
  <2> QED
    BY <1>1, <2>1 DEF WaitedFor, VolumeBound, IsBound
<1>8. OneClaim(r)' /\ NewVolume(r)'
  BY <1>1 DEF CallPairs, OneClaim, NewVolume
<1>9. PairsOf(r)'
  <2>1. ASSUME Own(r), Crossed(r) PROVE FALSE
    <3>1. PICK w \in Volumes \cap Created(r) :
            /\ <<c, w>> \in bound
            /\ \A d \in Claims \cap Created(r) : d.volume # w.name
            /\ \A b \in bound : b[1] = c \/ Matched(b)
      BY <1>4, <2>1 DEF Crossed
    <3>2. PICK b \in bound : b[2] = v
      BY <1>1, <1>5, WhoIsBound DEF Volumes
    <3>3. CASE b[1] = c
      <4>1. b = <<c, w>>
        BY <3>1, <3>3 DEF BoundOnce
      <4> QED
        BY <1>5, <1>6, <3>1, <3>2, <4>1
    <3>4. CASE b[1] # c
      <4>1. b[1].volume = c.volume
        BY <1>5, <3>1, <3>2, <3>4 DEF Matched
      <4>2. b[1] \in Claims \cap Created(r)
        <5>1. b[1] \in Created(r)
          BY <2>1 DEF Own
        <5>2. status[r].created \subseteq archive
          BY <1>1, ItemsAreItems DEF Lists
        <5> QED
          BY <1>1, <5>1, <5>2, BoundTyped DEF Created
      <4> QED
        BY <1>6, <3>4, <4>1, <4>2 DEF CallPairs, OneClaim
    <3> QED
      BY <3>3, <3>4
  <2>2. Own(r)' => Own(r)
    BY <1>1 DEF Own
  <2> QED
    BY <2>1, <2>2 DEF CallPairs, PairsOf, Matched
<1> QED
  BY <1>7, <1>8, <1>9 DEF CallPairs

\* A step of a call in what matters here: it goes on, or creates a volume or
\* its claim, or has seen that the volume is bound.
LEMMA PairSteps ==
  ASSUME IndInv, BoundOnce, NEW r \in Restores, CallPairs(r), CallNext(r)
  PROVE  CallPairs(r)' /\ UNCHANGED bound /\ cluster \subseteq cluster'
<1>1. /\ TypeOK /\ archive \in Archives /\ CallInv(r) /\ UNCHANGED archive
      /\ "created" \in Lists /\ Created(r) \subseteq archive
  BY SourceStays, ItemsAreItems DEF IndInv, Lists, Created
<1>2. ASSUME UNCHANGED <<bound, cluster, status, todo>>, pc'[r] = pc[r] \/ pc'[r] = "failed"
      PROVE  CallPairs(r)' /\ UNCHANGED bound /\ cluster \subseteq cluster'
  BY <1>1, <1>2, PairsStay
<1>3. ASSUME UNCHANGED <<bound, cluster>>, Created(r)' = Created(r),
             pc[r] \notin {"wait", "failed"}, pc'[r] \notin {"claim", "wait", "failed"}
      PROVE  CallPairs(r)' /\ UNCHANGED bound /\ cluster \subseteq cluster'
  BY <1>1, <1>3, PairsGoOn
<1>4. ASSUME Abort(r), UNCHANGED <<bound, cluster>>
      PROVE  CallPairs(r)' /\ UNCHANGED bound /\ cluster \subseteq cluster'
  <2>1. pc'[r] = "failed"
    BY <1>1, <1>4 DEF Abort, Goto, TypeOK
  <2> QED
    BY <1>2, <1>4, <2>1 DEF Abort
<1>5. CASE CreateFile(r) \/ Download(r) \/ Discover(r)
  <2>1. UNCHANGED <<bound, cluster>>
    BY <1>5 DEF CreateFile, Download, Discover, clusterVars
  <2>2. CASE ~Abort(r)
    <3>1. UNCHANGED status
      BY <1>5, <2>2 DEF CreateFile, Download, Discover
    <3>2. pc[r] \in EarlySteps /\ pc'[r] \in EarlySteps
      BY <1>1, <1>5, <2>2 DEF CreateFile, Download, Discover, Goto, EarlySteps, TypeOK
    <3> QED
      BY <1>3, <2>1, <3>1, <3>2 DEF Created, EarlySteps
  <2> QED
    BY <1>4, <2>1, <2>2
<1>6. CASE Extract(r)
  <2>1. UNCHANGED <<bound, cluster>> /\ pc[r] = "extract"
    BY <1>6 DEF Extract, clusterVars
  <2>2. CASE pc'[r] = "failed"
    <3>1. UNCHANGED <<todo, status>>
      BY <1>1, <1>6, <2>2 DEF Extract, Goto, TypeOK
    <3> QED
      BY <1>2, <2>1, <2>2, <3>1
  <2>3. CASE pc'[r] # "failed"
    <3>1. /\ pc' = [pc EXCEPT ![r] = "Namespace"]
          /\ \E e : status' = [status EXCEPT ![r].preference = e]
      BY <1>1, <1>6, <2>3 DEF Extract, Goto, TypeOK
    <3>2. pc'[r] = "Namespace"
      BY <1>1, <3>1 DEF TypeOK
    <3>3. Created(r)' = Created(r)
      <4>1. status[r] \in [Lists -> SUBSET archive]
        BY <1>1 DEF TypeOK
      <4> QED
        BY <1>1, <3>1, <4>1 DEF Created, TypeOK
    <3> QED
      BY <1>3, <2>1, <3>2, <3>3
  <2> QED
    BY <2>2, <2>3
<1>7. CASE PassDone(r) \/ Reload(r)
  <2>1. UNCHANGED <<bound, cluster, status>> /\ pc[r] \in {"Namespace", "CRD", "reload", "PVC", "Restore", "App"}
    BY <1>7 DEF PassDone, Reload, clusterVars, DirPasses
  <2>2. pc'[r] = NextStep[pc[r]]
    <3>1. pc' = [pc EXCEPT ![r] = NextStep[pc[r]]]
      BY <1>7 DEF PassDone, Reload, Turn, Goto
    <3> QED
      BY <1>1, <3>1 DEF TypeOK
  <2>3. pc'[r] \in {"CRD", "reload", "PVC", "Restore", "App", "cleanup"}
    BY <2>1, <2>2, PassOrder
  <2> QED
    BY <1>3, <2>1, <2>3 DEF Created
<1>8. CASE UnknownKind(r) \/ MarkerFailed(r) \/ Fail(r)
  BY <1>4, <1>8 DEF UnknownKind, MarkerFailed, Fail, clusterVars
<1>9. CASE ClaimExcluded(r)
  <2>1. UNCHANGED <<bound, cluster, pc>> /\ pc[r] = "PVC"
    BY <1>9 DEF ClaimExcluded, clusterVars
  <2>2. PICK c \in todo[r] : Count(r, c, "excluded")
    BY <1>9 DEF ClaimExcluded
  <2>3. c \in archive
    BY <1>1, ItemsAreItems
  <2>4. Created(r)' = Created(r)
    BY <1>1, <2>2, <2>3, CountedMore
  <2> QED
    BY <1>3, <2>1, <2>4
<1>10. CASE Cleanup(r) \/ CreateMarker(r) \/ DeleteMarker(r)
  <2>1. UNCHANGED <<bound, cluster, status>>
    BY <1>10 DEF Cleanup, CreateMarker, DeleteMarker, clusterVars
  <2>2. pc[r] \in {"cleanup", "marker", "unmark"} /\ pc'[r] \in {"marker", "unmark", "done"}
    BY <1>1, <1>10 DEF Cleanup, CreateMarker, DeleteMarker, Goto, TypeOK
  <2> QED
    BY <1>3, <2>1, <2>2 DEF Created
<1>11. CASE RestoreItem(r)
  <2>1. UNCHANGED <<bound, pc>> /\ pc[r] \in DirPasses
    BY <1>11 DEF RestoreItem
  <2>2. PICK i \in todo[r] :
          \/ Count(r, i, "excluded") /\ UNCHANGED <<cluster, budget>>
          \/ \E list \in Lists : CreateItem(i, list) /\ Count(r, i, list)
    BY <1>11 DEF RestoreItem
  <2>3. i \in archive /\ i \in Item
    BY <1>1, ItemsAreItems
  <2>4. pc[r] \notin EarlySteps \cup {"claim", "wait", "failed"} /\ pc[r] \in Dirs
    BY <2>1 DEF DirPasses, EarlySteps, Dirs
  <2>5. i \notin Volumes \cup Claims
    <3>1. PassOf(pc[r]) = pc[r]
      BY <2>4 DEF PassOf
    <3>2. PassItems(dirs[r], pc[r]) = dirs[r][pc[r]]
      BY <2>1 DEF PassItems, DirPasses
    <3>3. Extracted(r) /\ i \in dirs[r][pc[r]]
      BY <1>1, <2>4, <3>1, <3>2 DEF CallInv, ExtractedFirst, TodoOfPass
    <3> QED
      BY <2>1, <2>3, <3>3, Sorting
  <2>6. /\ cluster \subseteq cluster'
        /\ Created(r)' = Created(r) \/ Created(r)' = Created(r) \cup {i}
    <3>1. PICK list \in {"created", "existed", "failed", "excluded"} :
            Count(r, i, list) /\ cluster \subseteq cluster'
      BY <1>1, <2>2, <2>3, ItemCreated DEF CreateItem
    <3> QED
      BY <1>1, <2>3, <3>1, CountedMore
  <2>7. CallPairs(r)'
    <3>1. Created(r)' \subseteq archive /\ Created(r) \subseteq Created(r)'
          /\ \A x \in Created(r)' \ Created(r) : x \notin Volumes \cup Claims
      BY <1>1, <2>3, <2>5, <2>6
    <3> QED
      BY <1>1, <2>1, <2>4, <3>1, PairsGoOn
  <2> QED
    BY <2>1, <2>6, <2>7
<1>12. CASE RestoreVolume(r)
  <2>1. UNCHANGED bound /\ pc[r] = "PVC"
    BY <1>12 DEF RestoreVolume
  <2>2. todo[r] \subseteq Claims /\ todo[r] \subseteq archive /\ Extracted(r)
    BY <1>1, <2>1, VolumePass
  <2>0. PICK c \in todo[r] : IsFirst(c, todo[r]) /\ \E v \in VolumesOf(c, dirs[r]["PV"]) :
          \/ Count(r, v, "excluded") /\ UNCHANGED <<pc, cluster, budget>>
          \/ \E list \in Lists :
               /\ CreateItem(v, list) /\ Count(r, v, list)
               /\ \/ list = "created" /\ Goto(r, "claim") /\ UNCHANGED todo
                  \/ list # "created" /\ UNCHANGED pc
    BY <1>12 DEF RestoreVolume
  <2>3. PICK v \in VolumesOf(c, dirs[r]["PV"]) :
          \/ Count(r, v, "excluded") /\ UNCHANGED <<pc, cluster, budget>>
          \/ \E list \in Lists :
               /\ CreateItem(v, list) /\ Count(r, v, list)
               /\ \/ list = "created" /\ Goto(r, "claim") /\ UNCHANGED todo
                  \/ list # "created" /\ UNCHANGED pc
    BY <2>0
  <2>4. v \in archive /\ v \in Item /\ v \in Volumes /\ v.name = c.volume
    <3>1. v \in archive /\ v \in dirs[r]["PV"] /\ v \in Item
      BY <1>1, ItemsAreItems
    <3> QED
      BY <2>2, <3>1, Sorting DEF VolumesOf
  <2>5. ASSUME CreateItem(v, "created"), Count(r, v, "created"), Goto(r, "claim"), UNCHANGED todo
        PROVE  CallPairs(r)' /\ cluster \subseteq cluster'
    <3>1. v \notin cluster /\ cluster' = cluster \cup {v}
      BY <2>5 DEF CreateItem, Accepts, Stands
    <3>2. Created(r)' = Created(r) \cup {v}
      BY <1>1, <2>4, <2>5, CountedMore
    <3>3. pc'[r] = "claim" /\ todo'[r] = todo[r]
      BY <1>1, <2>5 DEF Goto, TypeOK
    <3>4. CallPairs(r)'
      BY <1>1, <2>0, <2>1, <2>4, <3>1, <3>2, <3>3, VolumePairs
    <3> QED
      BY <3>1, <3>4
  <2>6. ASSUME pc' = pc, Created(r)' = Created(r), cluster \subseteq cluster'
        PROVE  CallPairs(r)' /\ cluster \subseteq cluster'
    BY <1>1, <2>1, <2>6, PairsGoOn
  <2>7. CASE Count(r, v, "excluded") /\ UNCHANGED <<pc, cluster, budget>>
    <3>1. Created(r)' = Created(r)
      BY <1>1, <2>4, <2>7, CountedMore
    <3>2. pc' = pc /\ cluster' = cluster
      BY <2>7
    <3> QED
      BY <2>1, <2>6, <3>1, <3>2
  <2>8. ASSUME NEW list \in Lists, CreateItem(v, list), Count(r, v, list),
               \/ list = "created" /\ Goto(r, "claim") /\ UNCHANGED todo
               \/ list # "created" /\ UNCHANGED pc
        PROVE  CallPairs(r)' /\ cluster \subseteq cluster'
    <3>1. list \in {"created", "existed", "failed"}
      BY <1>1, <2>4, <2>8, ItemCreated
    <3>2. cluster \subseteq cluster'
      BY <2>8 DEF CreateItem
    <3>3. list # "created" => Created(r)' = Created(r)
      BY <1>1, <2>4, <2>8, <3>1, CountedMore
    <3> QED
      BY <2>5, <2>6, <2>8, <3>2, <3>3
  <2> QED
    BY <2>1, <2>3, <2>7, <2>8
<1>13. CASE RestoreClaim(r)
  <2>1. UNCHANGED bound /\ pc[r] = "claim"
    BY <1>13 DEF RestoreClaim
  <2>2. todo[r] \subseteq archive /\ archive \subseteq Item
    BY <1>1, ItemsAreItems
  <2>3. PICK c \in todo[r], list \in Lists :
          /\ IsFirst(c, todo[r])
          /\ CreateItem(c, list) /\ Count(r, c, list)
          /\ \/ list = "created" /\ Goto(r, "wait") /\ UNCHANGED todo
             \/ list # "created" /\ Goto(r, "PVC")
    BY <1>13 DEF RestoreClaim
  <2>4. list \in {"created", "existed", "failed"} /\ c \in archive
    BY <1>1, <2>2, <2>3, ItemCreated
  <2>5. cluster \subseteq cluster'
    BY <2>3 DEF CreateItem
  <2>6. CASE list = "created"
    <3>1. c \notin cluster
      BY <2>3, <2>6 DEF CreateItem, Accepts, Stands
    <3>2. Created(r)' = Created(r) \cup {c}
      BY <1>1, <2>3, <2>4, <2>6, CountedMore
    <3>3. pc'[r] = "wait" /\ todo'[r] = todo[r]
      BY <1>1, <2>3, <2>6 DEF Goto, TypeOK
    <3> QED
      BY <1>1, <2>1, <2>3, <2>5, <3>1, <3>2, <3>3, ClaimPairs
  <2>7. CASE list # "created"
    <3>1. Created(r)' = Created(r)
      BY <1>1, <2>3, <2>4, <2>7, CountedMore
    <3>2. pc'[r] = "PVC"
      BY <1>1, <2>3, <2>7 DEF Goto, TypeOK
    <3>3. CallPairs(r)'
      BY <1>1, <2>1, <3>1, <3>2, PairsGoOn
    <3> QED
      BY <2>1, <2>5, <3>3
  <2> QED
    BY <2>6, <2>7
<1>14. CASE WaitBound(r)
  <2>1. UNCHANGED <<bound, cluster>> /\ pc[r] = "wait"
    BY <1>14 DEF WaitBound, clusterVars
  <2>0. PICK c \in todo[r] : IsFirst(c, todo[r]) /\ \E v \in VolumesOf(c, dirs[r]["PV"]) :
          \/ IsBound(v) /\ Without(r, c) /\ Goto(r, "PVC") /\ UNCHANGED <<served, dirs, tempdir, tries, status>>
          \/ UNCHANGED <<pc, served, dirs, tempdir, todo, status>>
          \/ Abort(r)
    BY <1>14 DEF WaitBound
  <2>2. PICK v \in VolumesOf(c, dirs[r]["PV"]) :
          \/ IsBound(v) /\ Without(r, c) /\ Goto(r, "PVC") /\ UNCHANGED <<served, dirs, tempdir, tries, status>>
          \/ UNCHANGED <<pc, served, dirs, tempdir, todo, status>>
          \/ Abort(r)
    BY <2>0
  <2>3. CASE IsBound(v) /\ Without(r, c) /\ Goto(r, "PVC") /\ UNCHANGED <<served, dirs, tempdir, tries, status>>
    <3>1. pc'[r] = "PVC" /\ todo'[r] = todo[r] \ {c} /\ status'[r] = status[r]
      BY <1>1, <2>3 DEF Without, Goto, TypeOK
    <3> QED
      BY <1>1, <2>0, <2>1, <2>3, <3>1, WaitPairs
  <2> QED
    BY <1>2, <1>4, <2>1, <2>2, <2>3
<1> QED
  BY <1>5, <1>6, <1>7, <1>8, <1>9, <1>10, <1>11, <1>12, <1>13, <1>14 DEF CallNext

\* When the cluster binds a claim to a free volume, it is the claim the call
\* has created last, and its volume: all others are bound. If that volume was
\* taken before, the claim is bound to one whose claim could not be created.
LEMMA BindPairs ==
  ASSUME IndInv, PairsInv, NEW x \in cluster, NEW v \in cluster, Bind(x, v), NEW r \in Restores
  PROVE  CallPairs(r)'
<1>1. /\ x.kind = "PersistentVolumeClaim" /\ v.kind = "PersistentVolume"
      /\ ~IsBound(x) /\ ~IsBound(v)
      /\ bound' = bound \cup {<<x, v>>}
      /\ UNCHANGED <<archive, pc, todo, status>>
  BY DEF Bind, callVars, sourceVars
<1>2. /\ Created(r)' = Created(r) /\ Volumes' = Volumes /\ Claims' = Claims
      /\ TypeOK /\ archive \in Archives /\ todo[r] \subseteq archive
      /\ BoundOnce /\ CallPairs(r)
      /\ Created(r) \subseteq archive
  BY <1>1, ItemsAreItems DEF Created, Volumes, Claims, IndInv, PairsInv, Lists
<1>3. WaitedFor(r)'
  <2>1. \A y : IsBound(y) => IsBound(y)'
    BY <1>1 DEF IsBound
  <2> QED
    BY <1>1, <1>2, <2>1 DEF CallPairs, WaitedFor, VolumeBound
<1>4. OneClaim(r)' /\ NewVolume(r)'
  BY <1>1, <1>2 DEF CallPairs, OneClaim, NewVolume
<1>5. PairsOf(r)'
  <2> SUFFICES ASSUME Own(r)' PROVE (\A b \in bound' : Matched(b)) \/ Crossed(r)'
    BY DEF PairsOf, Matched
  <2>1. Own(r) /\ x \in Claims \cap Created(r) /\ v \in Volumes \cap Created(r)
    <3>1. Own(r) /\ <<x, v>>[1] \in Created(r) /\ <<x, v>>[2] \in Created(r)
      BY <1>1, <1>2 DEF Own
    <3> QED
      BY <1>1, <1>2, <3>1 DEF Claims, Volumes
  <2>2. \A b \in bound : b[1] # x /\ b[2] # v
    BY <1>1 DEF IsBound
  <2>3. ASSUME NEW d \in Claims \cap Created(r), d.volume = v.name PROVE IsFirst(d, todo[r])
    <3>1. CASE VolumeBound(r, d)
      <4>1. PICK w \in Volumes \cap Created(r) : w.name = d.volume /\ IsBound(w)
        BY <3>1 DEF VolumeBound
      <4>2. w = v
        BY <1>2, <2>1, <2>3, <4>1, OneName
      <4> QED
        BY <1>1, <4>1, <4>2
    <3> QED
      BY <1>2, <3>1 DEF CallPairs, WaitedFor
  <2>4. ASSUME VolumeBound(r, x), \A b \in bound : Matched(b) PROVE FALSE
    <3>1. PICK w \in Volumes \cap Created(r) : w.name = x.volume /\ IsBound(w)
      BY <2>4 DEF VolumeBound
    <3>2. PICK b \in bound : b[2] = w
      BY <1>2, <3>1, WhoIsBound DEF Volumes
    <3>3. b[1] \in Claims \cap Created(r)
      BY <1>2, <2>1, BoundTyped DEF Own
    <3>4. b[1].volume = x.volume
      BY <2>4, <3>1, <3>2 DEF Matched
    <3> QED
      BY <1>2, <2>1, <2>2, <3>3, <3>4 DEF CallPairs, OneClaim
  <2>5. ASSUME Crossed(r) PROVE FALSE
    <3>1. PICK c \in Claims \cap Created(r), w \in Volumes \cap Created(r) :
            /\ IsFirst(c, todo[r]) /\ <<c, w>> \in bound
            /\ \A d \in Claims \cap Created(r) : d.volume # w.name
            /\ \A b \in bound : b[1] = c \/ Matched(b)
      BY <2>5 DEF Crossed
    <3>2. x # c
      <4>1. <<c, w>>[1] = c
        OBVIOUS
      <4> QED
        BY <2>2, <3>1, <4>1
    <3>3. ~IsFirst(x, todo[r])
      BY <1>2, <3>1, <3>2, OneFirst
    <3>4. PICK u \in Volumes \cap Created(r) : u.name = x.volume /\ IsBound(u)
      BY <1>2, <2>1, <3>3 DEF CallPairs, WaitedFor, VolumeBound
    <3>5. PICK b \in bound : b[2] = u
      BY <1>2, <3>4, WhoIsBound DEF Volumes
    <3>6. CASE b[1] = c
      <4>1. b = <<c, w>>
        BY <1>2, <3>1, <3>6 DEF BoundOnce
      <4>2. u = w
        BY <3>5, <4>1
      <4> QED
        BY <2>1, <3>1, <3>4, <4>2
    <3>7. CASE b[1] # c
      <4>1. b[1].volume = x.volume
        BY <3>1, <3>4, <3>5, <3>7 DEF Matched
      <4>2. b[1] \in Claims \cap Created(r)
        BY <1>2, <2>1, BoundTyped DEF Own
      <4> QED
        BY <1>2, <2>1, <2>2, <4>1, <4>2 DEF CallPairs, OneClaim
    <3> QED
      BY <3>6, <3>7
  <2>6. (\A b \in bound : Matched(b)) /\ IsFirst(x, todo[r])
    BY <1>2, <2>1, <2>4, <2>5 DEF CallPairs, PairsOf, WaitedFor
  <2>7. CASE x.volume = v.name
    <3>1. Matched(<<x, v>>)
      BY <2>7 DEF Matched
    <3> QED
      BY <1>1, <2>6, <3>1
  <2>8. CASE x.volume # v.name
    <3>1. \A d \in Claims \cap Created(r) : d.volume # v.name
      BY <1>2, <2>3, <2>6, <2>8, OneFirst
    <3>2. pc[r] \in {"wait", "failed"}
      BY <1>2, <2>1, <2>6, AllWaitedFor
    <3>3. \A b \in bound' : b[1] = x \/ Matched(b)
      BY <1>1, <2>6
    <3>4. <<x, v>> \in bound'
      BY <1>1
    <3> QED
      BY <1>1, <1>2, <2>1, <2>6, <3>1, <3>2, <3>3, <3>4 DEF Crossed, Matched
  <2> QED
    BY <2>7, <2>8
<1> QED
  BY <1>3, <1>4, <1>5 DEF CallPairs

\* Nothing is bound in the beginning, and nothing is created.
LEMMA PairsInit == Init => PairsInv
<1> SUFFICES ASSUME Init PROVE PairsInv
  OBVIOUS
<1>1. BoundOnce
  BY DEF Init, BoundOnce
<1>2. ASSUME NEW r \in Restores PROVE CallPairs(r)
  <2>1. Created(r) = {} /\ pc[r] = "create" /\ bound = {}
    BY DEF Init, Created, EmptyStatus, Lists
  <2> QED
    BY <2>1 DEF CallPairs, WaitedFor, OneClaim, NewVolume, PairsOf
<1> QED
  BY <1>1, <1>2 DEF PairsInv

\* The pairs stay in order, whatever the calls and the target do.
LEMMA PairsInvariance == Spec => []PairsInv
<1>1. ASSUME IndInv, PairsInv, [Next]_vars PROVE PairsInv'
  <2>1. TypeOK /\ BoundOnce /\ \A r \in Restores : CallPairs(r)
    BY <1>1 DEF IndInv, PairsInv
  <2>2. ASSUME UNCHANGED bound, cluster \subseteq cluster' PROVE BoundOnce'
    BY <2>1, <2>2 DEF BoundOnce
  <2>3. ASSUME NEW r \in Restores, CallNext(r) PROVE PairsInv'
    <3>1. CallPairs(r)' /\ UNCHANGED bound /\ cluster \subseteq cluster'
      BY <1>1, <2>1, <2>3, PairSteps
    <3>2. ASSUME NEW s \in Restores \ {r} PROVE CallPairs(s)'
      <4>1. pc'[s] = pc[s] /\ todo'[s] = todo[s] /\ status'[s] = status[s] /\ UNCHANGED archive
        BY <2>1, <2>3, OthersStay, SourceStays
      <4> QED
        BY <2>1, <3>1, <4>1, PairsStay
    <3> QED
      BY <2>2, <3>1, <3>2 DEF PairsInv
  <2>4. ASSUME UNCHANGED <<archive, bound, pc, todo, status>> PROVE \A r \in Restores : CallPairs(r)'
    BY <2>1, <2>4, PairsStay
  <2>5. ASSUME NEW x \in cluster, NEW v \in cluster, Bind(x, v) PROVE PairsInv'
    <3>1. BoundOnce'
      <4>1. /\ x.kind = "PersistentVolumeClaim" /\ v.kind = "PersistentVolume"
            /\ ~IsBound(x) /\ ~IsBound(v)
            /\ bound' = bound \cup {<<x, v>>} /\ cluster' = cluster
        BY <2>5 DEF Bind
      <4>2. \A b \in bound : b[1] # x /\ b[2] # v
        BY <4>1 DEF IsBound
      <4>3. <<x, v>>[1] = x /\ <<x, v>>[2] = v
        OBVIOUS
      <4> QED
        BY <2>1, <4>1, <4>2, <4>3 DEF BoundOnce
    <3> QED
      BY <1>1, <2>5, <3>1, BindPairs DEF PairsInv
  <2>6. ASSUME NEW x \in cluster, OtherDeletes(x) PROVE PairsInv'
    <3>1. /\ x.kind = "PersistentVolume" /\ ~IsBound(x) /\ cluster' = cluster \ {x}
          /\ UNCHANGED <<archive, bound, pc, todo, status>>
      BY <2>6 DEF OtherDeletes, callVars, sourceVars
    <3>2. \A b \in bound : b[1] # x /\ b[2] # x
      BY <3>1 DEF IsBound
    <3>3. BoundOnce'
      BY <2>1, <3>1, <3>2 DEF BoundOnce
    <3> QED
      BY <2>4, <3>1, <3>3 DEF PairsInv
  <2>7. ASSUME \/ \E x \in cluster : Establish(x)
               \/ \E i \in archive : OtherCreates(i)
               \/ FileDeleted
               \/ UNCHANGED vars
        PROVE  PairsInv'
    <3>1. UNCHANGED <<archive, bound, pc, todo, status>> /\ cluster \subseteq cluster'
      BY <2>7 DEF Establish, OtherCreates, FileDeleted, vars, callVars, sourceVars, clusterVars
    <3> QED
      BY <2>2, <2>4, <3>1 DEF PairsInv
  <2> QED
    BY <1>1, <2>3, <2>5, <2>6, <2>7 DEF Next, TargetNext
<1> QED
  BY <1>1, PairsInit, Invariance, PTL DEF Spec

\* Claims and volumes find each other again by storage class alone, as long as
\* the target has none but those of the call: there is never more than one
\* volume without its claim, and none of a claim that waits is taken.
THEOREM Pairing == Spec => []ReboundInPairs
<1>1. IndInv /\ PairsInv => ReboundInPairs
  <2> SUFFICES ASSUME IndInv, PairsInv, NEW r \in Restores, Undisturbed(r)
               PROVE  \A b \in bound : b[1].volume = b[2].name
    BY DEF ReboundInPairs
  <2>1. TypeOK /\ BoundOnce /\ CallPairs(r)
    BY DEF IndInv, PairsInv
  <2>2. Own(r)
    <3>1. \A b \in bound : b[1] \in Created(r) /\ b[2] \in Created(r)
      BY <2>1, BoundTyped DEF Undisturbed
    <3> QED
      BY <3>1 DEF Own
  <2>3. ~Crossed(r)
    BY DEF Crossed, Undisturbed
  <2> QED
    BY <2>1, <2>2, <2>3 DEF CallPairs, PairsOf, Matched
<1> QED
  BY <1>1, Invariance, PairsInvariance, PTL

-----------------------------------------------------------------------------
(* A call can always go on until it returns.                               *)

\* What the guards of CallNext ask of a call that has not returned: nothing in
\* most steps, but in a pass that an item is the next, and of the claim that it
\* names a volume, which the call looks at then.
CanGoOn(r) ==
  \/ pc[r] \in EarlySteps \cup {"reload", "cleanup", "marker", "unmark"}
  \/ pc[r] \in DirPasses \cup {"PVC"} /\ todo[r] = {}
  \/ pc[r] \in DirPasses /\ \E i \in todo[r] : IsFirst(i, todo[r])
  \/ /\ pc[r] = "PVC"
     /\ \E c \in todo[r] :
          /\ IsFirst(c, todo[r])
          /\ \/ c.kind \notin served[r]
             \/ ClaimLeftOut(pref[r], dirs[r]["PV"], c)
             \/ VolumesOf(c, dirs[r]["PV"]) # {}
  \/ pc[r] = "claim" /\ \E c \in todo[r] : IsFirst(c, todo[r])
  \/ /\ pc[r] = "wait"
     /\ \E c \in todo[r] : IsFirst(c, todo[r]) /\ VolumesOf(c, dirs[r]["PV"]) # {}

\* Files that are left have a first, as there are no infinite descents of Rank.
LEMMA SomeFirst ==
  ASSUME archive \in Archives, NEW T, T \subseteq archive, T # {}
  PROVE  \E i \in T : IsFirst(i, T)
<1> DEFINE Below == OpToRel(<, Nat)
           Places == {Rank[i] : i \in T}
<1>1. \A i \in T : Rank[i] \in Nat
  BY RestoreAssumption
<1>2. Places \subseteq Nat /\ Places # {}
  BY <1>1
<1>3. IsWellFoundedOn(Below, Nat)
  BY NatLessThanWellFounded
<1>4. \A x, y \in Nat : <<x, y>> \in Below <=> x < y
  BY DEF OpToRel
<1> HIDE DEF Below
<1>5. \E x \in Places : \A y \in Places : ~(<<y, x>> \in Below)
  <2> HIDE DEF Places
  <2> QED
    BY <1>2, <1>3, WFMin
<1>6. PICK i \in T : \A y \in Places : ~(<<y, Rank[i]>> \in Below)
  BY <1>5
<1>7. ASSUME NEW j \in T PROVE Rank[i] <= Rank[j]
  <2>1. ~(Rank[j] < Rank[i])
    BY <1>1, <1>4, <1>6
  <2> QED
    BY <1>1, <2>1
<1> QED
  BY <1>7 DEF IsFirst

\* A call comes to a stop only where it returns: in every pass there is a next
\* item or an end, and a claim that is made or waited for has its volume.
THEOREM GoesOn == Spec => [](\A r \in Restores : pc[r] \notin {"done", "failed"} => CanGoOn(r))
<1>1. ASSUME IndInv, NEW r \in Restores, pc[r] \notin {"done", "failed"} PROVE CanGoOn(r)
  <2>1. TypeOK /\ archive \in Archives /\ CallInv(r)
    BY <1>1 DEF IndInv
  <2>2. pc[r] \in Steps /\ todo[r] \subseteq archive
    BY <2>1 DEF TypeOK
  <2>3. CASE pc[r] \in EarlySteps \cup {"reload", "cleanup", "marker", "unmark"}
    BY <2>3 DEF CanGoOn
  <2>4. CASE pc[r] \in DirPasses \cup {"PVC"} /\ todo[r] = {}
    BY <2>4 DEF CanGoOn
  <2>5. CASE pc[r] \in DirPasses /\ todo[r] # {}
    BY <2>1, <2>2, <2>5, SomeFirst DEF CanGoOn
  <2>6. CASE pc[r] = "PVC" /\ todo[r] # {}
    <3>1. PICK c \in todo[r] : IsFirst(c, todo[r])
      BY <2>1, <2>2, <2>6, SomeFirst
    <3>2. ClaimLeftOut(pref[r], dirs[r]["PV"], c) \/ VolumesOf(c, dirs[r]["PV"]) # {}
      BY DEF ClaimLeftOut
    <3> QED
      BY <2>6, <3>1, <3>2 DEF CanGoOn
  <2>7. CASE pc[r] \in {"claim", "wait"}
    <3>1. PICK c \in todo[r] : IsFirst(c, todo[r]) /\ VolumesOf(c, dirs[r]["PV"]) # {}
      BY <2>1, <2>7 DEF CallInv, VolumeFirst
    <3> QED
      BY <2>7, <3>1 DEF CanGoOn
  <2> QED
    BY <1>1, <2>2, <2>3, <2>4, <2>5, <2>6, <2>7 DEF Steps, EarlySteps
<1>2. IndInv => \A r \in Restores : pc[r] \notin {"done", "failed"} => CanGoOn(r)
  BY <1>1
<1> QED
  BY <1>2, Invariance, PTL

-----------------------------------------------------------------------------
(* A call that takes its steps returns.                                    *)

\* How the parts of the measure compare.
LEMMA LessParts ==
  ASSUME NEW a \in Int, NEW b \in Int, NEW c \in Int, NEW d \in Int,
         NEW e \in Int, NEW f \in Int, NEW g \in Int, NEW h \in Int
  PROVE  /\ a < e => Less(<<a, b, c, d>>, <<e, f, g, h>>)
         /\ a = e /\ b < f => Less(<<a, b, c, d>>, <<e, f, g, h>>)
         /\ a = e /\ b = f /\ c < g => Less(<<a, b, c, d>>, <<e, f, g, h>>)
         /\ a = e /\ b = f /\ c = g /\ d < h => Less(<<a, b, c, d>>, <<e, f, g, h>>)
<1> DEFINE s == <<a, b, c, d>>
           t == <<e, f, g, h>>
<1>1. DOMAIN s = 1 .. 4 /\ {1, 2, 3, 4} \subseteq 1 .. 4
  OBVIOUS
<1>2. s[1] = a /\ s[2] = b /\ s[3] = c /\ s[4] = d /\ t[1] = e /\ t[2] = f /\ t[3] = g /\ t[4] = h
  OBVIOUS
<1> HIDE DEF s, t
<1>3. a < e => Less(s, t)
  <2>1. \A j \in 1 .. (1 - 1) : s[j] = t[j]
    OBVIOUS
  <2> QED
    BY <1>1, <1>2, <2>1 DEF Less
<1>4. a = e /\ b < f => Less(s, t)
  <2>1. \A j \in 1 .. (2 - 1) : j = 1
    OBVIOUS
  <2> QED
    BY <1>1, <1>2, <2>1 DEF Less
<1>5. a = e /\ b = f /\ c < g => Less(s, t)
  <2>1. \A j \in 1 .. (3 - 1) : j \in {1, 2}
    OBVIOUS
  <2> QED
    BY <1>1, <1>2, <2>1 DEF Less
<1>6. a = e /\ b = f /\ c = g /\ d < h => Less(s, t)
  <2>1. \A j \in 1 .. (4 - 1) : j \in {1, 2, 3}
    OBVIOUS
  <2> QED
    BY <1>1, <1>2, <2>1 DEF Less
<1> QED
  BY <1>3, <1>4, <1>5, <1>6 DEF s, t

\* How far the steps are from the end.
LEMMA AheadValues ==
  /\ Ahead["done"] = 0 /\ Ahead["failed"] = 0
  /\ Ahead["unmark"] = 1 /\ Ahead["marker"] = 2 /\ Ahead["cleanup"] = 3
  /\ Ahead["App"] = 4 /\ Ahead["Restore"] = 5
  /\ Ahead["PVC"] = 6 /\ Ahead["claim"] = 6 /\ Ahead["wait"] = 6
  /\ Ahead["reload"] = 7 /\ Ahead["CRD"] = 8 /\ Ahead["Namespace"] = 9
  /\ Ahead["extract"] = 10 /\ Ahead["discover"] = 11
  /\ Ahead["download"] = 12 /\ Ahead["create"] = 13
BY DEF Ahead, Steps, DirPasses

\* The measure is one of numbers.
LEMMA MeasureTyped ==
  ASSUME IndInv, NEW r \in Restores
  PROVE  /\ Ahead[pc[r]] \in Nat
         /\ pc[r] \notin {"done", "failed"} => Ahead[pc[r]] > 0
         /\ IsFiniteSet(todo[r]) /\ Cardinality(todo[r]) \in Nat
         /\ tries[r] \in Nat /\ MaxTries \in Nat
<1>1. pc[r] \in Steps
  BY DEF IndInv, TypeOK
<1>2. Ahead[pc[r]] \in Nat /\ (pc[r] \notin {"done", "failed"} => Ahead[pc[r]] > 0)
  BY <1>1, AheadValues DEF Steps, DirPasses
<1>3. archive \in Archives /\ todo[r] \subseteq archive
  BY DEF IndInv, TypeOK
<1>4. IsFiniteSet(archive)
  BY <1>3, RestoreAssumption
<1>5. IsFiniteSet(todo[r]) /\ Cardinality(todo[r]) \in Nat
  BY <1>3, <1>4, FS_Subset, FS_CardinalityType
<1>6. MaxTries \in Nat
  BY RestoreAssumption
<1>7. tries[r] \in 0 .. MaxTries
  BY DEF IndInv, TypeOK
<1> QED
  BY <1>2, <1>5, <1>6, <1>7

\* What a step of a call takes it nearer by: to a later pass, through an item
\* of this one, from the volume to its claim, or one look at the claim.
LEMMA Nearer ==
  ASSUME IndInv, NEW r \in Restores, CallNext(r)
  PROVE  \/ pc'[r] \in Steps /\ Ahead[pc'[r]] < Ahead[pc[r]]
         \/ /\ Ahead[pc'[r]] = Ahead[pc[r]]
            /\ \E c \in todo[r] : todo'[r] = todo[r] \ {c}
         \/ todo'[r] = todo[r] /\ pc[r] = "PVC" /\ pc'[r] = "claim"
         \/ todo'[r] = todo[r] /\ pc[r] = "claim" /\ pc'[r] = "wait"
         \/ /\ todo'[r] = todo[r] /\ pc[r] = "wait" /\ pc'[r] = "wait"
            /\ tries[r] < MaxTries /\ tries'[r] = tries[r] + 1
<1> USE DEF Steps, DirPasses
<1>1. TypeOK
  BY DEF IndInv
<1>2. ASSUME Abort(r), pc[r] \notin {"done", "failed"}
      PROVE  pc'[r] \in Steps /\ Ahead[pc'[r]] < Ahead[pc[r]]
  <2>1. pc'[r] = "failed"
    BY <1>1, <1>2 DEF Abort, Goto, TypeOK
  <2> QED
    BY <1>2, <2>1, AheadValues, MeasureTyped
<1>3. CASE CreateFile(r)
  BY <1>1, <1>3, AheadValues DEF CreateFile, Goto, TypeOK
<1>4. CASE Download(r)
  BY <1>1, <1>2, <1>4, AheadValues DEF Download, Goto, TypeOK
<1>5. CASE Discover(r)
  BY <1>1, <1>5, AheadValues DEF Discover, Goto, TypeOK
<1>6. CASE Extract(r)
  <2>1. pc[r] = "extract" /\ pc'[r] \in {"Namespace", "failed"}
    BY <1>1, <1>6 DEF Extract, Goto, TypeOK
  <2> QED
    BY <2>1, AheadValues
<1>7. CASE PassDone(r) \/ Reload(r)
  <2>1. pc[r] \in {"Namespace", "CRD", "reload", "PVC", "Restore", "App"}
    BY <1>7 DEF PassDone, Reload
  <2>2. pc'[r] = NextStep[pc[r]]
    BY <1>1, <1>7 DEF PassDone, Reload, Turn, Goto, TypeOK
  <2> QED
    BY <2>1, <2>2, PassOrder, AheadValues
<1>8. CASE UnknownKind(r)
  <2>1. Abort(r) /\ pc[r] \notin {"done", "failed"}
    BY <1>8 DEF UnknownKind
  <2> QED
    BY <1>2, <2>1
<1>9. CASE RestoreItem(r) \/ ClaimExcluded(r)
  BY <1>1, <1>9 DEF RestoreItem, ClaimExcluded, Without, TypeOK
<1>10. CASE RestoreVolume(r)
  <2>1. PICK c \in todo[r] :
          \/ Without(r, c) /\ UNCHANGED pc
          \/ Goto(r, "claim") /\ UNCHANGED todo
    BY <1>10 DEF RestoreVolume
  <2>2. pc[r] = "PVC"
    BY <1>10 DEF RestoreVolume
  <2> QED
    BY <1>1, <2>1, <2>2 DEF Without, Goto, TypeOK
<1>11. CASE RestoreClaim(r)
  <2>1. PICK c \in todo[r] :
          \/ Goto(r, "wait") /\ UNCHANGED todo
          \/ Goto(r, "PVC") /\ Without(r, c)
    BY <1>11 DEF RestoreClaim
  <2>2. pc[r] = "claim"
    BY <1>11 DEF RestoreClaim
  <2> QED
    BY <1>1, <2>1, <2>2, AheadValues DEF Without, Goto, TypeOK
<1>12. CASE WaitBound(r)
  <2>1. PICK c \in todo[r] :
          \/ Without(r, c) /\ Goto(r, "PVC")
          \/ /\ tries[r] < MaxTries
             /\ tries' = [tries EXCEPT ![r] = @ + 1]
             /\ UNCHANGED <<pc, todo>>
          \/ Abort(r)
    BY <1>12 DEF WaitBound
  <2>2. pc[r] = "wait"
    BY <1>12 DEF WaitBound
  <2> QED
    BY <1>1, <1>2, <2>1, <2>2, AheadValues DEF Without, Goto, TypeOK
<1>13. CASE Cleanup(r)
  BY <1>1, <1>13, AheadValues DEF Cleanup, Goto, TypeOK
<1>14. CASE CreateMarker(r)
  BY <1>1, <1>14, AheadValues DEF CreateMarker, Goto, TypeOK
<1>15. CASE DeleteMarker(r)
  BY <1>1, <1>15, AheadValues DEF DeleteMarker, Goto, TypeOK
<1>16. CASE MarkerFailed(r) \/ Fail(r)
  <2>1. Abort(r) /\ pc[r] \notin {"done", "failed"}
    BY <1>16 DEF MarkerFailed, Fail
  <2> QED
    BY <1>2, <2>1
<1> QED
  BY <1>3, <1>4, <1>5, <1>6, <1>7, <1>8, <1>9, <1>10, <1>11, <1>12, <1>13, <1>14, <1>15, <1>16
     DEF CallNext

\* Whatever a call does takes it nearer to its end, for any archive, so that
\* the number of its steps is bounded.
THEOREM Termination == Spec => StepsRunOut
<1>1. ASSUME IndInv, IndInv', [Next]_vars
      PROVE  [\A r \in Restores :
                <<pc[r], todo[r], tries[r]>>' # <<pc[r], todo[r], tries[r]>>
                  => Less(Left(r)', Left(r))]_vars
  <2> DEFINE Changes(r) == <<pc[r], todo[r], tries[r]>>' # <<pc[r], todo[r], tries[r]>>
  <2>1. ASSUME NEW r \in Restores, CallNext(r) PROVE Less(Left(r)', Left(r))
    <3> DEFINE Turns(step) == CASE step = "claim" -> 1 [] step = "wait" -> 0 [] OTHER -> 2
    <3>1. /\ Ahead[pc[r]] \in Int /\ Cardinality(todo[r]) \in Int /\ MaxTries - tries[r] \in Int
          /\ IsFiniteSet(todo[r])
      BY <1>1, MeasureTyped
    <3>2. Ahead[pc'[r]] \in Int /\ Cardinality(todo'[r]) \in Int /\ MaxTries - tries'[r] \in Int
      <4>1. PICK p, T, n : p = pc'[r] /\ T = todo'[r] /\ n = tries'[r]
        OBVIOUS
      <4>2. p \in Steps /\ T \subseteq archive' /\ n \in 0 .. MaxTries /\ archive' \in Archives
        BY <1>1, <4>1 DEF IndInv, TypeOK
      <4>3. IsFiniteSet(archive')
        BY <4>2, RestoreAssumption
      <4>4. IsFiniteSet(T) /\ Cardinality(T) \in Nat
        BY <4>2, <4>3, FS_Subset, FS_CardinalityType
      <4>5. Ahead[p] \in Nat
        BY <4>2, AheadValues DEF Steps, DirPasses
      <4>6. MaxTries \in Nat
        BY RestoreAssumption
      <4> QED
        BY <4>1, <4>2, <4>4, <4>5, <4>6
    <3>3. /\ Turns("claim") = 1 /\ Turns("wait") = 0
          /\ \A step : step \notin {"claim", "wait"} => Turns(step) = 2
      OBVIOUS
    <3>4. Turns(pc[r]) \in Int /\ Turns(pc'[r]) \in Int
      BY <3>3
    <3>5. /\ Left(r) = <<Ahead[pc[r]], Cardinality(todo[r]), Turns(pc[r]), MaxTries - tries[r]>>
          /\ Left(r)' = <<Ahead[pc'[r]], Cardinality(todo'[r]), Turns(pc'[r]), MaxTries - tries'[r]>>
      BY DEF Left
    <3> HIDE DEF Turns
    <3>6. PICK a \in Int, b \in Int, c \in Int, d \in Int :
            a = Ahead[pc'[r]] /\ b = Cardinality(todo'[r]) /\ c = Turns(pc'[r]) /\ d = MaxTries - tries'[r]
      BY <3>2, <3>4
    <3>7. PICK e \in Int, f \in Int, g \in Int, h \in Int :
            e = Ahead[pc[r]] /\ f = Cardinality(todo[r]) /\ g = Turns(pc[r]) /\ h = MaxTries - tries[r]
      BY <3>1, <3>4
    <3>8. Left(r)' = <<a, b, c, d>> /\ Left(r) = <<e, f, g, h>>
      BY <3>5, <3>6, <3>7
    <3>9. /\ a < e => Less(<<a, b, c, d>>, <<e, f, g, h>>)
          /\ a = e /\ b < f => Less(<<a, b, c, d>>, <<e, f, g, h>>)
          /\ a = e /\ b = f /\ c < g => Less(<<a, b, c, d>>, <<e, f, g, h>>)
          /\ a = e /\ b = f /\ c = g /\ d < h => Less(<<a, b, c, d>>, <<e, f, g, h>>)
      BY LessParts
    <3>10. Less(<<a, b, c, d>>, <<e, f, g, h>>) => Less(Left(r)', Left(r))
      BY <3>8
    <3>11. CASE Ahead[pc'[r]] < Ahead[pc[r]]
      <4>1. a < e
        BY <3>6, <3>7, <3>11
      <4> QED
        BY <3>9, <3>10, <4>1
    <3>12. CASE /\ Ahead[pc'[r]] = Ahead[pc[r]]
                /\ \E i \in todo[r] : todo'[r] = todo[r] \ {i}
      <4>1. PICK i \in todo[r] : todo'[r] = todo[r] \ {i}
        BY <3>12
      <4>2. Cardinality(todo[r] \ {i}) = Cardinality(todo[r]) - 1
        BY <3>1, FS_RemoveElement
      <4>3. Cardinality(todo'[r]) < Cardinality(todo[r])
        BY <3>1, <4>1, <4>2
      <4> QED
        <5>1. a = e /\ b < f
          BY <3>6, <3>7, <3>12, <4>3
        <5> QED
          BY <3>9, <3>10, <5>1
    <3>13. CASE \/ todo'[r] = todo[r] /\ pc[r] = "PVC" /\ pc'[r] = "claim"
                \/ todo'[r] = todo[r] /\ pc[r] = "claim" /\ pc'[r] = "wait"
      <4>1. Ahead[pc'[r]] = Ahead[pc[r]] /\ Cardinality(todo'[r]) = Cardinality(todo[r])
            /\ Turns(pc'[r]) < Turns(pc[r])
        BY <3>3, <3>13, AheadValues
      <4> QED
        <5>1. a = e /\ b = f /\ c < g
          BY <3>6, <3>7, <4>1
        <5> QED
          BY <3>9, <3>10, <5>1
    <3>14. CASE /\ todo'[r] = todo[r] /\ pc[r] = "wait" /\ pc'[r] = "wait"
                /\ tries[r] < MaxTries /\ tries'[r] = tries[r] + 1
      <4>1. Ahead[pc'[r]] = Ahead[pc[r]] /\ Cardinality(todo'[r]) = Cardinality(todo[r])
            /\ Turns(pc'[r]) = Turns(pc[r])
        BY <3>14
      <4>2. MaxTries - tries'[r] < MaxTries - tries[r]
        <5>1. MaxTries \in Nat /\ tries[r] \in Nat
          BY <1>1, MeasureTyped
        <5> QED
          BY <3>14, <5>1
      <4> QED
        <5>1. a = e /\ b = f /\ c = g /\ d < h
          BY <3>6, <3>7, <4>1, <4>2
        <5> QED
          BY <3>9, <3>10, <5>1
    <3> QED
      BY <1>1, <2>1, <3>11, <3>12, <3>13, <3>14, Nearer
  <2>2. ASSUME NEW r \in Restores, NEW s \in Restores \ {r}, CallNext(r) PROVE ~Changes(s)
    BY <1>1, <2>2, OthersStay DEF IndInv
  <2>3. ASSUME TargetNext \/ UNCHANGED vars, NEW s \in Restores PROVE ~Changes(s)
    <3>1. UNCHANGED callVars
      BY <1>1, <2>3, TargetTyped DEF IndInv, vars
    <3> QED
      BY <3>1 DEF callVars
  <2>4. CASE Next
    BY <2>1, <2>2, <2>3, <2>4 DEF Next
  <2>5. CASE UNCHANGED vars
    BY <2>5
  <2> QED
    BY <1>1, <2>4, <2>5
<1> QED
  BY <1>1, Invariance, PTL DEF Spec, StepsRunOut

\* The measures, and which of them is below which.
Measures == [1 .. 4 -> Nat]

Descent == {m \in Measures \X Measures : Less(m[1], m[2])}

\* A measure cannot become smaller for ever. With Termination and GoesOn this
\* is why each call of Restore returns, after finitely many steps of its own,
\* however large the archive is and whatever the cluster does.
THEOREM NoEndlessDescent ==
  IsWellFoundedOn(Descent, Measures) /\ (Spec => [](\A r \in Restores : Left(r) \in Measures))
<1>1. IsWellFoundedOn(Descent, Measures)
  <2> DEFINE Below == OpToRel(<, Nat)
             Lex == LexProductOrdering(Below, Nat, 4)
  <2>1. IsWellFoundedOn(Below, Nat)
    BY NatLessThanWellFounded
  <2>2. \A x, y \in Nat : x < y => <<x, y>> \in Below
    BY DEF OpToRel
  <2> HIDE DEF Below
  <2>3. IsWellFoundedOn(Lex, Measures)
    BY <2>1, WFLexProductOrdering DEF Measures
  <2>4. ASSUME NEW s \in Measures, NEW t \in Measures, Less(s, t) PROVE <<s, t>> \in Lex
    <3>1. PICK k \in 1 .. 4 : s[k] < t[k] /\ \A j \in 1 .. (k - 1) : s[j] = t[j]
      BY <2>4 DEF Less, Measures
    <3>2. <<s[k], t[k]>> \in Below
      BY <2>2, <3>1 DEF Measures
    <3> QED
      BY <3>1, <3>2 DEF LexProductOrdering, Measures
  <2>5. Descent \subseteq Lex
    <3> HIDE DEF Lex
    <3> QED
      BY <2>4 DEF Descent
  <2> HIDE DEF Lex
  <2>6. Descent \cap (Measures \X Measures) \subseteq Lex
    BY <2>5
  <2> QED
    BY <2>3, <2>6, IsWellFoundedOnSubrelation
<1>2. ASSUME IndInv, NEW r \in Restores PROVE Left(r) \in Measures
  <2> DEFINE Turns(step) == CASE step = "claim" -> 1 [] step = "wait" -> 0 [] OTHER -> 2
  <2>1. \A step : Turns(step) \in Nat
    OBVIOUS
  <2>2. tries[r] \in 0 .. MaxTries
    BY <1>2 DEF IndInv, TypeOK
  <2>3. Ahead[pc[r]] \in Nat /\ Cardinality(todo[r]) \in Nat /\ MaxTries - tries[r] \in Nat
    BY <1>2, <2>2, MeasureTyped
  <2>4. Left(r) = <<Ahead[pc[r]], Cardinality(todo[r]), Turns(pc[r]), MaxTries - tries[r]>>
    BY DEF Left
  <2> HIDE DEF Turns
  <2>5. PICK a \in Nat, b \in Nat, c \in Nat, d \in Nat : Left(r) = <<a, b, c, d>>
    BY <2>1, <2>3, <2>4
  <2> QED
    BY <2>5 DEF Measures
<1>3. IndInv => \A r \in Restores : Left(r) \in Measures
  BY <1>2
<1> QED
  BY <1>1, <1>3, Invariance, PTL

-----------------------------------------------------------------------------
(* What a call tries, and what its preference selects.                     *)

\* What the call is to create of the archive.
ToCreate(r) == Selected(pref[r], archive)

\* The directories say what is selected, each in its way.
LEMMA SelectedHow ==
  ASSUME NEW r \in Restores, Extracted(r)
  PROVE  /\ ToCreate(r) \subseteq archive
         /\ \A p \in DirPasses : \A i \in dirs[r][p] :
              i \in ToCreate(r) <=> ~LeftOut(pref[r], LookedAt(dirs[r]), i)
         /\ \A c \in dirs[r]["PVC"] :
              c \in ToCreate(r) <=> /\ ~ClaimLeftOut(pref[r], dirs[r]["PV"], c)
                                    /\ \E v \in VolumesOf(c, dirs[r]["PV"]) : v.spec
         /\ \A v \in dirs[r]["PV"] :
              v \in ToCreate(r) <=> /\ v.spec
                                    /\ \E c \in dirs[r]["PVC"] \cap ToCreate(r) :
                                         v \in VolumesOf(c, dirs[r]["PV"])
         /\ \A i \in ToCreate(r) : i \notin status[r].preference
<1> DEFINE d == dirs[r]
           claims == {c \in d["PVC"] : /\ ~ClaimLeftOut(pref[r], d["PV"], c)
                                       /\ \E v \in VolumesOf(c, d["PV"]) : v.spec}
           volumes == {v \in d["PV"] : v.spec /\ \E c \in claims : v \in VolumesOf(c, d["PV"])}
           plain == {i \in d["Namespace"] \cup d["CRD"] \cup LookedAt(d) :
                       ~LeftOut(pref[r], LookedAt(d), i)}
<1>1. ToCreate(r) = plain \cup claims \cup volumes
  <2>1. d = Sorted(pref[r], archive)
    BY DEF Extracted
  <2> QED
    BY <2>1 DEF ToCreate, Selected
<1>2. /\ \A p \in Dirs, i \in archive : i \in d[p] <=> PreferedToRestore(pref[r], i) = p
      /\ \A p \in Dirs : d[p] \subseteq archive
  BY Sorting
<1>3. /\ DirPasses \subseteq Dirs /\ "PV" \in Dirs /\ "PVC" \in Dirs /\ "Exclude" \notin Dirs
      /\ "PV" \notin DirPasses /\ "PVC" \notin DirPasses
  BY DEF DirPasses, Dirs
<1>4. \A p, q \in Dirs : p # q => d[p] \cap d[q] = {}
  BY <1>2
<1>5. LookedAt(d) = d["Restore"] \cup d["App"]
  BY DEF LookedAt
<1>6. \A i : i \in plain <=> /\ \E p \in DirPasses : i \in d[p]
                             /\ ~LeftOut(pref[r], LookedAt(d), i)
  BY <1>5 DEF DirPasses
<1>7. \A v : v \in volumes => v \in d["PV"]
  OBVIOUS
<1>8. \A c : c \in claims => c \in d["PVC"]
  OBVIOUS
<1>9. \A c \in d["PVC"] : c \in claims <=> /\ ~ClaimLeftOut(pref[r], d["PV"], c)
                                           /\ \E v \in VolumesOf(c, d["PV"]) : v.spec
  OBVIOUS
<1>10. \A v \in d["PV"] : v \in volumes <=> v.spec /\ \E c \in claims : v \in VolumesOf(c, d["PV"])
  OBVIOUS
<1> HIDE DEF plain, claims, volumes
<1>11. \A i \in ToCreate(r) : \E p \in Dirs : i \in d[p]
  BY <1>1, <1>3, <1>6, <1>7, <1>8
<1>12. ToCreate(r) \subseteq archive
  BY <1>2, <1>11
<1>13. \A p \in DirPasses : \A i \in d[p] :
         i \in ToCreate(r) <=> ~LeftOut(pref[r], LookedAt(d), i)
  <2> SUFFICES ASSUME NEW p \in DirPasses, NEW i \in d[p]
               PROVE  i \in ToCreate(r) <=> ~LeftOut(pref[r], LookedAt(d), i)
    OBVIOUS
  <2>1. i \notin d["PV"] /\ i \notin d["PVC"]
    BY <1>3, <1>4
  <2> QED
    BY <1>1, <1>6, <1>7, <1>8, <2>1
<1>14. \A c \in d["PVC"] : c \in ToCreate(r) <=> c \in claims
  <2> SUFFICES ASSUME NEW c \in d["PVC"] PROVE c \in ToCreate(r) <=> c \in claims
    OBVIOUS
  <2>1. c \notin d["PV"] /\ \A p \in DirPasses : c \notin d[p]
    BY <1>3, <1>4
  <2> QED
    BY <1>1, <1>6, <1>7, <2>1
<1>15. \A v \in d["PV"] : v \in ToCreate(r) <=> v \in volumes
  <2> SUFFICES ASSUME NEW v \in d["PV"] PROVE v \in ToCreate(r) <=> v \in volumes
    OBVIOUS
  <2>1. v \notin d["PVC"] /\ \A p \in DirPasses : v \notin d[p]
    BY <1>3, <1>4
  <2> QED
    BY <1>1, <1>6, <1>8, <2>1
<1>16. claims = d["PVC"] \cap ToCreate(r)
  BY <1>8, <1>14
<1>17. \A i \in ToCreate(r) : i \notin status[r].preference
  BY <1>2, <1>3, <1>11 DEF Extracted
<1> QED
  BY <1>9, <1>10, <1>12, <1>13, <1>14, <1>15, <1>16, <1>17

\* An item that is selected is in a directory.
LEMMA SelectedPlace ==
  ASSUME NEW r \in Restores, Extracted(r), NEW i \in ToCreate(r)
  PROVE  \E d \in DirPasses \cup {"PV", "PVC"} : i \in dirs[r][d]
<1> DEFINE d == Sorted(pref[r], archive)
           claims == {c \in d["PVC"] : /\ ~ClaimLeftOut(pref[r], d["PV"], c)
                                       /\ \E v \in VolumesOf(c, d["PV"]) : v.spec}
<1>1. \/ i \in d["Namespace"] \cup d["CRD"] \cup LookedAt(d)
      \/ i \in claims
      \/ i \in d["PV"]
  BY DEF ToCreate, Selected
<1>2. i \in claims => i \in d["PVC"]
  OBVIOUS
<1> HIDE DEF d, claims
<1>3. d = dirs[r]
  BY DEF Extracted, d
<1> QED
  BY <1>1, <1>2, <1>3 DEF LookedAt, DirPasses

\* Behind TriesWhatIsSelected: what is tried is selected, what is excluded is
\* not, and a claim comes after a volume its call has made.
SelectInv(r) ==
  /\ Tried(r) \subseteq ToCreate(r)
  /\ status[r].excluded \cap ToCreate(r) = {}
  /\ pc[r] = "claim" => \E c \in todo[r] : IsFirst(c, todo[r]) /\ c \in ToCreate(r)
  /\ \A c \in Claims \cap Tried(r) : VolumesOf(c, dirs[r]["PV"]) \cap Created(r) # {}

\* A call that is at an item counts it, in the list of what became of it.
Counts(r, i, list) ==
  /\ pc[r] \notin EarlySteps \cup {"done", "failed"} /\ pc'[r] \notin {"done", "failed"}
  /\ Extracted(r) /\ dirs'[r] = dirs[r]
  /\ Count(r, i, list)
  /\ list = "excluded" => i \notin ToCreate(r)
  /\ list # "excluded" =>
       /\ i \in ToCreate(r)
       /\ i \in Volumes \/ i \notin Counted(r)
       /\ i \in Claims => VolumesOf(i, dirs[r]["PV"]) \cap Created(r) # {}

\* restoreDir counts an item as its preference has it.
LEMMA ItemCounts ==
  ASSUME TypeOK, archive \in Archives, NEW r \in Restores, CallInv(r), RestoreItem(r)
  PROVE  /\ \E i \in archive, list \in {"created", "existed", "failed", "excluded"} : Counts(r, i, list)
         /\ pc'[r] # "claim"
<1>1. /\ pc[r] \in DirPasses /\ pc'[r] = pc[r] /\ dirs'[r] = dirs[r]
      /\ pc[r] \notin EarlySteps \cup {"done", "failed", "claim", "wait"}
  BY DEF RestoreItem, DirPasses, EarlySteps
<1>2. PICK i \in todo[r], list \in {"created", "existed", "failed", "excluded"} :
        /\ Count(r, i, list)
        /\ list = "excluded" => LeftOut(pref[r], LookedAt(dirs[r]), i)
        /\ list # "excluded" => ~LeftOut(pref[r], LookedAt(dirs[r]), i)
  <2>1. PICK i \in todo[r] :
          \/ LeftOut(pref[r], LookedAt(dirs[r]), i) /\ Count(r, i, "excluded")
          \/ /\ ~LeftOut(pref[r], LookedAt(dirs[r]), i)
             /\ \E list \in Lists : CreateItem(i, list) /\ Count(r, i, list)
    BY DEF RestoreItem
  <2>2. i \in Item
    BY ItemsAreItems
  <2> QED
    BY <2>1, <2>2, ItemCreated
<1>3. Extracted(r) /\ i \in archive
  BY <1>1, ItemsAreItems DEF CallInv, ExtractedFirst
<1>4. i \in dirs[r][pc[r]] /\ i \notin Volumes \cup Claims
  <2>1. PassOf(pc[r]) = pc[r]
    BY <1>1 DEF PassOf
  <2>2. i \in dirs[r][pc[r]]
    BY <1>1, <1>2, <2>1 DEF CallInv, TodoOfPass, PassItems
  <2> QED
    BY <1>1, <1>3, <2>2, Sorting
<1>5. i \notin Counted(r)
  <2>1. i \in Pending(r)
    BY <1>1, <1>2, <1>3, <1>4 DEF Pending
  <2> QED
    BY <1>1, <2>1 DEF CallInv, Accounted
<1>6. i \in ToCreate(r) <=> ~LeftOut(pref[r], LookedAt(dirs[r]), i)
  BY <1>1, <1>3, <1>4, SelectedHow
<1> QED
  BY <1>1, <1>2, <1>3, <1>4, <1>5, <1>6 DEF Counts

\* restorePV excludes claims that are not selected.
LEMMA ClaimNotCounts ==
  ASSUME TypeOK, NEW r \in Restores, CallInv(r), ClaimExcluded(r)
  PROVE  (\E i \in archive : Counts(r, i, "excluded")) /\ pc'[r] # "claim"
<1>1. /\ pc[r] = "PVC" /\ pc'[r] = pc[r] /\ dirs'[r] = dirs[r]
      /\ pc[r] \notin EarlySteps \cup {"done", "failed", "claim"}
  BY DEF ClaimExcluded, EarlySteps
<1>2. PICK c \in todo[r] : Count(r, c, "excluded") /\ ClaimLeftOut(pref[r], dirs[r]["PV"], c)
  BY DEF ClaimExcluded
<1>3. Extracted(r) /\ c \in dirs[r]["PVC"] /\ c \in archive
  BY <1>1, VolumePass
<1>4. c \notin ToCreate(r)
  BY <1>2, <1>3, SelectedHow
<1> QED
  BY <1>1, <1>2, <1>3, <1>4 DEF Counts

\* A volume with a spec is selected when a claim that is not excluded has it,
\* and its claim with it.
LEMMA VolumeCounts ==
  ASSUME TypeOK, archive \in Archives, NEW r \in Restores, CallInv(r), RestoreVolume(r)
  PROVE  /\ \E i \in archive, list \in {"created", "existed", "failed", "excluded"} : Counts(r, i, list)
         /\ pc'[r] = "claim" => \E c \in todo'[r] : IsFirst(c, todo'[r]) /\ c \in ToCreate(r)
<1>1. /\ pc[r] = "PVC" /\ dirs'[r] = dirs[r] /\ pc[r] \notin EarlySteps \cup {"done", "failed", "claim"}
  BY DEF RestoreVolume, EarlySteps
<1>2. Extracted(r) /\ todo[r] \subseteq archive /\ todo[r] \subseteq dirs[r]["PVC"] /\ Claims \cap Volumes = {}
  BY <1>1, VolumePass
<1>3. PICK c \in todo[r] :
        /\ IsFirst(c, todo[r]) /\ ~ClaimLeftOut(pref[r], dirs[r]["PV"], c)
        /\ \E v \in VolumesOf(c, dirs[r]["PV"]) :
             \/ ~v.spec /\ Count(r, v, "excluded") /\ UNCHANGED pc
             \/ /\ v.spec
                /\ \E list \in Lists :
                     /\ CreateItem(v, list) /\ Count(r, v, list)
                     /\ \/ list = "created" /\ Goto(r, "claim") /\ UNCHANGED todo
                        \/ list # "created" /\ UNCHANGED pc
  BY DEF RestoreVolume
<1>4. PICK v \in VolumesOf(c, dirs[r]["PV"]) :
        \/ ~v.spec /\ Count(r, v, "excluded") /\ UNCHANGED pc
        \/ /\ v.spec
           /\ \E list \in Lists :
                /\ CreateItem(v, list) /\ Count(r, v, list)
                /\ \/ list = "created" /\ Goto(r, "claim") /\ UNCHANGED todo
                   \/ list # "created" /\ UNCHANGED pc
  BY <1>3
<1>5. v \in archive /\ v \in Item /\ v \in dirs[r]["PV"]
  BY ItemsAreItems DEF VolumesOf
<1>6. v \in Volumes /\ v \notin Claims
  BY <1>2, <1>5, Sorting
<1>7. ~v.spec => v \notin ToCreate(r)
  BY <1>2, <1>5, SelectedHow
<1>8. v.spec => c \in ToCreate(r) /\ v \in ToCreate(r)
  <2>1. v.spec => c \in ToCreate(r)
    BY <1>2, <1>3, SelectedHow
  <2> QED
    BY <1>2, <1>5, <2>1, SelectedHow
<1>9. CASE ~v.spec /\ Count(r, v, "excluded") /\ UNCHANGED pc
  <2>1. Counts(r, v, "excluded")
    BY <1>1, <1>2, <1>7, <1>9 DEF Counts
  <2> QED
    BY <1>1, <1>5, <1>9, <2>1
<1>10. ASSUME v.spec, NEW list \in Lists, CreateItem(v, list), Count(r, v, list),
              \/ list = "created" /\ Goto(r, "claim") /\ UNCHANGED todo
              \/ list # "created" /\ UNCHANGED pc
       PROVE  /\ Counts(r, v, list) /\ list \in {"created", "existed", "failed"}
              /\ pc'[r] = "claim" => \E x \in todo'[r] : IsFirst(x, todo'[r]) /\ x \in ToCreate(r)
  <2>1. list \in {"created", "existed", "failed"}
    BY <1>5, <1>10, ItemCreated
  <2>2. \/ pc'[r] = "claim" /\ todo'[r] = todo[r]
        \/ pc'[r] = pc[r]
    BY <1>10 DEF Goto, TypeOK
  <2>3. pc'[r] \notin {"done", "failed"}
    BY <1>1, <2>2
  <2>4. Counts(r, v, list)
    BY <1>1, <1>2, <1>6, <1>8, <1>10, <2>1, <2>3 DEF Counts
  <2> QED
    BY <1>1, <1>3, <1>8, <1>10, <2>1, <2>2, <2>4
<1> QED
  BY <1>4, <1>5, <1>9, <1>10

\* The claim of that volume was selected when the volume was made.
LEMMA ClaimCounts ==
  ASSUME TypeOK, archive \in Archives, NEW r \in Restores, CallInv(r), SelectInv(r), RestoreClaim(r)
  PROVE  /\ \E i \in archive, list \in {"created", "existed", "failed"} : Counts(r, i, list)
         /\ pc'[r] # "claim"
<1>1. /\ pc[r] = "claim" /\ dirs'[r] = dirs[r] /\ pc[r] \notin EarlySteps \cup {"done", "failed", "wait"}
  BY DEF RestoreClaim, EarlySteps
<1>2. /\ Extracted(r) /\ todo[r] \subseteq archive /\ todo[r] \subseteq Claims /\ Claims \cap Volumes = {}
  BY <1>1, VolumePass
<1>3. PICK c \in todo[r], list \in Lists :
        /\ IsFirst(c, todo[r])
        /\ CreateItem(c, list) /\ Count(r, c, list)
        /\ Goto(r, "wait") \/ Goto(r, "PVC")
  BY DEF RestoreClaim
<1>4. c \in Item /\ c \in archive
  BY ItemsAreItems
<1>5. list \in {"created", "existed", "failed"}
  BY <1>3, <1>4, ItemCreated
<1>6. pc'[r] \in {"wait", "PVC"}
  BY <1>3 DEF Goto, TypeOK
<1>7. c \in ToCreate(r) /\ VolumesOf(c, dirs[r]["PV"]) \cap Created(r) # {}
  <2>1. PICK x \in todo[r] : IsFirst(x, todo[r]) /\ x \in ToCreate(r)
    BY <1>1 DEF SelectInv
  <2>2. PICK y \in todo[r] : IsFirst(y, todo[r]) /\ VolumesOf(y, dirs[r]["PV"]) \cap Created(r) # {}
    BY <1>1 DEF CallInv, VolumeFirst
  <2>3. x = c /\ y = c
    BY <1>2, <1>3, <2>1, <2>2, OneFirst
  <2> QED
    BY <2>1, <2>2, <2>3
<1>8. c \notin Counted(r)
  <2>1. c \in Pending(r)
    BY <1>1, <1>2, <1>4 DEF Pending
  <2> QED
    BY <1>1, <2>1 DEF CallInv, Accounted
<1> QED
  BY <1>1, <1>2, <1>3, <1>4, <1>5, <1>6, <1>7, <1>8 DEF Counts

\* What a step of a call does to its account.
LEMMA StepCounts ==
  ASSUME TypeOK, archive \in Archives, NEW r \in Restores, CallInv(r), SelectInv(r), CallNext(r)
  PROVE  /\ \/ /\ status'[r].created = status[r].created /\ status'[r].existed = status[r].existed
               /\ status'[r].failed = status[r].failed /\ status'[r].excluded = status[r].excluded
               /\ dirs'[r] = dirs[r] \/ Tried(r) = {}
            \/ \E i \in archive, list \in {"created", "existed", "failed", "excluded"} : Counts(r, i, list)
         /\ pc'[r] = "claim" => \E c \in todo'[r] : IsFirst(c, todo'[r]) /\ c \in ToCreate(r)
<1> USE DEF TypeOK
<1> DEFINE Same == status'[r] = status[r] /\ dirs'[r] = dirs[r] /\ pc'[r] # "claim"
<1>1. CASE CreateFile(r) \/ Download(r) \/ Discover(r)
  <2>1. Same
    BY <1>1 DEF CreateFile, Download, Discover, Goto, Abort
  <2> QED
    BY <2>1
<1>2. CASE Extract(r)
  <2>1. CASE tgz = "whole"
    <3>1. status[r] = EmptyStatus
      BY <1>2 DEF Extract, CallInv, ExtractedFirst, EarlySteps
    <3>2. Tried(r) = {}
      BY <3>1 DEF Tried, EmptyStatus, Lists
    <3>3. /\ status'[r].created = status[r].created /\ status'[r].existed = status[r].existed
          /\ status'[r].failed = status[r].failed /\ status'[r].excluded = status[r].excluded
      <4>1. PICK x : status' = [status EXCEPT ![r].preference = x]
        BY <1>2, <2>1 DEF Extract
      <4>2. status'[r] = [status[r] EXCEPT !.preference = x]
        BY <4>1
      <4>3. status[r] \in [Lists -> SUBSET archive] /\ {"created", "existed", "failed", "excluded"} \subseteq Lists
        BY DEF Lists
      <4> QED
        BY <4>2, <4>3
    <3>4. pc'[r] # "claim"
      BY <1>2, <2>1 DEF Extract, Goto
    <3> QED
      BY <3>2, <3>3, <3>4
  <2>2. CASE tgz # "whole"
    <3>1. Same
      BY <1>2, <2>2 DEF Extract, Goto
    <3> QED
      BY <3>1
  <2> QED
    BY <2>1, <2>2
<1>3. CASE PassDone(r) \/ Reload(r)
  <2>1. pc[r] \in {"Namespace", "CRD", "reload", "PVC", "Restore", "App"}
    BY <1>3 DEF PassDone, Reload, DirPasses
  <2>2. NextStep[pc[r]] # "claim"
    BY <2>1, PassOrder
  <2>3. Same
    BY <1>3, <2>2 DEF PassDone, Reload, Turn, Goto
  <2> QED
    BY <2>3
<1>4. CASE UnknownKind(r) \/ MarkerFailed(r) \/ Fail(r)
  <2>1. Same
    BY <1>4 DEF UnknownKind, MarkerFailed, Fail, Abort, Goto
  <2> QED
    BY <2>1
<1>5. CASE WaitBound(r)
  <2>1. Same
    <3>1. UNCHANGED <<dirs, status>>
      BY <1>5 DEF WaitBound, Abort
    <3>2. pc[r] = "wait" /\ (UNCHANGED pc \/ Goto(r, "PVC") \/ Goto(r, "failed"))
      BY <1>5 DEF WaitBound, Abort
    <3> QED
      BY <3>1, <3>2 DEF Goto
  <2> QED
    BY <2>1
<1>6. CASE Cleanup(r) \/ CreateMarker(r) \/ DeleteMarker(r)
  <2>1. Same
    BY <1>6 DEF Cleanup, CreateMarker, DeleteMarker, Goto
  <2> QED
    BY <2>1
<1> QED
  BY <1>1, <1>2, <1>3, <1>4, <1>5, <1>6, ItemCounts, ClaimNotCounts, VolumeCounts, ClaimCounts
     DEF CallNext

\* What an item counted does to the lists.
LEMMA CountsMore ==
  ASSUME TypeOK, NEW r \in Restores, NEW i \in archive,
         NEW list \in {"created", "existed", "failed", "excluded"}, Counts(r, i, list)
  PROVE  /\ list = "excluded" => Tried(r)' = Tried(r) /\ status'[r].excluded = status[r].excluded \cup {i}
         /\ list # "excluded" => Tried(r)' = Tried(r) \cup {i} /\ status'[r].excluded = status[r].excluded
         /\ list = "created" => Created(r)' = Created(r) \cup {i}
         /\ list # "created" => Created(r)' = Created(r)
<1>1. Count(r, i, list) /\ {"created", "existed", "failed", "excluded"} \subseteq Lists
  BY DEF Counts, Lists
<1>2. /\ \A l \in Lists : l # list => status'[r][l] = status[r][l]
      /\ status'[r][list] = status[r][list] \cup {i}
  BY <1>1, CountedMore
<1> QED
  BY <1>1, <1>2, CountedMore DEF Tried

\* The invariant holds through the steps of the call itself.
LEMMA SelectKeeps ==
  ASSUME TypeOK, archive \in Archives, NEW r \in Restores, CallInv(r), SelectInv(r), CallNext(r)
  PROVE  SelectInv(r)'
<1>1. UNCHANGED <<archive, pref>>
  BY SourceStays
<1>2. ToCreate(r)' = ToCreate(r) /\ Claims' = Claims
  BY <1>1 DEF ToCreate, Claims
<1>3. pc'[r] = "claim" => \E c \in todo'[r] : IsFirst(c, todo'[r]) /\ c \in ToCreate(r)
  BY StepCounts
<1>4. CASE /\ status'[r].created = status[r].created /\ status'[r].existed = status[r].existed
           /\ status'[r].failed = status[r].failed /\ status'[r].excluded = status[r].excluded
           /\ dirs'[r] = dirs[r] \/ Tried(r) = {}
  <2>1. Tried(r)' = Tried(r) /\ Created(r)' = Created(r)
    BY <1>4 DEF Tried, Created
  <2>2. \A c \in Claims \cap Tried(r)' : VolumesOf(c, dirs'[r]["PV"]) \cap Created(r)' # {}
    BY <1>4, <2>1 DEF SelectInv
  <2> QED
    BY <1>2, <1>3, <1>4, <2>1, <2>2 DEF SelectInv
<1>5. ASSUME NEW i \in archive, NEW list \in {"created", "existed", "failed", "excluded"}, Counts(r, i, list)
      PROVE  SelectInv(r)'
  <2>1. dirs'[r] = dirs[r]
    BY <1>5 DEF Counts
  <2>2. Tried(r)' \subseteq ToCreate(r) /\ status'[r].excluded \cap ToCreate(r) = {}
    BY <1>5, CountsMore DEF Counts, SelectInv
  <2>3. Created(r) \subseteq Created(r)'
    BY <1>5, CountsMore
  <2>4. ASSUME NEW c \in Claims \cap Tried(r)' PROVE VolumesOf(c, dirs[r]["PV"]) \cap Created(r)' # {}
    <3>1. VolumesOf(c, dirs[r]["PV"]) \cap Created(r) # {}
      BY <1>5, <2>4, CountsMore DEF Counts, SelectInv
    <3> QED
      BY <2>3, <3>1
  <2> QED
    BY <1>2, <1>3, <2>1, <2>2, <2>4 DEF SelectInv
<1> QED
  BY <1>4, <1>5, StepCounts

\* It holds for every call, whatever the others and the target do.
LEMMA SelectInvariance == Spec => [](\A r \in Restores : SelectInv(r))
<1> DEFINE Inv == \A r \in Restores : SelectInv(r)
<1>1. Init => Inv
  <2> SUFFICES ASSUME Init, NEW r \in Restores PROVE SelectInv(r)
    OBVIOUS
  <2>1. status[r] = EmptyStatus /\ pc[r] = "create"
    BY DEF Init
  <2>2. Tried(r) = {} /\ status[r].excluded = {}
    BY <2>1 DEF Tried, EmptyStatus, Lists
  <2> QED
    BY <2>1, <2>2 DEF SelectInv
<1>2. ASSUME IndInv, Inv, [Next]_vars PROVE Inv'
  <2>1. TypeOK /\ archive \in Archives /\ \A r \in Restores : CallInv(r)
    BY <1>2 DEF IndInv
  <2>2. ASSUME NEW s \in Restores, UNCHANGED <<archive, pref>>,
               pc'[s] = pc[s], dirs'[s] = dirs[s], todo'[s] = todo[s], status'[s] = status[s]
        PROVE  SelectInv(s)'
    <3>1. ToCreate(s)' = ToCreate(s) /\ Claims' = Claims
      BY <2>2 DEF ToCreate, Claims
    <3>2. Tried(s)' = Tried(s) /\ Created(s)' = Created(s)
      BY <2>2 DEF Tried, Created
    <3> QED
      BY <1>2, <2>2, <3>1, <3>2 DEF SelectInv
  <2>3. ASSUME NEW r \in Restores, CallNext(r) PROVE Inv'
    <3>1. UNCHANGED <<archive, pref>>
      BY <2>3, SourceStays
    <3>2. SelectInv(r)'
      BY <1>2, <2>1, <2>3, SelectKeeps
    <3>3. ASSUME NEW s \in Restores \ {r} PROVE SelectInv(s)'
      BY <2>1, <2>2, <2>3, <3>1, OthersStay
    <3> QED
      BY <3>2, <3>3
  <2>4. CASE UNCHANGED <<callVars, archive, pref>>
    BY <2>2, <2>4 DEF callVars
  <2>5. CASE TargetNext
    BY <2>1, <2>4, <2>5, TargetTyped
  <2>6. CASE UNCHANGED vars
    BY <2>4, <2>6 DEF vars, sourceVars
  <2> QED
    BY <1>2, <2>3, <2>5, <2>6 DEF Next
<1> QED
  BY <1>1, <1>2, Invariance, PTL DEF Spec

\* Why a call that is done has tried all that is selected.
LEMMA DoneTried ==
  ASSUME IndInv, NEW r \in Restores, SelectInv(r), pc[r] = "done"
  PROVE  ToCreate(r) \subseteq Tried(r) \cup Volumeless(r)
<1>1. TypeOK /\ archive \in Archives /\ CallInv(r)
  BY DEF IndInv
<1>2. Extracted(r)
  BY <1>1 DEF CallInv, ExtractedFirst, EarlySteps
<1>3. archive \ Counted(r) \subseteq Volumes \cup PassedOver(r)
  BY Accounts DEF EveryItemCounted
<1>4. ToCreate(r) \subseteq archive
  BY <1>2, SelectedHow
<1>5. \A i : i \in Counted(r) => i \in Tried(r) \cup status[r].excluded \cup status[r].preference
  BY DEF Counted, Lists, Tried
<1>6. ASSUME NEW i \in ToCreate(r), i \notin Volumes PROVE i \in Tried(r) \cup Volumeless(r)
  <2>1. CASE i \in Counted(r)
    BY <1>2, <1>5, <2>1, SelectedHow DEF SelectInv
  <2>2. CASE i \notin Counted(r)
    <3>1. i \in Claims /\ i \in PassedOver(r)
      BY <1>3, <1>4, <1>6, <2>2 DEF PassedOver
    <3>2. i \in dirs[r]["PVC"]
      <4>1. \E d \in DirPasses \cup {"PV", "PVC"} : i \in dirs[r][d]
        BY <1>2, SelectedPlace
      <4>2. i \notin dirs[r]["PV"] /\ \A d \in DirPasses : i \notin dirs[r][d]
        BY <1>2, <1>4, <1>6, <3>1, Sorting
      <4> QED
        BY <4>1, <4>2
    <3>3. PICK v \in VolumesOf(i, dirs[r]["PV"]) : v.spec
      BY <1>2, <1>6, <3>2, SelectedHow
    <3>4. v \in dirs[r]["PV"] /\ v \in Volumes
      BY <1>1, <1>2, ItemsAreItems, Sorting DEF VolumesOf
    <3>5. v \in ToCreate(r)
      BY <1>2, <1>6, <3>2, <3>3, <3>4, SelectedHow
    <3>6. PICK w \in VolumesOf(i, dirs[r]["PV"]) :
            w \in status[r].existed \cup status[r].failed \cup status[r].excluded
      BY <3>1, <3>4 DEF PassedOver
    <3>7. w = v
      <4>1. w \in Volumes /\ w.name = v.name
        BY <1>1, <1>2, <3>3, <3>6, ItemsAreItems, Sorting DEF VolumesOf
      <4> QED
        BY <1>1, <3>4, <4>1, OneName
    <3>8. w \in status[r].existed \cup status[r].failed
      BY <3>5, <3>6, <3>7 DEF SelectInv
    <3> QED
      BY <3>1, <3>6, <3>8 DEF Volumeless
  <2> QED
    BY <2>1, <2>2
<1>7. ASSUME NEW v \in ToCreate(r), v \in Volumes PROVE v \in Tried(r)
  <2>1. v \in dirs[r]["PV"]
    <3>1. \E d \in DirPasses \cup {"PV", "PVC"} : v \in dirs[r][d]
      BY <1>2, SelectedPlace
    <3>2. \A d \in DirPasses : v \notin dirs[r][d]
      BY <1>2, <1>4, <1>7, Sorting
    <3>3. v \notin dirs[r]["PVC"]
      BY <1>2, <1>4, <1>7, Sorting DEF Claims, Volumes
    <3> QED
      BY <3>1, <3>2, <3>3
  <2>2. PICK c \in dirs[r]["PVC"] \cap ToCreate(r) : v \in VolumesOf(c, dirs[r]["PV"])
    BY <1>2, <2>1, SelectedHow
  <2>3. c \in Claims /\ c \notin Volumes
    BY <1>2, <1>4, <2>2, Sorting DEF Claims, Volumes
  <2>4. PICK w \in VolumesOf(c, dirs[r]["PV"]) : w \in Tried(r)
    <3>1. CASE c \in Tried(r)
      BY <2>3, <3>1 DEF SelectInv, Tried, Created
    <3>2. CASE c \in Volumeless(r)
      BY <3>2 DEF Volumeless, Tried
    <3> QED
      BY <1>6, <2>2, <2>3, <3>1, <3>2
  <2>5. w = v
    <3>1. w \in Volumes /\ w.name = v.name
      BY <1>1, <1>2, <2>2, <2>4, ItemsAreItems, Sorting DEF VolumesOf
    <3> QED
      BY <1>1, <1>7, <3>1, OneName
  <2> QED
    BY <2>4, <2>5
<1> QED
  BY <1>6, <1>7

\* What a call tries is what its preference selects, and, when it is done, all
\* of it: in whatever passes, however its calls end, whatever the target has.
THEOREM Selection == Spec => []TriesWhatIsSelected
<1>1. IndInv /\ (\A r \in Restores : SelectInv(r)) => TriesWhatIsSelected
  BY DoneTried DEF TriesWhatIsSelected, ToCreate, SelectInv
<1> QED
  BY <1>1, Invariance, SelectInvariance, PTL

\* Where a stricter preference puts an item, the other puts it as well, except
\* that it may take for an application what the other does not.
LEMMA StricterSorts ==
  ASSUME NEW p, NEW q, Stricter(q, p), NEW i
  PROVE  /\ PreferedToRestore(q, i) \in {"Namespace", "CRD", "PV", "PVC"} =>
              PreferedToRestore(p, i) = PreferedToRestore(q, i)
         /\ PreferedToRestore(q, i) \in {"Restore", "App"} =>
              PreferedToRestore(p, i) \in {"Restore", "App"}
<1>1. /\ NamesOne(i, p.namespaces) => NamesOne(i, q.namespaces)
      /\ NamesOne(i, p.crds) => NamesOne(i, q.crds)
  BY DEF Stricter, NamesOne
<1>2. IsIn(i, p.paths) <=> IsIn(i, q.paths)
  BY DEF Stricter
<1>3. InExcludedNamespace(p, i) => InExcludedNamespace(q, i)
  BY DEF Stricter, InExcludedNamespace
<1>4. OfIncludedClass(q, {i.name}) => OfIncludedClass(p, {i.name})
  BY DEF Stricter, OfIncludedClass
<1> QED
  BY <1>1, <1>2, <1>3, <1>4 DEF PreferedToRestore

\* What restoreDir leaves out, it leaves out by a stricter preference too: a
\* Service is excluded by its namespace together with its Endpoints.
LEMMA StricterLeavesOut ==
  ASSUME NEW p, NEW q, Stricter(q, p), NEW a, NEW i,
         i \in LookedAt(Sorted(q, a)) \/ i.kind \in {"Namespace", "CustomResourceDefinition"},
         LeftOut(p, LookedAt(Sorted(p, a)), i)
  PROVE  LeftOut(q, LookedAt(Sorted(q, a)), i)
<1> DEFINE P == LookedAt(Sorted(p, a))
           Q == LookedAt(Sorted(q, a))
<1>1. /\ P = {x \in a : PreferedToRestore(p, x) \in {"Restore", "App"}}
      /\ Q = {x \in a : PreferedToRestore(q, x) \in {"Restore", "App"}}
  BY DEF LookedAt, Sorted, Dirs
<1> HIDE DEF P, Q
<1>2. IncludedBindings(q, Q) \subseteq IncludedBindings(p, P)
  <2>1. Q \subseteq P
    BY <1>1, StricterSorts
  <2>2. \A n : IsUserNamespace(q, n) => IsUserNamespace(p, n)
    BY DEF IsUserNamespace, Stricter
  <2> QED
    BY <2>1, <2>2 DEF IncludedBindings
<1>3. IncludedRoleNames(q, Q) \subseteq IncludedRoleNames(p, P)
  BY <1>2 DEF IncludedRoleNames
<1>4. ASSUME i.kind = "Endpoints", HasService(i, P) PROVE HasService(i, Q)
  <2>1. PICK s \in P : s.kind = "Service" /\ s.ns = i.ns /\ s.name = i.name
    BY <1>4 DEF HasService
  <2>2. ~InExcludedNamespace(q, i)
    <3>1. PreferedToRestore(q, i) \in {"Restore", "App"}
      BY <1>1, <1>4 DEF Q
    <3> QED
      BY <1>4, <3>1 DEF PreferedToRestore
  <2>3. ~InExcludedNamespace(q, s)
    BY <2>1, <2>2 DEF InExcludedNamespace
  <2>4. s \in a /\ PreferedToRestore(p, s) \in {"Restore", "App"}
    BY <1>1
  <2>5. ~IsIn(s, q.paths)
    <3>1. ~IsIn(s, p.paths)
      BY <2>1, <2>4 DEF PreferedToRestore
    <3> QED
      BY <3>1 DEF Stricter
  <2>6. PreferedToRestore(q, s) \in {"Restore", "App"}
    BY <2>1, <2>3, <2>5 DEF PreferedToRestore
  <2> QED
    BY <1>1, <2>1, <2>4, <2>6 DEF HasService
<1>5. LeftOut(p, P, i)
  BY DEF P
<1>6. LeftOut(q, Q, i)
  BY <1>2, <1>3, <1>4, <1>5 DEF LeftOut
<1> QED
  BY <1>6 DEF Q

\* The rules are monotonic: a stricter preference selects nothing that the
\* other does not, of any archive, although an item may be restored because
\* another one is not.
THEOREM SelectionShrinks ==
  ASSUME NEW p, NEW q, Stricter(q, p), NEW a
  PROVE  Selected(q, a) \subseteq Selected(p, a)
<1> DEFINE dp == Sorted(p, a)
           dq == Sorted(q, a)
           ClaimsOf(x, d) == {c \in d["PVC"] : /\ ~ClaimLeftOut(x, d["PV"], c)
                                               /\ \E v \in VolumesOf(c, d["PV"]) : v.spec}
           VolumesIn(x, d) == {v \in d["PV"] : v.spec /\ \E c \in ClaimsOf(x, d) : v \in VolumesOf(c, d["PV"])}
           Plain(x, d) == {i \in d["Namespace"] \cup d["CRD"] \cup LookedAt(d) :
                             ~LeftOut(x, LookedAt(d), i)}
<1>1. /\ Selected(p, a) = Plain(p, dp) \cup ClaimsOf(p, dp) \cup VolumesIn(p, dp)
      /\ Selected(q, a) = Plain(q, dq) \cup ClaimsOf(q, dq) \cup VolumesIn(q, dq)
  BY DEF Selected
<1>2. /\ dq["Namespace"] \subseteq dp["Namespace"] /\ dq["CRD"] \subseteq dp["CRD"]
      /\ dq["PV"] \subseteq dp["PV"] /\ dq["PVC"] \subseteq dp["PVC"]
      /\ LookedAt(dq) \subseteq LookedAt(dp)
  BY StricterSorts DEF Sorted, Dirs, LookedAt
<1>3. /\ \A i \in dq["Namespace"] : i.kind = "Namespace"
      /\ \A i \in dq["CRD"] : i.kind = "CustomResourceDefinition"
  <2>1. /\ \A i : PreferedToRestore(q, i) = "Namespace" => i.kind = "Namespace"
        /\ \A i : PreferedToRestore(q, i) = "CRD" => i.kind = "CustomResourceDefinition"
    BY DEF PreferedToRestore
  <2> QED
    BY <2>1 DEF Sorted, Dirs
<1>4. Plain(q, dq) \subseteq Plain(p, dp)
  <2> SUFFICES ASSUME NEW i \in Plain(q, dq), LeftOut(p, LookedAt(dp), i) PROVE FALSE
    BY <1>2
  <2>1. i \in LookedAt(dq) \/ i.kind \in {"Namespace", "CustomResourceDefinition"}
    BY <1>3
  <2> QED
    BY <2>1, StricterLeavesOut
<1> HIDE DEF dp, dq
<1>5. \A c : VolumesOf(c, dq["PV"]) \subseteq VolumesOf(c, dp["PV"])
  BY <1>2 DEF VolumesOf
<1>6. \A c : ClaimLeftOut(p, dp["PV"], c) => ClaimLeftOut(q, dq["PV"], c)
  <2>1. \A c : OfIncludedClass(q, c.classes) => OfIncludedClass(p, c.classes)
    BY DEF Stricter, OfIncludedClass
  <2> QED
    BY <1>5, <2>1 DEF ClaimLeftOut
<1>7. ClaimsOf(q, dq) \subseteq ClaimsOf(p, dp)
  BY <1>2, <1>5, <1>6
<1>8. VolumesIn(q, dq) \subseteq VolumesIn(p, dp)
  <2> HIDE DEF ClaimsOf
  <2> QED
    BY <1>2, <1>5, <1>7
<1> QED
  BY <1>1, <1>4, <1>7, <1>8

\* What a stricter call tries, the other one tries too if it gets through.
THEOREM Strictness == Spec => []StricterTriesLess
<1>1. TriesWhatIsSelected => StricterTriesLess
  <2> SUFFICES ASSUME TriesWhatIsSelected, NEW r \in Restores, NEW s \in Restores,
                      Stricter(pref[s], pref[r]), pc[r] = "done"
               PROVE  Tried(s) \subseteq Tried(r) \cup Volumeless(r)
    BY DEF StricterTriesLess
  <2>1. /\ Tried(s) \subseteq Selected(pref[s], archive)
        /\ Selected(pref[r], archive) \subseteq Tried(r) \cup Volumeless(r)
    BY DEF TriesWhatIsSelected
  <2> QED
    BY <2>1, SelectionShrinks
<1> QED
  BY <1>1, Selection, PTL

-----------------------------------------------------------------------------
(* ClusterRestore implements RestoreAccount.                               *)

\* The account of one call changes as a step says, those of others do not.
LEMMA AccountOf ==
  ASSUME TypeOK, NEW r \in Restores, CallNext(r)
  PROVE  /\ [s \in Restores |-> Stage(s)]' = [[s \in Restores |-> Stage(s)] EXCEPT ![r] = Stage(r)']
         /\ [s \in Restores |-> Tried(s)]' = [[s \in Restores |-> Tried(s)] EXCEPT ![r] = Tried(r)']
         /\ [s \in Restores |-> Created(s)]' = [[s \in Restores |-> Created(s)] EXCEPT ![r] = Created(r)']
<1>1. \A s \in Restores \ {r} :
        Stage(s)' = Stage(s) /\ Tried(s)' = Tried(s) /\ Created(s)' = Created(s)
  BY OthersStay DEF Stage, Tried, Created
<1> QED
  BY <1>1

\* A call that has returned takes no step.
LEMMA CallOpen ==
  ASSUME NEW r \in Restores, CallNext(r)
  PROVE  pc[r] \notin {"done", "failed"}
<1> USE DEF DirPasses, Steps
<1>1. CASE CreateFile(r) \/ Download(r) \/ Discover(r) \/ Extract(r)
  BY <1>1 DEF CreateFile, Download, Discover, Extract
<1>2. CASE PassDone(r) \/ Reload(r) \/ UnknownKind(r) \/ RestoreItem(r)
  BY <1>2 DEF PassDone, Reload, UnknownKind, RestoreItem
<1>3. CASE ClaimExcluded(r) \/ RestoreVolume(r) \/ RestoreClaim(r) \/ WaitBound(r)
  BY <1>3 DEF ClaimExcluded, RestoreVolume, RestoreClaim, WaitBound
<1>4. CASE Cleanup(r) \/ CreateMarker(r) \/ DeleteMarker(r) \/ MarkerFailed(r) \/ Fail(r)
  BY <1>4 DEF Cleanup, CreateMarker, DeleteMarker, MarkerFailed, Fail
<1> QED
  BY <1>1, <1>2, <1>3, <1>4 DEF CallNext

\* A call tries an item that is selected, succeeds when none is left, or gives
\* up; all else leaves its account alone.
LEMMA CallAccounts ==
  ASSUME IndInv, NEW r \in Restores, SelectInv(r), TriesWhatIsSelected', CallNext(r)
  PROVE  [Account!AccountNext]_Account!accountVars
<1> DEFINE stages == [s \in Restores |-> Stage(s)]
           tried  == [s \in Restores |-> Tried(s)]
           made   == [s \in Restores |-> Created(s)]
<1>1. TypeOK /\ archive \in Archives /\ CallInv(r)
  BY DEF IndInv
<1>2. UNCHANGED <<archive, pref>>
  BY SourceStays
<1>3. /\ stages' = [stages EXCEPT ![r] = Stage(r)']
      /\ tried'  = [tried  EXCEPT ![r] = Tried(r)']
      /\ made'   = [made   EXCEPT ![r] = Created(r)']
  BY <1>1, AccountOf
<1>4. pc[r] \notin {"done", "failed"} /\ stages[r] = "open"
  BY CallOpen DEF Stage
<1>5. tried[r] = Tried(r) /\ made[r] = Created(r)
  OBVIOUS
<1>6. DOMAIN stages = Restores /\ stages \in [Restores -> {Stage(s) : s \in Restores}]
  OBVIOUS
<1>7. tried \in [Restores -> {Tried(s) : s \in Restores}] /\ made \in [Restores -> {Created(s) : s \in Restores}]
  OBVIOUS
<1>8. CASE /\ status'[r].created = status[r].created /\ status'[r].existed = status[r].existed
           /\ status'[r].failed = status[r].failed /\ status'[r].excluded = status[r].excluded
           /\ dirs'[r] = dirs[r] \/ Tried(r) = {}
  <2>1. Tried(r)' = Tried(r) /\ Created(r)' = Created(r)
    BY <1>8 DEF Tried, Created
  <2> HIDE DEF stages, tried, made
  <2>2. UNCHANGED <<tried, made>>
    BY <1>3, <1>5, <1>7, <2>1
  <2>3. CASE pc'[r] \notin {"done", "failed"}
    <3>1. Stage(r)' = "open"
      BY <2>3 DEF Stage
    <3>2. UNCHANGED stages
      BY <1>3, <1>4, <1>6, <3>1
    <3> QED
      BY <1>2, <2>2, <3>2 DEF Account!accountVars, stages, tried, made
  <2>4. CASE pc'[r] = "failed"
    <3>1. stages' = [stages EXCEPT ![r] = "failed"]
      BY <1>3, <2>4 DEF Stage
    <3>2. Account!GiveUp(r)
      BY <1>2, <1>4, <2>2, <3>1 DEF Account!GiveUp, stages, tried, made
    <3> QED
      BY <3>2 DEF Account!AccountNext
  <2>5. CASE pc'[r] = "done"
    <3>1. stages' = [stages EXCEPT ![r] = "done"]
      BY <1>3, <2>5 DEF Stage
    <3>2. ASSUME NEW i \in Selected(pref[r], archive), i \notin Tried(r)
          PROVE  Account!IsClaim(i) /\ \E v \in Tried(r) : Account!IsVolume(v) /\ v.name = i.volume
      <4>1. i \in Volumeless(r)'
        BY <1>2, <2>1, <2>5, <3>2 DEF TriesWhatIsSelected
      <4>2. /\ i \in Claims
            /\ VolumesOf(i, dirs'[r]["PV"]) \cap (status[r].existed \cup status[r].failed) # {}
        BY <1>2, <1>8, <4>1 DEF Volumeless, Claims
      <4>3. PICK v \in VolumesOf(i, dirs'[r]["PV"]) : v \in status[r].existed \cup status[r].failed
        BY <4>2
      <4>4. v \in Tried(r) /\ v.name = i.volume /\ v \in dirs'[r]["PV"]
        BY <4>3 DEF Tried, VolumesOf
      <4>5. dirs'[r] = dirs[r]
        BY <1>8, <4>4
      <4>6. v \in Volumes
        <5>1. Extracted(r)
          <6>1. status[r] # EmptyStatus
            BY <4>4 DEF Tried, EmptyStatus, Lists
          <6> QED
            BY <1>1, <6>1 DEF CallInv, ExtractedFirst
        <5> QED
          BY <1>1, <4>4, <4>5, <5>1, Sorting, ItemsAreItems DEF Dirs
      <4> QED
        BY <4>2, <4>4, <4>6 DEF Account!IsClaim, Account!IsVolume, Claims, Volumes
    <3>3. Account!Succeed(r)
      BY <1>2, <1>4, <1>5, <2>2, <3>1, <3>2 DEF Account!Succeed, stages, tried, made
    <3> QED
      BY <3>3 DEF Account!AccountNext
  <2> QED
    BY <2>3, <2>4, <2>5
<1>9. ASSUME NEW i \in archive, NEW list \in {"created", "existed", "failed", "excluded"}, Counts(r, i, list)
      PROVE  [Account!AccountNext]_Account!accountVars
  <2>1. Stage(r)' = "open"
    BY <1>9 DEF Counts, Stage
  <2> HIDE DEF stages, tried, made
  <2>2. UNCHANGED stages
    BY <1>3, <1>4, <1>6, <2>1
  <2>3. CASE list = "excluded"
    <3>1. Tried(r)' = Tried(r) /\ Created(r)' = Created(r)
      BY <1>1, <1>9, <2>3, CountsMore
    <3>2. UNCHANGED <<tried, made>>
      BY <1>3, <1>5, <1>7, <3>1
    <3> QED
      BY <1>2, <2>2, <3>2 DEF Account!accountVars, stages, tried, made
  <2>4. CASE list # "excluded"
    <3>1. tried' = [tried EXCEPT ![r] = tried[r] \cup {i}]
      <4>1. Tried(r)' = tried[r] \cup {i}
        BY <1>1, <1>5, <1>9, <2>4, CountsMore
      <4> QED
        BY <1>3, <4>1
    <3>2. made' = [made EXCEPT ![r] = made[r] \cup {i}] \/ UNCHANGED made
      <4>1. Created(r)' = made[r] \cup {i} \/ Created(r)' = made[r]
        BY <1>1, <1>5, <1>9, CountsMore
      <4>2. CASE Created(r)' = made[r] \cup {i}
        BY <1>3, <4>2
      <4>3. CASE Created(r)' = made[r]
        BY <1>3, <1>7, <4>3
      <4> QED
        BY <4>1, <4>2, <4>3
    <3>3. i \in Selected(pref[r], archive)
      BY <1>9, <2>4 DEF Counts, ToCreate
    <3>4. i \notin tried[r] \/ Account!IsVolume(i)
      BY <1>5, <1>9, <2>4 DEF Counts, Counted, Tried, Lists, Volumes, Account!IsVolume
    <3>5. Account!IsClaim(i) => \E v \in made[r] : Account!IsVolume(v) /\ v.name = i.volume
      <4> SUFFICES ASSUME i.kind = "PersistentVolumeClaim"
                   PROVE  \E v \in made[r] : Account!IsVolume(v) /\ v.name = i.volume
        BY DEF Account!IsClaim
      <4>1. PICK v \in VolumesOf(i, dirs[r]["PV"]) : v \in Created(r)
        BY <1>9, <2>4 DEF Counts, Claims
      <4>2. v.name = i.volume /\ v \in dirs[r]["PV"] /\ v \in archive
        BY <1>1, <4>1, ItemsAreItems DEF VolumesOf
      <4>3. v \in Volumes
        BY <1>9, <4>2, Sorting DEF Counts
      <4> QED
        BY <1>5, <4>1, <4>2, <4>3 DEF Volumes, Account!IsVolume
    <3>6. Account!Try(r, i)
      BY <1>2, <1>4, <2>2, <3>1, <3>2, <3>3, <3>4, <3>5
         DEF Account!Try, Account!Backed, stages, tried, made
    <3> QED
      BY <3>6 DEF Account!AccountNext
  <2> QED
    BY <2>3, <2>4
<1> QED
  BY <1>1, <1>8, <1>9, StepCounts

\* A call of Restore keeps the promises of RestoreAccount.
THEOREM AccountRefinement == Spec => KeepsAccount
<1>1. Init => Account!AccountInit
  <2> SUFFICES ASSUME Init PROVE Account!AccountInit
    OBVIOUS
  <2>1. archive \in Archives /\ pref \in [Restores -> Prefs]
    BY DEF Init
  <2>2. \A r \in Restores : Stage(r) = "open" /\ Tried(r) = {} /\ Created(r) = {}
    <3>1. \A r \in Restores : pc[r] = "create" /\ status[r] = EmptyStatus
      BY DEF Init
    <3>2. EmptyStatus.created = {} /\ EmptyStatus.existed = {} /\ EmptyStatus.failed = {}
      BY DEF EmptyStatus, Lists
    <3> QED
      BY <3>1, <3>2 DEF Stage, Tried, Created
  <2>3. /\ [r \in Restores |-> Stage(r)] = [r \in Restores |-> "open"]
        /\ [r \in Restores |-> Tried(r)] = [r \in Restores |-> {}]
        /\ [r \in Restores |-> Created(r)] = [r \in Restores |-> {}]
    BY <2>2
  <2> QED
    BY <2>1, <2>3 DEF Account!AccountInit
<1>2. ASSUME IndInv, \A r \in Restores : SelectInv(r), TriesWhatIsSelected', [Next]_vars
      PROVE  [Account!AccountNext]_Account!accountVars
  <2>1. ASSUME UNCHANGED <<callVars, archive, pref>> PROVE UNCHANGED Account!accountVars
    <3>1. \A r \in Restores : Stage(r)' = Stage(r) /\ Tried(r)' = Tried(r) /\ Created(r)' = Created(r)
      BY <2>1 DEF callVars, Stage, Tried, Created
    <3>2. /\ UNCHANGED [r \in Restores |-> Stage(r)] /\ UNCHANGED [r \in Restores |-> Tried(r)]
          /\ UNCHANGED [r \in Restores |-> Created(r)]
      BY <3>1
    <3> QED
      BY <2>1, <3>2 DEF Account!accountVars
  <2>2. CASE TargetNext
    BY <1>2, <2>1, <2>2, TargetTyped DEF IndInv
  <2>3. CASE UNCHANGED vars
    BY <2>1, <2>3 DEF vars, sourceVars
  <2>4. ASSUME NEW r \in Restores, CallNext(r) PROVE [Account!AccountNext]_Account!accountVars
    BY <1>2, <2>4, CallAccounts
  <2> QED
    BY <1>2, <2>2, <2>3, <2>4 DEF Next
<1> QED
  BY <1>1, <1>2, Invariance, SelectInvariance, Selection, PTL
     DEF Spec, KeepsAccount, Account!AccountSpec

=============================================================================
