---------------------------- MODULE ClusterRestore ----------------------------
(***************************************************************************)
(* Calls of Restore (pkg/cluster/restore.go, restore_pv.go): the download  *)
(* into /tmp, the extraction by preference, and the passes that create the *)
(* items in the target cluster. Several calls may run at once, for the     *)
(* same Snapshot and the same target; the cluster binds volumes and serves *)
(* new kinds when it likes, and others create things in it.                *)
(*                                                                         *)
(* pc is what a call does next. A file is read in one step: a file that is *)
(* cut off under the reader has the same outcomes as one cut off before.   *)
(***************************************************************************)
EXTENDS RestorePreference

CONSTANTS
  Restores,  \* calls of Restore
  Archives,  \* the archives a run considers, sets of items
  Prefs,     \* the preferences it considers
  Targets,   \* what may stand in the target cluster before, sets of items
  Rank,      \* item -> its place in the order of file names
  MaxTries,  \* how often a claim is looked at before the call gives up (10)
  Budget     \* bound: how often calls fail and others act

BudgetKinds == {"fault", "other", "any"}

\* An archive has one file for each resource, and the order is one of files.
ASSUME RestoreAssumption ==
  /\ \A a \in Archives :
       /\ a \subseteq Item /\ IsFiniteSet(a)
       /\ \A i, j \in a : i.kind = j.kind /\ i.ns = j.ns /\ i.name = j.name => i = j
       /\ \A i, j \in a : Rank[i] \in Nat /\ (Rank[i] = Rank[j] => i = j)
       /\ \A i \in a : i.kind \in ClusterScoped => i.ns = NoName
  /\ Prefs \subseteq Preference
  /\ \A a \in Targets : a \subseteq Item
  /\ MaxTries \in Nat
  /\ Budget \in [BudgetKinds -> Nat]

VARIABLES
  archive,   \* the items in the archive in the object store
  pref,      \* call -> its RestorePreference
  stored,    \* whether <snapshot>.tgz is in the object store
  tgz,       \* /tmp/<snapshot>.tgz: "none", "cut" off, or "whole"
  pc,        \* call -> its next step
  served,    \* call -> the kinds of its ServerResources
  dirs,      \* call -> directory -> items extracted into it
  tempdir,   \* calls whose temporary directory exists
  todo,      \* call -> items left in the current pass
  tries,     \* call -> how often it has looked whether the volume is bound
  status,    \* call -> list in its status -> items
  cluster,   \* items that exist in the target cluster
  bound,     \* pairs of claim and volume the cluster has bound
  kinds,     \* kinds of custom resources the cluster serves
  markers,   \* calls whose marker ConfigMap exists
  budget     \* what is left of Budget

callVars    == <<pc, served, dirs, tempdir, todo, tries, status>>
sourceVars  == <<archive, pref, stored, tgz>>
clusterVars == <<cluster, bound, kinds, markers>>
vars == <<callVars, sourceVars, clusterVars, budget>>

DirPasses == {"Namespace", "CRD", "Restore", "App"}
Steps == {"create", "download", "discover", "extract", "reload", "PVC", "claim", "wait",
          "cleanup", "marker", "unmark", "done", "failed"} \cup DirPasses

Lists == {"preference", "excluded", "created", "existed", "failed"}

EmptyStatus == [l \in Lists |-> {}]
EmptyDirs   == [d \in Dirs |-> {}]

TypeOK ==
  /\ archive \subseteq Item
  /\ pref    \in [Restores -> Preference]
  /\ stored  \in BOOLEAN
  /\ tgz     \in {"none", "cut", "whole"}
  /\ pc      \in [Restores -> Steps]
  /\ served  \in [Restores -> SUBSET Kinds]
  /\ dirs    \in [Restores -> [Dirs -> SUBSET archive]]
  /\ tempdir \subseteq Restores
  /\ todo    \in [Restores -> SUBSET archive]
  /\ tries   \in [Restores -> 0..MaxTries]
  /\ status  \in [Restores -> [Lists -> SUBSET archive]]
  /\ cluster \subseteq Item
  /\ bound   \subseteq Item \X Item
  /\ kinds   \subseteq Custom
  /\ markers \subseteq Restores
  /\ budget  \in [BudgetKinds -> Nat]

Init ==
  /\ archive \in Archives
  /\ pref    \in [Restores -> Prefs]
  /\ stored  = TRUE
  /\ tgz     = "none"
  /\ pc      = [r \in Restores |-> "create"]
  /\ served  = [r \in Restores |-> {}]
  /\ dirs    = [r \in Restores |-> EmptyDirs]
  /\ tempdir = {}
  /\ todo    = [r \in Restores |-> {}]
  /\ tries   = [r \in Restores |-> 0]
  /\ status  = [r \in Restores |-> EmptyStatus]
  /\ cluster \in Targets
  /\ bound   = {}
  /\ kinds   = {}
  /\ markers = {}
  /\ budget  = Budget

Spend(kind) ==
  /\ budget[kind] > 0 /\ budget["any"] > 0
  /\ budget' = [budget EXCEPT ![kind] = @ - 1, !["any"] = @ - 1]

Goto(r, step) == pc' = [pc EXCEPT ![r] = step]

\* The call returns an error, and leaves everything else as it is.
Abort(r) == Goto(r, "failed") /\ UNCHANGED <<served, dirs, tempdir, todo, tries, status>>

-----------------------------------------------------------------------------
(* The target cluster.                                                     *)

Stands(i) == \E x \in cluster : x.kind = i.kind /\ x.ns = i.ns /\ x.name = i.name

NamespaceStands(i) == i.ns = NoName \/ \E x \in cluster : x.kind = "Namespace" /\ x.name = i.ns

Accepts(i) == ~Stands(i) /\ NamespaceStands(i) /\ i.kind \in BuiltinKinds \cup kinds

\* createItem, and the list of the status its outcome goes to. A reply that
\* is lost counts as a failure.
CreateItem(i, list) ==
  \/ /\ list = "created" /\ Accepts(i)
     /\ cluster' = cluster \cup {i}
     /\ UNCHANGED budget
  \/ list = "existed" /\ Stands(i) /\ UNCHANGED <<cluster, budget>>
  \/ list = "failed" /\ ~Stands(i) /\ ~Accepts(i) /\ UNCHANGED <<cluster, budget>>
  \/ /\ list = "failed" /\ Spend("fault")
     /\ UNCHANGED cluster \/ (Accepts(i) /\ cluster' = cluster \cup {i})

IsBound(x) == \E b \in bound : x \in {b[1], b[2]}

\* The volume controller binds a waiting claim to any free volume of its class:
\* both have lost the reference to each other.
Bind(c, v) ==
  /\ c.kind = "PersistentVolumeClaim" /\ v.kind = "PersistentVolume"
  /\ ~IsBound(c) /\ ~IsBound(v)
  /\ v.classes \cap c.classes # {}
  /\ bound' = bound \cup {<<c, v>>}
  /\ UNCHANGED <<callVars, sourceVars, cluster, kinds, markers, budget>>

\* The API server begins to serve the kind of a CRD some time after it is made.
Establish(x) ==
  /\ x.defines # NoKind /\ x.defines \notin kinds
  /\ kinds' = kinds \cup {x.defines}
  /\ UNCHANGED <<callVars, sourceVars, cluster, bound, markers, budget>>

\* Others make one of the archived things, or remove a volume nobody uses.
OtherCreates(i) ==
  /\ Spend("other")
  /\ Accepts(i)
  /\ cluster' = cluster \cup {i}
  /\ UNCHANGED <<callVars, sourceVars, bound, kinds, markers>>

OtherDeletes(v) ==
  /\ Spend("other")
  /\ v.kind = "PersistentVolume" /\ ~IsBound(v)
  /\ cluster' = cluster \ {v}
  /\ UNCHANGED <<callVars, sourceVars, bound, kinds, markers>>

\* The Snapshot is deleted, and its file with it.
FileDeleted ==
  /\ Spend("other")
  /\ stored /\ stored' = FALSE
  /\ UNCHANGED <<archive, pref, tgz, callVars, clusterVars>>

TargetNext ==
  \/ \E c, v \in cluster : Bind(c, v)
  \/ \E x \in cluster : Establish(x) \/ OtherDeletes(x)
  \/ \E i \in archive : OtherCreates(i)
  \/ FileDeleted

-----------------------------------------------------------------------------
(* Download and extraction.                                                *)

\* os.Create: whatever was in the file is gone, for other calls as well.
CreateFile(r) ==
  /\ pc[r] = "create"
  /\ tgz' = "cut"
  /\ Goto(r, "download")
  /\ UNCHANGED <<archive, pref, stored, served, dirs, tempdir, todo, tries, status,
                 clusterVars, budget>>

Download(r) ==
  /\ pc[r] = "download"
  /\ \/ stored /\ tgz' = "whole" /\ Goto(r, "discover")
        /\ UNCHANGED <<served, dirs, tempdir, todo, tries, status>>
     \/ ~stored /\ UNCHANGED tgz /\ Abort(r)
  /\ UNCHANGED <<archive, pref, stored, clusterVars, budget>>

\* The resources the target serves now, of those that can be listed, created,
\* read and deleted.
NewServerResources == BuiltinKinds \cup kinds

Discover(r) ==
  /\ pc[r] = "discover"
  /\ served' = [served EXCEPT ![r] = NewServerResources]
  /\ Goto(r, "extract")
  /\ UNCHANGED <<dirs, tempdir, todo, tries, status, sourceVars, clusterVars, budget>>

\* Mutant: the end of a file that was cut off is taken for the end of the archive.
ExtractWhatIsThere(r) ==
  /\ pc[r] = "extract"
  /\ \E items \in IF tgz = "whole" THEN {archive} ELSE {archive \ {i} : i \in archive} :
       LET d == Sorted(pref[r], items) IN
         /\ dirs'    = [dirs EXCEPT ![r] = d]
         /\ todo'    = [todo EXCEPT ![r] = d["Namespace"]]
         /\ status'  = [status EXCEPT ![r].preference =
                          {i \in items : PreferedToRestore(pref[r], i) = "Exclude"}]
  /\ tempdir' = tempdir \cup {r}
  /\ Goto(r, "Namespace")
  /\ UNCHANGED <<served, tries, sourceVars, clusterVars, budget>>

\* The archive is unpacked into the directories, all of it before anything is
\* created. gzip and tar see when the file is cut off; by then the temporary
\* directory may have been made.
Extract(r) ==
  /\ pc[r] = "extract"
  /\ \/ /\ tgz = "whole"
        /\ LET d == Sorted(pref[r], archive) IN
             /\ dirs'    = [dirs EXCEPT ![r] = d]
             /\ todo'    = [todo EXCEPT ![r] = d["Namespace"]]
             /\ status'  = [status EXCEPT ![r].preference =
                              {i \in archive : PreferedToRestore(pref[r], i) = "Exclude"}]
             /\ tempdir' = tempdir \cup {r}
             /\ Goto(r, "Namespace")
     \/ /\ tgz # "whole"
        /\ Goto(r, "failed")
        /\ tempdir' = tempdir \cup {r} \/ UNCHANGED tempdir
        /\ UNCHANGED <<dirs, todo, status>>
  /\ UNCHANGED <<served, tries, sourceVars, clusterVars, budget>>

-----------------------------------------------------------------------------
(* The passes.                                                             *)

\* The items of a pass: volumes and claims only when there are both.
PassItems(d, step) ==
  CASE step \in DirPasses -> d[step]
    [] step = "PVC" -> IF d["PV"] # {} THEN d["PVC"] ELSE {}
    [] OTHER -> {}

NextStep ==
  [step \in DirPasses \cup {"reload", "PVC"} |->
     CASE step = "Namespace" -> "CRD"
       [] step = "CRD"       -> "reload"
       [] step = "reload"    -> "PVC"
       [] step = "PVC"       -> "Restore"
       [] step = "Restore"   -> "App"
       [] step = "App"       -> "cleanup"]

Turn(r) ==
  /\ Goto(r, NextStep[pc[r]])
  /\ todo' = [todo EXCEPT ![r] = PassItems(dirs[r], NextStep[pc[r]])]

PassDone(r) ==
  /\ pc[r] \in DirPasses \cup {"PVC"} /\ todo[r] = {}
  /\ Turn(r)
  /\ UNCHANGED <<served, dirs, tempdir, tries, status, sourceVars, clusterVars, budget>>

\* The CRDs restored may have brought new kinds.
Reload(r) ==
  /\ pc[r] = "reload"
  /\ served' = [served EXCEPT ![r] = NewServerResources]
  /\ Turn(r)
  /\ UNCHANGED <<dirs, tempdir, tries, status, sourceVars, clusterVars, budget>>

\* Files are read in the order of their names.
IsFirst(i, items) == i \in items /\ \A j \in items : Rank[i] <= Rank[j]

Count(r, i, list) == status' = [status EXCEPT ![r][list] = @ \cup {i}]

Without(r, i) == todo' = [todo EXCEPT ![r] = @ \ {i}]

\* ResourcePath knows no kind that was not served when it was last asked, and
\* the call ends in the middle of a pass.
UnknownKind(r) ==
  /\ pc[r] \in DirPasses \cup {"PVC"}
  /\ \E i \in todo[r] : IsFirst(i, todo[r]) /\ i.kind \notin served[r]
  /\ Abort(r)
  /\ UNCHANGED <<sourceVars, clusterVars, budget>>

\* Mutant: an item that is left out is counted and created.
RestoreItemAnyway(r) ==
  /\ pc[r] \in DirPasses
  /\ \E i \in todo[r] :
       /\ IsFirst(i, todo[r]) /\ i.kind \in served[r]
       /\ \/ /\ LeftOut(pref[r], LookedAt(dirs[r]), i) /\ i \notin status[r].excluded
             /\ Count(r, i, "excluded") /\ UNCHANGED <<todo, cluster, budget>>
          \/ /\ LeftOut(pref[r], LookedAt(dirs[r]), i) => i \in status[r].excluded
             /\ \E list \in Lists : CreateItem(i, list) /\ Count(r, i, list)
             /\ Without(r, i)
  /\ UNCHANGED <<pc, served, dirs, tempdir, tries, sourceVars, bound, kinds, markers>>

\* One turn of restoreDir.
RestoreItem(r) ==
  /\ pc[r] \in DirPasses
  /\ \E i \in todo[r] :
       /\ IsFirst(i, todo[r]) /\ i.kind \in served[r]
       /\ \/ /\ LeftOut(pref[r], LookedAt(dirs[r]), i)
             /\ Count(r, i, "excluded") /\ UNCHANGED <<cluster, budget>>
          \/ /\ ~LeftOut(pref[r], LookedAt(dirs[r]), i)
             /\ \E list \in Lists : CreateItem(i, list) /\ Count(r, i, list)
       /\ Without(r, i)
  /\ UNCHANGED <<pc, served, dirs, tempdir, tries, sourceVars, bound, kinds, markers>>

-----------------------------------------------------------------------------
(* restorePV.                                                              *)

ClaimExcluded(r) ==
  /\ pc[r] = "PVC"
  /\ \E c \in todo[r] :
       /\ IsFirst(c, todo[r]) /\ c.kind \in served[r]
       /\ ClaimLeftOut(pref[r], dirs[r]["PV"], c)
       /\ Count(r, c, "excluded")
       /\ Without(r, c)
  /\ UNCHANGED <<pc, served, dirs, tempdir, tries, sourceVars, clusterVars, budget>>

\* Mutant: the claim is made even if the volume could not be.
RestoreVolumeOrNot(r) ==
  /\ pc[r] = "PVC"
  /\ \E c \in todo[r] :
       /\ IsFirst(c, todo[r]) /\ c.kind \in served[r]
       /\ ~ClaimLeftOut(pref[r], dirs[r]["PV"], c)
       /\ \E v \in VolumesOf(c, dirs[r]["PV"]) :
            /\ v.spec
            /\ \E list \in Lists : CreateItem(v, list) /\ Count(r, v, list)
            /\ Goto(r, "claim") /\ UNCHANGED todo
  /\ UNCHANGED <<served, dirs, tempdir, tries, sourceVars, bound, kinds, markers>>

\* The volume of a claim. Unless it is created now, the claim is passed over,
\* and not counted.
RestoreVolume(r) ==
  /\ pc[r] = "PVC"
  /\ \E c \in todo[r] :
       /\ IsFirst(c, todo[r]) /\ c.kind \in served[r]
       /\ ~ClaimLeftOut(pref[r], dirs[r]["PV"], c)
       /\ \E v \in VolumesOf(c, dirs[r]["PV"]) :
            \/ /\ ~v.spec
               /\ Count(r, v, "excluded") /\ Without(r, c)
               /\ UNCHANGED <<pc, cluster, budget>>
            \/ /\ v.spec
               /\ \E list \in Lists :
                    /\ CreateItem(v, list) /\ Count(r, v, list)
                    /\ \/ list = "created" /\ Goto(r, "claim") /\ UNCHANGED todo
                       \/ list # "created" /\ Without(r, c) /\ UNCHANGED pc
  /\ UNCHANGED <<served, dirs, tempdir, tries, sourceVars, bound, kinds, markers>>

\* Mutant: a claim that could not be made is tried again.
RestoreClaimRetried(r) ==
  /\ pc[r] = "claim"
  /\ \E c \in todo[r], list \in Lists :
       /\ IsFirst(c, todo[r])
       /\ CreateItem(c, list) /\ Count(r, c, list)
       /\ \/ list = "created" /\ Goto(r, "wait")
          \/ list = "existed" /\ Goto(r, "PVC")
          \/ list = "failed" /\ UNCHANGED pc
  /\ tries' = [tries EXCEPT ![r] = 0]
  /\ UNCHANGED <<todo, served, dirs, tempdir, sourceVars, bound, kinds, markers>>

\* The claim comes second, without what bound it to its volume. (No code
\* refers to it before it is made: the volume may still be taken by another.)
RestoreClaim(r) ==
  /\ pc[r] = "claim"
  /\ \E c \in todo[r], list \in Lists :
       /\ IsFirst(c, todo[r])
       /\ CreateItem(c, list) /\ Count(r, c, list)
       /\ \/ list = "created" /\ Goto(r, "wait") /\ UNCHANGED todo
          \/ list # "created" /\ Goto(r, "PVC") /\ Without(r, c)
  /\ tries' = [tries EXCEPT ![r] = 0]
  /\ UNCHANGED <<served, dirs, tempdir, sourceVars, bound, kinds, markers>>

\* Mutants: one look is enough; one look too many; no limit to them.
WaitBoundOnce(r) ==
  /\ pc[r] = "wait"
  /\ \E c \in todo[r] : IsFirst(c, todo[r]) /\ Without(r, c)
  /\ Goto(r, "PVC")
  /\ UNCHANGED <<served, dirs, tempdir, tries, status, sourceVars, clusterVars, budget>>

WaitBoundLate(r) ==
  /\ pc[r] = "wait"
  /\ tries' = [tries EXCEPT ![r] = @ + 1]
  /\ \/ tries[r] <= MaxTries /\ UNCHANGED pc
     \/ tries[r] > MaxTries /\ Goto(r, "failed")
  /\ UNCHANGED <<served, dirs, tempdir, todo, status, sourceVars, clusterVars, budget>>

WaitBoundForever(r) ==
  /\ pc[r] = "wait"
  /\ \E c \in todo[r] : \E v \in VolumesOf(c, dirs[r]["PV"]) :
       /\ IsFirst(c, todo[r])
       /\ v \in cluster /\ IsBound(v) /\ Without(r, c) /\ Goto(r, "PVC")
  /\ UNCHANGED <<served, dirs, tempdir, tries, status, sourceVars, clusterVars, budget>>

\* isPVBound, every five seconds. Only the volume is looked at. After the last
\* look, or without the volume, the whole call ends.
WaitBound(r) ==
  /\ pc[r] = "wait"
  /\ \E c \in todo[r] : \E v \in VolumesOf(c, dirs[r]["PV"]) :
       /\ IsFirst(c, todo[r])
       /\ \/ /\ tries[r] < MaxTries /\ v \in cluster /\ IsBound(v)
             /\ Without(r, c) /\ Goto(r, "PVC")
             /\ UNCHANGED <<served, dirs, tempdir, tries, status>>
          \/ /\ tries[r] < MaxTries /\ v \in cluster /\ ~IsBound(v)
             /\ tries' = [tries EXCEPT ![r] = @ + 1]
             /\ UNCHANGED <<pc, served, dirs, tempdir, todo, status>>
          \/ (tries[r] >= MaxTries \/ v \notin cluster) /\ Abort(r)
  /\ UNCHANGED <<sourceVars, clusterVars, budget>>

-----------------------------------------------------------------------------
(* The end: temporary files, and the marker for the resource version.      *)

\* Mutant: the files stay.
CleanupLater(r) ==
  /\ pc[r] = "cleanup"
  /\ Goto(r, "marker")
  /\ UNCHANGED <<served, dirs, tempdir, todo, tries, status, sourceVars, clusterVars, budget>>

Cleanup(r) ==
  /\ pc[r] = "cleanup"
  /\ tempdir' = tempdir \ {r}
  /\ Goto(r, "marker")
  /\ UNCHANGED <<served, dirs, todo, tries, status, sourceVars, clusterVars, budget>>

\* ConfigMapMarker: create, and delete.
CreateMarker(r) ==
  /\ pc[r] = "marker"
  /\ markers' = markers \cup {r}
  /\ Goto(r, "unmark")
  /\ UNCHANGED <<served, dirs, tempdir, todo, tries, status, sourceVars,
                 cluster, bound, kinds, budget>>

DeleteMarker(r) ==
  /\ pc[r] = "unmark"
  /\ markers' = markers \ {r}
  /\ Goto(r, "done")
  /\ UNCHANGED <<served, dirs, tempdir, todo, tries, status, sourceVars,
                 cluster, bound, kinds, budget>>

\* Both fail without effect, or do it and lose their reply.
MarkerFailed(r) ==
  /\ pc[r] \in {"marker", "unmark"}
  /\ Spend("fault")
  /\ Abort(r)
  /\ markers' \in {markers \cup {r}, markers \ {r}}
  /\ UNCHANGED <<sourceVars, cluster, bound, kinds>>

\* Any other call fails: the object store, discovery, a Get, a local file.
Fail(r) ==
  /\ pc[r] \in Steps \ {"marker", "unmark", "done", "failed"}
  /\ Spend("fault")
  /\ Abort(r)
  /\ UNCHANGED <<sourceVars, clusterVars>>

CallNext(r) ==
  \/ CreateFile(r) \/ Download(r) \/ Discover(r) \/ Extract(r)
  \/ PassDone(r) \/ Reload(r) \/ UnknownKind(r) \/ RestoreItem(r)
  \/ ClaimExcluded(r) \/ RestoreVolume(r) \/ RestoreClaim(r) \/ WaitBound(r)
  \/ Cleanup(r) \/ CreateMarker(r) \/ DeleteMarker(r) \/ MarkerFailed(r) \/ Fail(r)

Next == TargetNext \/ \E r \in Restores : CallNext(r)

Spec == Init /\ [][Next]_vars

-----------------------------------------------------------------------------
(* Safety.                                                                 *)

Created(r) == status[r].created

Volumes == {i \in archive : i.kind = "PersistentVolume"}
Claims  == {i \in archive : i.kind = "PersistentVolumeClaim"}

Counted(r) == UNION {status[r][l] : l \in Lists}

\* A claim that is in no list: its volume was there already, could not be made
\* or has no spec, or the archive has no volume to restore at all.
PassedOver(r) ==
  {c \in Claims : \/ dirs[r]["PV"] = {}
                  \/ \E v \in VolumesOf(c, dirs[r]["PV"]) :
                       v \in status[r].existed \cup status[r].failed \cup status[r].excluded}

\* The lists of a status are the whole account of a restore that is done: no
\* item but a volume is in two of them, and none is missing but volumes and
\* the claims that were passed over.
EveryItemCounted ==
  \A r \in Restores :
    /\ \A l, k \in Lists : l # k => (status[r][l] \cap status[r][k]) \subseteq Volumes
    /\ pc[r] = "done" => archive \ Counted(r) \subseteq Volumes \cup PassedOver(r)

\* A claim is created only after its volume was, by the same call: it never
\* takes the data that a volume of the same name has in the target.
ClaimAfterVolume ==
  \A r \in Restores : \A c \in Claims \cap Created(r) :
    VolumesOf(c, dirs[r]["PV"]) \cap Created(r) # {}

\* The volumes and claims of the target are those of this call, each volume
\* with its claim.
Undisturbed(r) ==
  /\ {x \in cluster : x.kind \in {"PersistentVolume", "PersistentVolumeClaim"}} \subseteq Created(r)
  /\ \A v \in Volumes \cap Created(r) :
       pc[r] = "claim" \/ \E c \in Claims \cap Created(r) : c.volume = v.name

\* Claims and volumes lose their references to each other and still find each
\* other again, as long as nothing else of the kind is in the target.
ReboundInPairs ==
  \A r \in Restores : Undisturbed(r) => \A b \in bound : b[1].volume = b[2].name

Tried(r) == status[r].created \cup status[r].existed \cup status[r].failed

\* Claims whose volume was there already or could not be made.
Volumeless(r) ==
  {c \in Claims : VolumesOf(c, dirs[r]["PV"]) \cap (status[r].existed \cup status[r].failed) # {}}

\* A call tries what its preference selects, in passes and with volumes before
\* claims, and nothing else; one that is done has tried all of it, but for
\* claims it had no volume for.
TriesWhatIsSelected ==
  \A r \in Restores :
    /\ Tried(r) \subseteq Selected(pref[r], archive)
    /\ pc[r] = "done" => Selected(pref[r], archive) \subseteq Tried(r) \cup Volumeless(r)

\* To exclude more never brings anything into the target that would not have
\* come otherwise, although rules look at what others have left: what a
\* stricter call tries, the other one tries too if it gets through.
StricterTriesLess ==
  \A r, s \in Restores :
    pc[r] = "done" /\ Stricter(pref[s], pref[r]) => Tried(s) \subseteq Tried(r) \cup Volumeless(r)

\* Nothing of an excluded namespace is created, and no role or binding without
\* a ServiceAccount of a namespace that is not excluded.
NothingExcluded ==
  \A r \in Restores : \A i \in Created(r) :
    LET out == pref[r].namespaces IN
      /\ i.ns \notin out
      /\ i.kind = "Namespace" => i.name \notin out
      /\ i.kind = "ClusterRoleBinding" => ~(i.subjects \subseteq out)
      /\ i.kind = "ClusterRole" =>
           \E b \in archive : b.kind = "ClusterRoleBinding" /\ b.role = i.name
                                /\ ~(b.subjects \subseteq out)

\* What belongs together goes together, whatever directory it is in: a binding
\* comes with its role if the role is to be restored at all, and Endpoints are
\* left to the Service they belong to.
GoTogether ==
  \A r \in Restores :
    LET d == dirs[r]["Restore"] \cup dirs[r]["App"] IN
      /\ pc[r] = "done" =>
           \A b \in Created(r), x \in d :
             b.kind = "ClusterRoleBinding" /\ x.kind = "ClusterRole"
               /\ x.name = b.role /\ ~x.owned => x \notin status[r].excluded
      /\ \A e \in Created(r), x \in d :
           ~(e.kind = "Endpoints" /\ x.kind = "Service" /\ e.ns = x.ns /\ e.name = x.name)

\* No call creates anything from a part of the archive, although another one
\* may cut off the file both use at any time.
WholeArchive ==
  \A r \in Restores :
    Counted(r) # {} => archive = status[r].preference \cup UNION {dirs[r][d] : d \in Dirs}

\* A call that succeeds leaves neither a marker in the target nor files. (One
\* that fails may leave both.)
DoneLeavesNothing ==
  \A r \in Restores : pc[r] = "done" => r \notin markers /\ r \notin tempdir

\* What others can tell of the progress of a call.
Stage(r) == IF pc[r] \in {"done", "failed"} THEN pc[r] ELSE "open"

\* A call keeps the promises of RestoreAccount: whatever it does is a step
\* there, or leaves its account alone.
Account == INSTANCE RestoreAccount WITH
  stage <- [r \in Restores |-> Stage(r)],
  tried <- [r \in Restores |-> Tried(r)],
  made  <- [r \in Restores |-> Created(r)]

KeepsAccount == Account!AccountSpec

-----------------------------------------------------------------------------
(* The inductive invariant behind the safety properties.                   *)

EarlySteps == {"create", "download", "discover", "extract"}

Extracted(r) ==
  /\ dirs[r] = Sorted(pref[r], archive)
  /\ status[r].preference = {i \in archive : PreferedToRestore(pref[r], i) = "Exclude"}

\* The archive is sorted into directories once, as a whole, before anything else.
ExtractedFirst(r) ==
  \/ Extracted(r) /\ pc[r] \notin EarlySteps
  \/ pc[r] \in EarlySteps \cup {"failed"} /\ status[r] = EmptyStatus

PassOf(step) == IF step \in {"claim", "wait"} THEN "PVC" ELSE step

\* What is left to do is of the current pass.
TodoOfPass(r) == pc[r] # "failed" => todo[r] \subseteq PassItems(dirs[r], PassOf(pc[r]))

\* Between a volume and its claim the call remembers which claim it was.
VolumeFirst(r) ==
  pc[r] \in {"claim", "wait"} =>
    \E c \in todo[r] :
      /\ IsFirst(c, todo[r])
      /\ VolumesOf(c, dirs[r]["PV"]) \cap Created(r) # {}
      /\ pc[r] = "wait" => c \in Created(r)

\* No claim is created without its volume.
ClaimSecond(r) ==
  \A c \in Claims \cap Created(r) : VolumesOf(c, dirs[r]["PV"]) \cap Created(r) # {}

OfDirPass(r, i) == \E d \in DirPasses : i \in dirs[r][d]

OfVolumePass(r, i) == i \in dirs[r]["PV"] \cup dirs[r]["PVC"]

\* What is created and what is excluded follows the rules.
ByTheRules(r) ==
  /\ \A i \in Created(r) :
       \/ OfDirPass(r, i) /\ ~LeftOut(pref[r], LookedAt(dirs[r]), i)
       \/ OfVolumePass(r, i)
  /\ \A i \in status[r].excluded :
       \/ OfDirPass(r, i) /\ LeftOut(pref[r], LookedAt(dirs[r]), i)
       \/ OfVolumePass(r, i)

PassesAfter(step) ==
  CASE step = "Namespace"                -> {"CRD", "PVC", "Restore", "App"}
    [] step \in {"CRD", "reload"}        -> {"PVC", "Restore", "App"}
    [] step \in {"PVC", "claim", "wait"} -> {"Restore", "App"}
    [] step = "Restore"                  -> {"App"}
    [] OTHER                             -> {}

\* Items that are still to be looked at; a claim that waits has been.
Pending(r) ==
  {i \in archive \ Volumes :
     \/ i \in todo[r] /\ ~(pc[r] = "wait" /\ IsFirst(i, todo[r]))
     \/ \E d \in PassesAfter(pc[r]) : i \in dirs[r][d]}

\* Every item is pending, or counted, or a claim that was passed over.
Accounted(r) ==
  pc[r] \notin EarlySteps \cup {"failed"} =>
    /\ Pending(r) \cap Counted(r) = {}
    /\ archive \ Volumes \subseteq Pending(r) \cup Counted(r) \cup PassedOver(r)

CountedOnce(r) ==
  \A l, k \in Lists : l # k => (status[r][l] \cap status[r][k]) \subseteq Volumes

EndsClean(r) ==
  /\ pc[r] \in {"marker", "unmark", "done"} => r \notin tempdir
  /\ pc[r] = "done" => r \notin markers

CallInv(r) ==
  /\ ExtractedFirst(r)
  /\ TodoOfPass(r)
  /\ VolumeFirst(r)
  /\ ClaimSecond(r)
  /\ ByTheRules(r)
  /\ Accounted(r)
  /\ CountedOnce(r)
  /\ EndsClean(r)

\* The inductive invariant: calls share the cluster and the files, and yet
\* each keeps its own account.
IndInv == TypeOK /\ archive \in Archives /\ \A r \in Restores : CallInv(r)

-----------------------------------------------------------------------------
(* A call that takes its steps returns: it can always take one, and each   *)
(* uses up something. Nothing is assumed of the target.                    *)

\* Every call can go on until it returns, even if no claim is ever bound.
NeverStuck == \A r \in Restores : pc[r] \notin {"done", "failed"} => ENABLED CallNext(r)

Ahead ==
  [step \in Steps |->
     CASE step \in {"done", "failed"} -> 0
       [] step = "unmark" -> 1    [] step = "marker" -> 2   [] step = "cleanup" -> 3
       [] step = "App" -> 4       [] step = "Restore" -> 5  [] step \in {"PVC", "claim", "wait"} -> 6
       [] step = "reload" -> 7    [] step = "CRD" -> 8      [] step = "Namespace" -> 9
       [] step = "extract" -> 10  [] step = "discover" -> 11
       [] step = "download" -> 12 [] step = "create" -> 13]

Left(r) ==
  <<Ahead[pc[r]], Cardinality(todo[r]),
    CASE pc[r] = "claim" -> 1 [] pc[r] = "wait" -> 0 [] OTHER -> 2,
    MaxTries - tries[r]>>

Less(s, t) ==
  \E k \in DOMAIN s : s[k] < t[k] /\ \A j \in 1..(k - 1) : s[j] = t[j]

\* A call never does again what it has done: whatever it does takes it nearer
\* to its end, a claim that is not bound yet included.
StepsRunOut ==
  [][\A r \in Restores :
       <<pc[r], todo[r], tries[r]>>' # <<pc[r], todo[r], tries[r]>>
         => Less(Left(r)', Left(r))]_vars

=============================================================================
