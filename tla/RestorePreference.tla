--------------------------- MODULE RestorePreference ---------------------------
(***************************************************************************)
(* Which archived items a restore creates, and in which pass: the          *)
(* RestorePreference resource and the rules of restore_pref.go and         *)
(* restoreDir, as functions of the items.                                  *)
(*                                                                         *)
(* The rules compare texts: the names in a preference with paths in the    *)
(* archive. What they can tell apart is which text starts with or contains *)
(* which other; these relations are constants, and an item has the API     *)
(* path texts it starts with and those it contains.                        *)
(***************************************************************************)
EXTENDS Naturals, Sequences, FiniteSets

CONSTANTS
  Names,     \* names of resources, and texts in preferences that match them
  Texts,     \* texts that API path rules look for
  Starts,    \* pairs <<m, n>>: the name m starts with n
  Contains,  \* pairs <<m, n>>: the name m contains n
  Custom,    \* kinds of custom resources
  NoName,    \* an empty name: no namespace, no volume, no role
  NoKind     \* what an item that is no CRD defines

BuiltinKinds ==
  {"Namespace", "CustomResourceDefinition", "StorageClass", "PersistentVolume",
   "PersistentVolumeClaim", "Secret", "ClusterRole", "ClusterRoleBinding",
   "Service", "Endpoints", "Other"}
Kinds == BuiltinKinds \cup Custom

ClusterScoped ==
  {"Namespace", "CustomResourceDefinition", "StorageClass", "PersistentVolume",
   "ClusterRole", "ClusterRoleBinding"}

\* Order on names is what file names give.
ASSUME PreferenceAssumption ==
  /\ Starts \subseteq Contains
  /\ \A n \in Names : <<n, n>> \in Starts
  /\ NoName \notin Names
  /\ NoKind \notin Kinds

\* An archived resource. starts and holds are of its path; subjects are the
\* namespaces of a binding's ServiceAccounts; classes the storage class of a
\* volume, or those a claim names in its spec and its annotation.
Item ==
  [kind : Kinds, ns : Names \cup {NoName}, name : Names,
   starts : SUBSET Texts, holds : SUBSET Texts, owned : BOOLEAN, token : BOOLEAN,
   subjects : SUBSET Names, role : Names \cup {NoName},
   classes : SUBSET Names, volume : Names \cup {NoName}, spec : BOOLEAN,
   defines : Custom \cup {NoKind}]

\* A RestorePreference. An API path rule is a list of texts (split at commas).
Preference ==
  [namespaces : SUBSET Names, crds : SUBSET Names, classes : SUBSET Names,
   paths : SUBSET Seq(Texts), appPaths : SUBSET Seq(Texts)]

\* The directories of items to create, and what to leave in the archive.
Dirs == {"Namespace", "CRD", "PV", "PVC", "Restore", "App"}

ApiPathMatched(i, sp) ==
  \/ Len(sp) = 1 /\ sp[1] \in i.starts
  \/ Len(sp) = 2 /\ sp[1] \in i.starts /\ sp[2] \in i.holds

IsIn(i, rules) == \E sp \in rules : ApiPathMatched(i, sp)

\* "/namespaces/<name>.json" and "/crds/<name>.json" have directories of their
\* own in the archive and follow no other rule.
NamesOne(i, texts) == \E n \in texts : <<i.name, n>> \in Contains

InExcludedNamespace(p, i) == \E n \in p.namespaces : <<i.ns, n>> \in Starts

OfIncludedClass(p, names) == \E m \in names, n \in p.classes : <<m, n>> \in Starts

\* Mutant: volumes and claims before the excluded namespaces.
PreferedVolumesFirst(p, i) ==
  CASE i.kind = "Namespace" -> IF NamesOne(i, p.namespaces) THEN "Exclude" ELSE "Namespace"
    [] i.kind = "CustomResourceDefinition" -> IF NamesOne(i, p.crds) THEN "Exclude" ELSE "CRD"
    [] i.kind = "PersistentVolume" -> "PV"
    [] i.kind = "PersistentVolumeClaim" -> "PVC"
    [] IsIn(i, p.paths) \/ InExcludedNamespace(p, i) -> "Exclude"
    [] i.kind = "StorageClass" -> IF OfIncludedClass(p, {i.name}) THEN "Restore" ELSE "Exclude"
    [] OTHER -> IF IsIn(i, p.appPaths) THEN "App" ELSE "Restore"

\* The directory of an item.
PreferedToRestore(p, i) ==
  IF i.kind = "Namespace" THEN IF NamesOne(i, p.namespaces) THEN "Exclude" ELSE "Namespace"
  ELSE IF i.kind = "CustomResourceDefinition" THEN IF NamesOne(i, p.crds) THEN "Exclude" ELSE "CRD"
  ELSE IF IsIn(i, p.paths) \/ InExcludedNamespace(p, i) THEN "Exclude"
  ELSE IF i.kind = "StorageClass" THEN IF OfIncludedClass(p, {i.name}) THEN "Restore" ELSE "Exclude"
  ELSE IF i.kind = "PersistentVolume" THEN "PV"
  ELSE IF i.kind = "PersistentVolumeClaim" THEN "PVC"
  ELSE IF IsIn(i, p.appPaths) THEN "App" ELSE "Restore"

-----------------------------------------------------------------------------
(* initializeByDir: what the passes need to know of the items in the       *)
(* Restore and the App directory, d.                                       *)

\* Mutant: only the Restore directory is looked at.
LookedAtRestoreOnly(dirs) == dirs["Restore"]

LookedAt(dirs) == dirs["Restore"] \cup dirs["App"]

\* Here the namespace is compared as it is.
IsUserNamespace(p, n) == n \notin p.namespaces

\* Bindings of a ServiceAccount in a namespace that is not excluded.
IncludedBindings(p, d) ==
  {b \in d : /\ b.kind = "ClusterRoleBinding"
             /\ b.role # NoName
             /\ \E n \in b.subjects : IsUserNamespace(p, n)}

IncludedRoleNames(p, d) == {b.role : b \in IncludedBindings(p, d)}

HasService(i, d) == \E s \in d : s.kind = "Service" /\ s.ns = i.ns /\ s.name = i.name

\* What restoreDir leaves out of its directory, with all it knows in d.
LeftOut(p, d, i) ==
  \/ i.owned
  \/ i.kind = "Secret" /\ i.token
  \/ i.kind = "ClusterRole" /\ i.name \notin IncludedRoleNames(p, d)
  \/ i.kind = "ClusterRoleBinding" /\ i.name \notin {b.name : b \in IncludedBindings(p, d)}
  \/ i.kind = "Endpoints" /\ HasService(i, d)

\* The volumes a claim names, among those in the archive.
VolumesOf(c, volumes) == {v \in volumes : v.name = c.volume}

\* What restorePV leaves out: a claim without spec, of another class, that was
\* not bound, or whose volume is not there.
ClaimLeftOut(p, volumes, c) ==
  \/ ~c.spec
  \/ ~OfIncludedClass(p, c.classes)
  \/ c.volume = NoName
  \/ VolumesOf(c, volumes) = {}

-----------------------------------------------------------------------------
(* The rules together.                                                     *)

Sorted(p, items) ==
  [d \in Dirs |-> {i \in items : PreferedToRestore(p, i) = d}]

\* All that a restore by p is to create of an archive, in whatever pass.
Selected(p, items) ==
  LET d      == Sorted(p, items)
      claims == {c \in d["PVC"] : /\ ~ClaimLeftOut(p, d["PV"], c)
                                  /\ \E v \in VolumesOf(c, d["PV"]) : v.spec}
  IN {i \in d["Namespace"] \cup d["CRD"] \cup LookedAt(d) : ~LeftOut(p, LookedAt(d), i)}
       \cup claims
       \cup {v \in d["PV"] : v.spec /\ \E c \in claims : v \in VolumesOf(c, d["PV"])}

\* q names all that p excludes, and no more classes; what is an application
\* may differ. (API paths are not compared: to exclude a Service by its path
\* brings its Endpoints back.)
Stricter(q, p) ==
  /\ p.namespaces \subseteq q.namespaces /\ p.crds \subseteq q.crds
  /\ q.classes \subseteq p.classes /\ q.paths = p.paths

=============================================================================
