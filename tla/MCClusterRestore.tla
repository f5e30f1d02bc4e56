--------------------------- MODULE MCClusterRestore ---------------------------
(* Five archives and two calls of Restore, for TLC.                         *)
EXTENDS RestoreClaims, TLC

MCNames == {"web", "kube", "kube-dns", "widgets", "nfs", "gold", "v1", "v2", "c1", "c2", "c3",
            "role", "binding", "sysrole", "sysbinding", "front", "token", "pod"}

\* "kube" in a preference stands for "kube-dns" as well.
MCStarts   == {<<n, n>> : n \in MCNames} \cup {<<"kube-dns", "kube">>}
MCContains == MCStarts

MCCustom == {"Widget"}

Thing(kind, ns, name) ==
  [kind |-> kind, ns |-> ns, name |-> name, starts |-> {}, holds |-> {}, owned |-> FALSE,
   token |-> FALSE, subjects |-> {}, role |-> NoName, classes |-> {}, volume |-> NoName,
   spec |-> TRUE, defines |-> NoKind]

Plain(kind, name)  == Thing(kind, NoName, name)
Core(kind, name)   == [Thing(kind, "web", name) EXCEPT !.starts = {"/api/v1"}]
Rbac(kind, name)   == [Plain(kind, name) EXCEPT !.starts = {"/apis/rbac"}]
Volume(name)       == [Plain("PersistentVolume", name) EXCEPT !.classes = {"nfs"}]
Claim(name, v, class) ==
  [Core("PersistentVolumeClaim", name) EXCEPT !.volume = v, !.classes = {class}]

Web     == Plain("Namespace", "web")
Kube    == Plain("Namespace", "kube")
KubeDns == Plain("Namespace", "kube-dns")
Crd     == [Plain("CustomResourceDefinition", "widgets") EXCEPT !.defines = "Widget"]
Widget  == Core("Widget", "front")
Front   == [Core("Service", "front") EXCEPT !.holds = {"services"}]
FrontEp == Core("Endpoints", "front")
Token   == [Core("Secret", "token") EXCEPT !.token = TRUE]
Pod     == [Core("Other", "pod") EXCEPT !.owned = TRUE]
Role    == Rbac("ClusterRole", "role")
Binding == [Rbac("ClusterRoleBinding", "binding") EXCEPT !.role = "role", !.subjects = {"web", "kube"},
                                                         !.holds = {"bindings"}]
SysRole == Rbac("ClusterRole", "sysrole")
SysBinding ==
  [Rbac("ClusterRoleBinding", "sysbinding") EXCEPT !.role = "sysrole", !.subjects = {"kube"},
                                                   !.holds = {"bindings"}]

Nfs  == Plain("StorageClass", "nfs")
Gold == Plain("StorageClass", "gold")
V1 == Volume("v1")
V2 == Volume("v2")
V3 == [Volume("v2") EXCEPT !.spec = FALSE]
C1 == Claim("c1", "v1", "nfs")
C2 == Claim("c2", "v2", "nfs")
C3 == Claim("c3", "v1", "gold")
C4 == [Claim("c3", "v2", "nfs") EXCEPT !.ns = "kube"]

Sequenced ==
  <<C4, FrontEp, C1, C2, C3, Pod, Token, Front, Web, Kube, KubeDns, V1, V2, V3, Crd, Widget,
    Binding, SysBinding, Role, SysRole, Nfs, Gold>>

MCRank == [i \in {Sequenced[k] : k \in DOMAIN Sequenced} |->
             CHOOSE k \in DOMAIN Sequenced : Sequenced[k] = i]

MCTexts == {"/api/v1", "/apis/rbac", "services", "bindings"}

\* Services and bindings come with the applications, or nothing does.
SystemOut == [namespaces |-> {"kube"}, crds |-> {}, classes |-> {"nfs"}, paths |-> {},
              appPaths |-> {<<"/api/v1", "services">>, <<"/apis/rbac", "bindings">>}]
CrdsOut   == [SystemOut EXCEPT !.crds = {"widgets"}, !.appPaths = {}]

Things  == {Web, KubeDns, Crd, Widget, Front, FrontEp, Token, Pod}
Rights  == {Web, Role, Binding, SysRole, SysBinding, Nfs, Gold}
Storage == {Web, V1, V2, C1, C2, C3, C4}
NoVolumes == {Web, C1}
NoSpec    == {Web, V1, V3, C1, C2}

MCArchives == {Things, Rights, Storage, NoVolumes, NoSpec}
MCPrefs    == {SystemOut, CrdsOut}
MCTargets  == {{}, {Crd, Web, Kube, V1}}

\* Bounds: one call fails, or the others do something once.
MCBudget == [k \in BudgetKinds |-> 1]

CallsAlike == Permutations(Restores)

=============================================================================
