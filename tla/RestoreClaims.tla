---------------------------- MODULE RestoreClaims ----------------------------
(***************************************************************************)
(* What the repository's documents say of restoring and the code does not  *)
(* keep, checked by a run that expects the violation and reported as a     *)
(* finding.                                                                *)
(***************************************************************************)
EXTENDS ClusterRestore

\* "excludeNamespaces | Namespaces to exclude | match exactly": a namespace
\* stays in the archive only if the preference has its name. The code looks
\* for the text anywhere in the path, and leaves kube-dns out with kube.
ExcludedExactly ==
  \A r \in Restores : \A i \in status[r].preference :
    i.kind = "Namespace" => i.name \in pref[r].namespaces

==============================================================================
