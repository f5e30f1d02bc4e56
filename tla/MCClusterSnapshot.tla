-------------------------- MODULE MCClusterSnapshot --------------------------
(* Two kinds of resources and a marker among them, for TLC.                *)
EXTENDS ClusterSnapshot

CONSTANTS cm, pod

Configmaps == "configmaps"
Pods       == "pods"

TwoKinds == <<Configmaps, Pods>>
OneKindEach == [p \in Paths |-> IF p = pod THEN Pods ELSE Configmaps]
MCKinds == {Configmaps, Pods}

\* What is written before the first marker is among what is Found, and what is
\* written once the watches are stopped reaches nobody: such steps are left
\* out of the search.
WritesReach ==
  history' = history \/ pc' # pc \/ pc \notin {"mark", "drain", "sync", "done", "failed"}

\* A watch that ends is as one that brings nothing more: once is enough.
EndsLate ==
  \A k \in Kinds : watches[k] = "open" /\ watches'[k] = "stopped"
    => pc' # pc \/ pc = "markEnd"

\* Bound: one of the resources changes at most once.
OnePodChange ==
  \A q, r \in DOMAIN history : history[q].path = pod /\ history[r].path = pod => q = r
==============================================================================
