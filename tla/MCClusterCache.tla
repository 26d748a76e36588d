--------------------------- MODULE MCClusterCache ---------------------------
(***************************************************************************)
(* ClusterCache for TLC: one cluster with GPU nodes and one that can add   *)
(* them; a job, or a notebook, with an object of the syncer, whose key is  *)
(* the beginning of the other's.                                           *)
(***************************************************************************)
EXTENDS ClusterCache, TLC

CONSTANTS c1, c2, w1, w2

OneGpu == [c \in Clusters |-> IF c = c1 THEN 1 ELSE 0]

EachOne == [w \in Workloads |-> 1]

FirstOne == [w \in Workloads |-> IF w = w1 THEN 1 ELSE 0]

JobAndObject == [w \in Workloads |-> IF w = w1 THEN "job" ELSE "object"]

NotebookAndObject == [w \in Workloads |-> IF w = w1 THEN "notebook" ELSE "object"]

Prefix == [w \in Workloads |-> IF w = w2 THEN {w1, w2} ELSE {w1}]

=============================================================================
