------------------------------ MODULE MCSyncer ------------------------------
(***************************************************************************)
(* Syncer for TLC.  The worker clusters are interchangeable.               *)
(***************************************************************************)
EXTENDS Syncer, TLC

ClusterSymmetry == Permutations(Clusters)

=============================================================================
