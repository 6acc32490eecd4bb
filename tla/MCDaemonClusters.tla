-------------------------- MODULE MCDaemonClusters --------------------------
(***************************************************************************)
(* DaemonClusters for TLC.                                                 *)
(***************************************************************************)
EXTENDS DaemonClusters, TLC

ClusterSymmetry == Permutations(Clusters) \cup Permutations(Requests)
=============================================================================
