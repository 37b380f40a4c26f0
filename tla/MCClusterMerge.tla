--------------------------- MODULE MCClusterMerge ---------------------------
(* A small instance of ClusterMerge. *)
EXTENDS ClusterMerge
CONSTANTS owner, s1, v1, v2, v3
=============================================================================
