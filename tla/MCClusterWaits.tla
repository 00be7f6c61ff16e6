--------------------------- MODULE MCClusterWaits ---------------------------
(* Configurations of ClusterWaits for TLC.                                 *)
EXTENDS ClusterWaits
=============================================================================
