---------------------------- MODULE MCTopology ----------------------------
(* Configurations of Topology for TLC.                                     *)
EXTENDS Topology
=============================================================================
