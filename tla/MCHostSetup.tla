---------------------------- MODULE MCHostSetup -----------------------------
(* A configuration of HostSetup for TLC.                                   *)
EXTENDS HostSetup

CONSTANTS t1, t2, p1, p2
=============================================================================
