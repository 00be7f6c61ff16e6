---------------------------- MODULE MCClementine ----------------------------
(* Configurations of Clementine for TLC.                                   *)
EXTENDS Clementine, TLC

CONSTANTS t1, t2, v1, v2, a1, w1

(* One test with two verifiers and an aggregator, another with one node.   *)
TwoClusters == t1 :> <<{v1, v2}, {a1}>> @@ t2 :> <<{w1}>>

Roles == v1 :> "verifier" @@ v2 :> "verifier" @@ a1 :> "aggregator" @@ w1 :> "verifier"
=============================================================================
