--------------------------- MODULE MCNodeRestart ---------------------------
(* Configurations of NodeRestart for TLC.                                  *)
EXTENDS NodeRestart, TLC

CONSTANTS n1, n2, n3, t1, t2

(* Two nodes of one test, and one of a test that runs at the same time.    *)
TwoTests == n1 :> t1 @@ n2 :> t1 @@ n3 :> t2

SameTest == Permutations({n1, n2})
=============================================================================
