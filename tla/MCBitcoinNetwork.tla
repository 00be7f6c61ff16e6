-------------------------- MODULE MCBitcoinNetwork --------------------------
(* Configurations of BitcoinNetwork for TLC.  Every node of a cluster runs *)
(* the same binary with the same arguments.                                *)
EXTENDS BitcoinNetwork

OneSubversion == [n \in 0 .. 2 |-> "Satoshi"]

(* Three nodes are followed until the first disconnect_nodes or stop; no   *)
(* state after that is one without either.                                 *)
Followed == N = 2 \/ ~parted
=============================================================================
