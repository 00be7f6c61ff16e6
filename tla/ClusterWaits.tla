---------------------------- MODULE ClusterWaits ----------------------------
(***************************************************************************)
(* NodeCluster::wait_for_sync and the waits it is made of,                 *)
(* Node::wait_for_l1_height and Node::wait_for_l2_height (src/src/node.rs),*)
(* over a cluster of sequencers whose heights grow by themselves.          *)
(***************************************************************************)
EXTENDS Naturals

CONSTANTS
  N,           \* number of nodes: "Cluster should have at least 1 node"
  MaxHeight    \* bound: heights

Node == 0 .. N - 1

VARIABLES
  l1, l2,      \* last scanned L1 height and L2 head of each node
  pc,          \* where wait_for_sync is
  l1_height, l2_height,   \* what it read from node 0 in this pass
  node,        \* the node of its inner loop
  late,        \* its timeout has elapsed
  late_wait,   \* so has that of the wait for one node
  passed       \* a pass in which every node reached the heights of node 0 is over

waitVars == <<pc, l1_height, l2_height, node, late, late_wait, passed>>
vars == <<l1, l2, waitVars>>

TypeOK ==
  /\ l1 \in [Node -> 0 .. MaxHeight] /\ l2 \in [Node -> 0 .. MaxHeight]
  /\ pc \in {"loop", "read_l2", "wait_l1", "wait_l2", "ok", "failed_to_sync", "err"}
  /\ l1_height \in 0 .. MaxHeight /\ l2_height \in 0 .. MaxHeight
  /\ node \in Node
  /\ late \in BOOLEAN /\ late_wait \in BOOLEAN /\ passed \in BOOLEAN

Init ==
  /\ l1 = [n \in Node |-> 0] /\ l2 = [n \in Node |-> 0]
  /\ pc = "loop" /\ l1_height = 0 /\ l2_height = 0 /\ node = 0
  /\ late = FALSE /\ late_wait = FALSE /\ passed = FALSE

(* The nodes: node 0 scans L1 and produces blocks, the others follow.      *)
Grow(n) ==
  /\ \/ /\ l1[n] < MaxHeight
        /\ l1' = [l1 EXCEPT ![n] = @ + 1] /\ UNCHANGED l2
     \/ /\ l2[n] < IF n = 0 THEN MaxHeight ELSE l2[0]
        /\ l2' = [l2 EXCEPT ![n] = @ + 1] /\ UNCHANGED l1
  /\ UNCHANGED waitVars

Elapses ==
  /\ \/ late' = TRUE /\ UNCHANGED late_wait
     \/ pc \in {"wait_l1", "wait_l2"} /\ late_wait' = TRUE /\ UNCHANGED late
  /\ UNCHANGED <<l1, l2, pc, l1_height, l2_height, node, passed>>

(* while start.elapsed() < timeout, and the two requests to node 0.  The   *)
(* loop has no other end.                                                  *)
ReadL2 ==
  /\ pc = "loop"
  /\ IF late
     THEN pc' = "failed_to_sync" /\ UNCHANGED l2_height
     ELSE pc' = "read_l2" /\ l2_height' = l2[0]
  /\ UNCHANGED <<l1, l2, l1_height, node, late, late_wait, passed>>

ReadL1 ==
  /\ pc = "read_l2"
  /\ l1_height' = l1[0]
  /\ pc' = "wait_l1" /\ node' = 0 /\ late_wait' = FALSE
  /\ UNCHANGED <<l1, l2, l2_height, late, passed>>

(* wait_for_l1_height and wait_for_l2_height look at the height before     *)
(* they look at the time.                                                  *)
Reached(height, target) == height >= target

WaitForL1Height ==
  /\ pc = "wait_l1"
  /\ IF Reached(l1[node], l1_height)
     THEN pc' = "wait_l2" /\ late_wait' = FALSE
     ELSE late_wait /\ pc' = "err" /\ UNCHANGED late_wait
  /\ UNCHANGED <<l1, l2, l1_height, l2_height, node, late, passed>>

WaitForL2Height ==
  /\ pc = "wait_l2"
  /\ IF Reached(l2[node], l2_height)
     THEN IF node + 1 < N
          THEN pc' = "wait_l1" /\ node' = node + 1 /\ UNCHANGED passed
          ELSE pc' = "loop" /\ node' = 0 /\ passed' = TRUE
     ELSE late_wait /\ pc' = "err" /\ UNCHANGED <<node, passed>>
  /\ late_wait' = FALSE
  /\ UNCHANGED <<l1, l2, l1_height, l2_height, late>>

(* Any request may fail.                                                   *)
RequestFails ==
  /\ pc \in {"loop", "read_l2", "wait_l1", "wait_l2"} /\ pc' = "err"
  /\ UNCHANGED <<l1, l2, l1_height, l2_height, node, late, late_wait, passed>>

Next ==
  \/ \E n \in Node : Grow(n)
  \/ Elapses \/ ReadL2 \/ ReadL1 \/ WaitForL1Height \/ WaitForL2Height \/ RequestFails

Spec == Init /\ [][Next]_vars

-----------------------------------------------------------------------------

(* "Nodes failed to sync within the specified timeout" is the answer only  *)
(* if there was no pass in which every node reached the heights of node 0. *)
FailsOnlyOutOfSync == pc = "failed_to_sync" => ~passed
=============================================================================
