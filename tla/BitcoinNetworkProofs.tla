------------------------ MODULE BitcoinNetworkProofs ------------------------
(***************************************************************************)
(* Proofs about BitcoinNetwork for every number of nodes and every choice  *)
(* of subversions: type correctness, that the first connect_nodes that     *)
(* returns Ok has linked node 0 to all the others, what connect_nodes and  *)
(* disconnect_nodes do for two nodes, and what wait_for_sync shows.        *)
(***************************************************************************)
EXTENDS BitcoinNetwork, TLAPS, SequenceTheorems

-----------------------------------------------------------------------------
(* Type correctness                                                        *)

LEMMA NodeFacts ==
  ASSUME N \in Sizes
  PROVE  /\ N \in Nat \ {0}
         /\ Node \subseteq Nat
         /\ 0 \in Node
         /\ \A n \in Node : n < N - 1 => n + 1 \in Node
         /\ \A n \in Node : n + 1 < N => n + 1 \in Node
BY NetworkAssumption DEF NetworkAssumption, Node

(* The number of nodes stays, and with it what is defined by it.           *)
LEMMA SameNodes ==
  ASSUME UNCHANGED N
  PROVE  Node' = Node /\ Link' = Link
BY DEF Node, Link

LEMMA SizeStays ==
  ASSUME [Next]_vars
  PROVE  UNCHANGED N
<1>1. CASE CallStep
  BY <1>1 DEF CallStep, SkipSelf, CallFails, Connect, OneTry, SeesPeers, SeesPongs,
              Disconnect, ListPeers, ListAmong, DropPeer, AllDropped, SeesNoPeer,
              SeesNoPeerBack, WaitForSync, ReadHeight, Read, Generate, WaitUntilStopped,
              StartNode, Call, Return, NextPair, PairAfter, At, flags
<1>2. CASE Bitcoind
  BY <1>2 DEF Bitcoind, OutboundOpens, InboundOpens, OneTryFails, Pong, Relay, EndCloses,
              callVars, flags
<1>3. CASE UNCHANGED vars BY <1>3 DEF vars, callVars, flags
<1> QED BY <1>1, <1>2, <1>3 DEF Next

(* The end of a pair of the loops keeps the indexes in range.              *)
LEMMA NextPairType ==
  ASSUME TypeOK, NextPair, call \in {"connect", "disconnect"},
         UNCHANGED chain, trying' \subseteq Link, ponged' \subseteq Link,
         ends' \subseteq Link \X Node, down' \subseteq Node
  PROVE  TypeOK'
<1>0. /\ N \in Sizes /\ N' = N /\ Node' = Node /\ Link' = Link
  BY SameNodes DEF NextPair, PairAfter, Return, flags, TypeOK
<1> USE <1>0
<1>1. CASE j < N - 1
  BY <1>1, NodeFacts DEF NextPair, PairAfter, TypeOK, flags
<1>2. CASE ~(j < N - 1) /\ i < N - 1
  BY <1>2, NodeFacts DEF NextPair, PairAfter, TypeOK, flags
<1>3. CASE ~(j < N - 1) /\ ~(i < N - 1)
  BY <1>3, NodeFacts DEF NextPair, PairAfter, Return, TypeOK, flags
<1> QED BY <1>1, <1>2, <1>3

LEMMA DropType ==
  ASSUME TypeOK, ListPeers \/ (\E l \in Link : DropPeer(l)) \/ AllDropped
  PROVE  TypeOK'
<1>0. /\ N \in Sizes /\ N' = N /\ Node' = Node /\ Link' = Link
  BY SameNodes DEF ListPeers, ListAmong, DropPeer, AllDropped, At, Return, flags, TypeOK
<1> USE <1>0
<1>1. CASE ListPeers
  <2>1. UNCHANGED <<linkVars, down, chain>> BY <1>1 DEF ListPeers, ListAmong
  <2>2. CASE Peers(i) \cap Like(j) = {}
    <3>1. Return("disconnect") BY <1>1, <2>2 DEF ListPeers, ListAmong
    <3> QED BY <2>1, <3>1, NodeFacts DEF Return, TypeOK, flags, linkVars
  <2>3. CASE Peers(i) \cap Like(j) # {}
    <3>1. step' = "drop" /\ ids' \subseteq Link
          /\ UNCHANGED <<call, i, j, read, result, flags>>
      BY <1>1, <2>3 DEF ListPeers, ListAmong
    <3> QED BY <2>1, <3>1 DEF TypeOK, flags, linkVars
  <2> QED BY <2>2, <2>3
<1>2. ASSUME NEW l \in Link, DropPeer(l) PROVE TypeOK'
  BY <1>2 DEF DropPeer, TypeOK, flags
<1>3. CASE AllDropped BY <1>3 DEF AllDropped, At, TypeOK, flags, linkVars
<1> QED BY <1>1, <1>2, <1>3

LEMMA TypeInduction ==
  ASSUME TypeOK, [Next]_vars
  PROVE  TypeOK'
<1>0. /\ N \in Sizes /\ N' = N /\ Node' = Node /\ Link' = Link
  BY SizeStays, SameNodes DEF TypeOK
<1> USE <1>0
<1> USE NodeFacts
<1>1. CASE SkipSelf
  BY <1>1, NextPairType DEF SkipSelf, linkVars, TypeOK
<1>2. CASE CallFails BY <1>2 DEF CallFails, Return, TypeOK, flags, linkVars
<1>3. CASE Connect BY <1>3 DEF Connect, Call, TypeOK, flags, linkVars
<1>4. CASE OneTry BY <1>4 DEF OneTry, At, TypeOK, flags, Link
<1>5. CASE SeesPeers BY <1>5 DEF SeesPeers, At, TypeOK, flags, linkVars
<1>6. CASE SeesPongs
  BY <1>6, NextPairType DEF SeesPongs, linkVars, TypeOK
<1>7. CASE Disconnect BY <1>7 DEF Disconnect, Call, TypeOK, linkVars
<1>8. CASE ListPeers \/ (\E l \in Link : DropPeer(l)) \/ AllDropped BY <1>8, DropType
<1>9. CASE SeesNoPeer BY <1>9 DEF SeesNoPeer, At, TypeOK, flags, linkVars
<1>10. CASE SeesNoPeerBack
  BY <1>10, NextPairType DEF SeesNoPeerBack, linkVars, TypeOK
<1>11. CASE WaitForSync BY <1>11 DEF WaitForSync, Call, TypeOK, flags, linkVars
<1>12. CASE ReadHeight
  <2>1. chain[i] \in Seq(Node) /\ read \subseteq Nat BY DEF TypeOK
  <2>2. Len(chain[i]) \in Nat BY <2>1
  <2>3. Heights \subseteq Nat BY <2>1, <2>2 DEF Heights
  <2> QED BY <1>12, <2>3 DEF ReadHeight, Read, Return, TypeOK, flags, linkVars
<1>13. CASE \E n \in Node : Generate(n)
  <2>1. PICK n \in Node : Generate(n) BY <1>13
  <2>2. Append(chain[n], n) \in Seq(Node) BY DEF TypeOK
  <2> QED BY <2>1, <2>2 DEF Generate, TypeOK, flags, linkVars
<1>14. CASE \E n \in Node : WaitUntilStopped(n)
  BY <1>14 DEF WaitUntilStopped, TypeOK
<1>15. CASE \E n \in Node : StartNode(n)
  BY <1>15 DEF StartNode, TypeOK, flags, linkVars
<1>16. ASSUME NEW l \in Link, OutboundOpens(l) \/ InboundOpens(l) \/ OneTryFails(l)
                              \/ Pong(l) \/ Relay(l)
       PROVE  TypeOK'
  <2>1. l[1] \in Node /\ l[2] \in Node BY DEF Link
  <2>2. CASE OutboundOpens(l)
    BY <2>1, <2>2 DEF OutboundOpens, TypeOK, callVars, flags
  <2>3. CASE InboundOpens(l)
    BY <2>1, <2>3 DEF InboundOpens, TypeOK, callVars, flags
  <2>4. CASE OneTryFails(l) BY <2>4 DEF OneTryFails, TypeOK, callVars, flags
  <2>5. CASE Pong(l) BY <2>5 DEF Pong, TypeOK, callVars, flags
  <2>6. CASE Relay(l)
    BY <2>1, <2>6 DEF Relay, TypeOK, callVars, flags, linkVars
  <2> QED BY <1>16, <2>2, <2>3, <2>4, <2>5, <2>6
<1>17. ASSUME NEW l \in Link, NEW n \in Node, EndCloses(l, n)
       PROVE  TypeOK'
  BY <1>17 DEF EndCloses, TypeOK, callVars, flags
<1>18. CASE UNCHANGED vars
  BY <1>18 DEF vars, callVars, linkVars, flags, TypeOK
<1> QED
  BY <1>1, <1>2, <1>3, <1>4, <1>5, <1>6, <1>7, <1>8, <1>9, <1>10, <1>11, <1>12,
     <1>13, <1>14, <1>15, <1>16, <1>17, <1>18 DEF Next, CallStep, Bitcoind

(* Every state of every network has the declared types: in particular the  *)
(* nested loops of connect_nodes and disconnect_nodes never leave the list *)
(* of nodes.                                                               *)
THEOREM TypeCorrect == Spec => []TypeOK
<1>1. ASSUME Init PROVE TypeOK
  <2>1. [n \in Node |-> <<>>] \in [Node -> Seq(Node)] OBVIOUS
  <2>2. N \in Sizes BY <1>1 DEF Init
  <2> QED BY <1>1, <2>1, <2>2, NodeFacts DEF Init, TypeOK
<1>2. TypeOK /\ [Next]_vars => TypeOK' BY TypeInduction
<1> QED BY <1>1, <1>2, PTL DEF Spec

-----------------------------------------------------------------------------
(* The first connect_nodes                                                 *)

AllLinked == \A k \in Node \ {0} : Established(<<0, k>>)

(* No node is connected to itself, and an end belongs to its link.         *)
EndsMatch ==
  /\ \A l \in trying : l[1] # l[2]
  /\ \A e \in ends : e[1][1] # e[1][2] /\ e[2] \in {e[1][1], e[1][2]}

(* Nothing is dropped before the first disconnect or stop.                 *)
PartedIfDropping == call = "disconnect" \/ down # {} => parted

(* The inbound end of a link opens last, so it closes first.               *)
InboundLast == \A l \in Link : <<l, l[2]>> \in ends => <<l, l[1]>> \in ends

(* Only node 0 requests links before the others are all linked to it.      *)
ZeroFirst ==
  /\ (\E l \in trying : l[1] # 0) => AllLinked
  /\ (\E e \in ends : e[1][1] # 0) => AllLinked

(* What the pairs connect_nodes has gone through have established.         *)
PairsLinked ==
  /\ call = "connect" /\ i # 0 => AllLinked
  /\ call = "connect" /\ i = 0 =>
       \A k \in Node \ {0} : k < j => Established(<<0, k>>)
  /\ result = "connect" => AllLinked

LinkInv ==
  /\ EndsMatch
  /\ PartedIfDropping
  /\ ~parted => InboundLast /\ ZeroFirst /\ PairsLinked

(* One step of the loops, when the pair just finished is linked.           *)
LEMMA NextPairLinks ==
  ASSUME TypeOK, PairsLinked, call = "connect", NextPair, UNCHANGED ends,
         i = 0 /\ j # 0 => Established(<<0, j>>)
  PROVE  PairsLinked'
<1>0. /\ N \in Sizes /\ N' = N /\ Node' = Node /\ Link' = Link
  BY SameNodes DEF NextPair, PairAfter, Return, flags, TypeOK
<1> USE <1>0
<1>1. AllLinked' <=> AllLinked BY DEF AllLinked, Established
<1>2. i = 0 => \A k \in Node \ {0} : k <= j => Established(<<0, k>>)
  <2> SUFFICES ASSUME i = 0, NEW k \in Node \ {0}, k <= j
               PROVE  Established(<<0, k>>)
    OBVIOUS
  <2>1. k \in Nat /\ j \in Nat BY NodeFacts DEF TypeOK
  <2>2. CASE k < j BY <2>2 DEF PairsLinked
  <2>3. CASE k = j BY <2>3
  <2> QED BY <2>1, <2>2, <2>3
<1>3. CASE j < N - 1
  <2>1. \A k \in Node : k < j + 1 => k <= j
    BY NodeFacts DEF TypeOK
  <2> QED BY <1>1, <1>2, <1>3, <2>1
          DEF NextPair, PairAfter, PairsLinked, Established
<1>4. CASE ~(j < N - 1)
  <2>1. \A k \in Node : k <= j BY <1>4, NodeFacts DEF TypeOK, Node
  <2>2. AllLinked BY <1>2, <2>1 DEF AllLinked, PairsLinked
  <2>3. CASE i < N - 1
    <3>1. i + 1 # 0 BY NodeFacts DEF TypeOK
    <3> QED BY <1>1, <1>4, <2>2, <2>3, <3>1
            DEF NextPair, PairAfter, PairsLinked
  <2>4. CASE ~(i < N - 1)
    BY <1>1, <1>4, <2>2, <2>4 DEF NextPair, PairAfter, Return, PairsLinked
  <2> QED BY <2>3, <2>4
<1> QED BY <1>3, <1>4

(* Steps that keep the links and the progress of the call.                 *)
LEMMA LinksKept ==
  ASSUME LinkInv, UNCHANGED <<N, linkVars, down, parted>>,
         call' = "disconnect" => call = "disconnect",
         ~parted => PairsLinked'
  PROVE  LinkInv'
  BY SameNodes DEF LinkInv, EndsMatch, PartedIfDropping, InboundLast, ZeroFirst, AllLinked,
                   Established, linkVars

(* A pair connect_nodes has seen ponging is linked, for node 0: before all *)
(* are linked, only node 0 can be the peer its to_node lists.              *)
LEMMA PongsLink ==
  ASSUME TypeOK, LinkInv, ~parted, SeesPongs, i = 0, j # 0
  PROVE  Established(<<0, j>>)
<1>0. N \in Sizes BY DEF TypeOK
<1> USE <1>0
<1>1. j \in Node BY DEF TypeOK
<1>2. PICK k \in Node : <<<<k, j>>, j>> \in ends
  BY DEF SeesPongs, Inbound
<1>3. CASE k # 0
  <2>1. AllLinked BY <1>2, <1>3 DEF LinkInv, ZeroFirst
  <2> QED BY <1>1, <2>1 DEF AllLinked
<1>4. CASE k = 0
  <2>1. <<0, j>> \in Link BY <1>1, NodeFacts DEF Link
  <2> QED BY <1>2, <1>4, <2>1 DEF LinkInv, InboundLast, Established
<1> QED BY <1>3, <1>4

(* A bitcoind opening, closing or using a connection.                      *)
LEMMA BitcoindLinks ==
  ASSUME TypeOK, LinkInv, NEW l \in Link,
         \/ OutboundOpens(l) \/ InboundOpens(l) \/ OneTryFails(l)
         \/ Pong(l) \/ Relay(l) \/ \E n \in Node : EndCloses(l, n)
  PROVE  LinkInv'
<1>0. /\ N \in Sizes /\ N' = N /\ Node' = Node /\ Link' = Link
  BY SameNodes DEF OutboundOpens, InboundOpens, OneTryFails, Pong, Relay, EndCloses,
                   callVars, flags, TypeOK
<1> USE <1>0
<1>1. UNCHANGED <<call, i, j, result, parted, down>>
  BY DEF OutboundOpens, InboundOpens, OneTryFails, Pong, Relay, EndCloses,
         callVars, flags, linkVars
<1>2. PartedIfDropping' BY <1>1 DEF LinkInv, PartedIfDropping
<1>3. trying' \subseteq trying
  BY DEF OutboundOpens, InboundOpens, OneTryFails, Pong, Relay, EndCloses, linkVars
<1>4. \A e \in ends' : e \in ends \/ (l \in trying /\ e \in {<<l, l[1]>>, <<l, l[2]>>})
  BY DEF OutboundOpens, InboundOpens, OneTryFails, Pong, Relay, EndCloses, linkVars
<1>5. EndsMatch' BY <1>3, <1>4 DEF LinkInv, EndsMatch
<1>6. ASSUME ~parted PROVE InboundLast' /\ ZeroFirst' /\ PairsLinked'
  <2>1. InboundLast /\ ZeroFirst /\ PairsLinked BY <1>6 DEF LinkInv
  <2>2. InboundLast'
    <3>1. CASE OutboundOpens(l) BY <3>1, <2>1 DEF OutboundOpens, InboundLast, LinkInv, EndsMatch
    <3>2. CASE InboundOpens(l) BY <3>2, <2>1 DEF InboundOpens, InboundLast
    <3>3. CASE OneTryFails(l) \/ Pong(l) \/ Relay(l)
      BY <3>3, <2>1 DEF OneTryFails, Pong, Relay, InboundLast, linkVars
    <3>4. ASSUME NEW n \in Node, EndCloses(l, n) PROVE InboundLast'
      BY <3>4, <2>1 DEF EndCloses, InboundLast, Established
    <3> QED BY <3>1, <3>2, <3>3, <3>4
  <2>3. \A k \in Link : Established(k) => Established(k)'
    <3>1. CASE ends \subseteq ends' BY <3>1 DEF Established
    <3>2. ASSUME NEW n \in Node, EndCloses(l, n)
          PROVE  \A k \in Link : Established(k) => Established(k)'
      BY <3>2 DEF EndCloses, Established
    <3> QED BY <3>1, <3>2
            DEF OutboundOpens, InboundOpens, OneTryFails, Pong, Relay, linkVars
  <2>4. \A k \in Node : Established(<<0, k>>) => Established(<<0, k>>)'
    <3>1. \A k \in Node : <<0, k>> \in Link BY NodeFacts DEF Link
    <3> QED BY <3>1, <2>3
  <2>5. AllLinked => AllLinked' BY <2>4 DEF AllLinked
  <2>6. ZeroFirst' BY <2>1, <2>5, <1>3, <1>4 DEF ZeroFirst
  <2>7. PairsLinked' BY <2>1, <2>4, <2>5, <1>1 DEF PairsLinked
  <2> QED BY <2>2, <2>6, <2>7
<1> QED BY <1>1, <1>2, <1>5, <1>6 DEF LinkInv

(* A call or a step of the test.                                           *)
LEMMA CallLinks ==
  ASSUME TypeOK, LinkInv, CallStep
  PROVE  LinkInv'
<1>0. /\ N \in Sizes /\ N' = N /\ Node' = Node /\ Link' = Link
  BY SizeStays, SameNodes DEF Next, TypeOK
<1> USE <1>0
<1> USE DEF LinkInv
<1>1. CASE SkipSelf
  <2>1. UNCHANGED <<linkVars, down, parted>> /\ call' \in {call, "none"}
    BY <1>1 DEF SkipSelf, NextPair, PairAfter, Return, flags
  <2>2. ASSUME ~parted PROVE PairsLinked'
    <3>1. call = "connect" BY <1>1, <2>2 DEF SkipSelf, PartedIfDropping
    <3> QED BY <1>1, <2>2, <3>1, NextPairLinks DEF SkipSelf, linkVars
  <2> QED BY <2>1, <2>2, LinksKept
<1>2. CASE CallFails
  BY <1>2, LinksKept DEF CallFails, Return, flags, PairsLinked
<1>3. CASE Connect \/ WaitForSync
  BY <1>3, LinksKept, NodeFacts DEF Connect, WaitForSync, Call, PairsLinked, Node
<1>4. CASE OneTry
  <2>1. UNCHANGED <<call, i, j, result, parted, ends, down>>
    BY <1>4 DEF OneTry, At, flags
  <2>2. trying' \subseteq trying \cup {<<i, j>>} /\ i # j /\ call = "connect"
    BY <1>4 DEF OneTry
  <2>3. AllLinked' <=> AllLinked BY <2>1 DEF AllLinked, Established
  <2>4. EndsMatch' /\ PartedIfDropping' BY <2>1, <2>2 DEF EndsMatch, PartedIfDropping
  <2>5. ASSUME ~parted PROVE InboundLast' /\ ZeroFirst' /\ PairsLinked'
    BY <2>1, <2>2, <2>3, <2>5
       DEF InboundLast, ZeroFirst, PairsLinked, Established
  <2> QED BY <2>1, <2>4, <2>5
<1>5. CASE SeesPeers
  BY <1>5, LinksKept DEF SeesPeers, At, flags, PairsLinked, AllLinked, Established, linkVars
<1>6. CASE SeesPongs
  <2>1. UNCHANGED <<linkVars, down, parted>> /\ call' \in {call, "none"}
    BY <1>6 DEF SeesPongs, NextPair, PairAfter, Return, flags
  <2>2. ASSUME ~parted PROVE PairsLinked'
    BY <1>6, <2>2, PongsLink, NextPairLinks DEF SeesPongs, linkVars
  <2> QED BY <2>1, <2>2, LinksKept
<1>7. CASE Disconnect
  BY <1>7 DEF Disconnect, Call, EndsMatch, PartedIfDropping, linkVars
<1>8. CASE ListPeers \/ (\E l \in Link : DropPeer(l)) \/ AllDropped
  <2>1. parted /\ parted'
    BY <1>8 DEF ListPeers, ListAmong, DropPeer, AllDropped, At, Return, flags, PartedIfDropping
  <2>2. ends' \subseteq ends /\ trying' \subseteq trying
    BY <1>8 DEF ListPeers, ListAmong, DropPeer, AllDropped, linkVars
  <2> QED BY <2>1, <2>2 DEF EndsMatch, PartedIfDropping
<1>9. CASE SeesNoPeer \/ SeesNoPeerBack
  <2>1. UNCHANGED linkVars /\ parted /\ parted'
    BY <1>9 DEF SeesNoPeer, SeesNoPeerBack, At, NextPair, PairAfter, Return, flags,
                PartedIfDropping
  <2> QED BY <2>1 DEF EndsMatch, PartedIfDropping, linkVars
<1>10. CASE ReadHeight
  <2>1. UNCHANGED <<linkVars, down, parted>> /\ call' \in {"sync", "none"}
        /\ result' \in {result, "sync"}
    BY <1>10 DEF ReadHeight, Read, Return, flags
  <2>2. UNCHANGED ends BY <2>1 DEF linkVars
  <2>3. ~parted => PairsLinked'
    BY <2>1, <2>2 DEF PairsLinked, AllLinked, Established
  <2> QED BY <2>1, <2>3, LinksKept
<1>11. CASE \E n \in Node : Generate(n)
  BY <1>11, LinksKept DEF Generate, flags, PairsLinked
<1>12. ASSUME NEW n \in Node, WaitUntilStopped(n) PROVE LinkInv'
  BY <1>12 DEF WaitUntilStopped, EndsMatch, PartedIfDropping
<1>13. ASSUME NEW n \in Node, StartNode(n) PROVE LinkInv'
  <2>1. parted /\ parted' BY <1>13 DEF StartNode, PartedIfDropping, flags
  <2> QED BY <1>13, <2>1 DEF StartNode, EndsMatch, PartedIfDropping, linkVars
<1> QED BY <1>1, <1>2, <1>3, <1>4, <1>5, <1>6, <1>7, <1>8, <1>9, <1>10, <1>11,
           <1>12, <1>13 DEF CallStep

LEMMA LinkInvHolds == Spec => []LinkInv
<1>1. Init => LinkInv
  BY NodeFacts DEF Init, LinkInv, EndsMatch, PartedIfDropping, InboundLast, ZeroFirst,
     PairsLinked
<1>2. TypeOK /\ LinkInv /\ [Next]_vars => LinkInv'
  <2> SUFFICES ASSUME TypeOK, LinkInv, [Next]_vars PROVE LinkInv'
    OBVIOUS
  <2>0. UNCHANGED N BY SizeStays
  <2>1. CASE CallStep BY <2>1, CallLinks
  <2>2. CASE Bitcoind BY <2>2, BitcoindLinks DEF Bitcoind
  <2>3. CASE UNCHANGED vars
    BY <2>0, <2>3, LinksKept, SameNodes
       DEF vars, callVars, linkVars, flags, LinkInv, PairsLinked, AllLinked, Established
  <2> QED BY <2>1, <2>2, <2>3 DEF Next
<1> QED BY <1>1, <1>2, TypeCorrect, PTL DEF Spec

(* However many nodes there are and whatever they announce, the first      *)
(* connect_nodes that returns Ok has linked node 0 to all the others: the  *)
(* pairs of node 0 come first, and until they are done only node 0 can be  *)
(* the inbound peer a node lists, so that its pong means the right link.   *)
THEOREM FirstConnectCorrect == Spec => []FirstConnectLinksAll
<1>1. LinkInv => FirstConnectLinksAll
  BY DEF LinkInv, PairsLinked, AllLinked, FirstConnectLinksAll
<1> QED BY <1>1, LinkInvHolds, PTL

-----------------------------------------------------------------------------
(* Two nodes                                                               *)

(* A call in progress has no result.                                       *)
Pending == call # "none" => result = "none"

(* What has answered a ping is still linked: nothing closes one end of a   *)
(* link by itself.                                                         *)
PongedLinked == \A l \in ponged : Established(l)

(* The pairs connect_nodes has gone through, for two nodes.                *)
PairsPonged ==
  call = "connect" /\ N = 2 /\ i = 1 =>
    <<0, 1>> \in ponged /\ (j = 1 => <<1, 0>> \in ponged)

(* Nothing is being opened where disconnect_nodes is at work, so what it   *)
(* has seen closed stays closed.                                           *)
NoLinks == \A m, n \in Node : ~Linked(m, n)

PairsCut ==
  call = "disconnect" /\ settled => trying = {} /\ (N = 2 /\ i = 1 /\ j = 1 => NoLinks)

PairInv == Pending /\ PongedLinked /\ PairsPonged /\ PairsCut

LEMMA TwoNodes ==
  ASSUME N = 2
  PROVE  Node = {0, 1}
BY DEF Node

(* Of two nodes only the other one can be a peer.                          *)
LEMMA OnePeer ==
  ASSUME N = 2, EndsMatch, i \in Node, j \in Node, i # j
  PROVE  /\ Outbound(i) \subseteq {j} /\ Inbound(j) \subseteq {i}
         /\ Peers(i) \cap Like(j) = {} => NoLinks
         /\ Peers(j) \cap Like(i) = {} => NoLinks
<1>1. /\ Node = {0, 1} /\ {i, j} = {0, 1} /\ \A n \in Node : n = i \/ n = j
  BY TwoNodes
<1>2. Outbound(i) \subseteq {j} /\ Inbound(j) \subseteq {i}
  BY <1>1 DEF Outbound, Inbound, EndsMatch
<1>3. j \in Like(j) /\ i \in Like(i) BY DEF Like
<1>4. \A n \in Node : ~Established(<<n, n>>) BY DEF EndsMatch, Established
<1>5. ASSUME ~Established(<<i, j>>), ~Established(<<j, i>>) PROVE NoLinks
  BY <1>1, <1>4, <1>5 DEF NoLinks, Linked
<1>6. j \notin Peers(i) => ~Established(<<i, j>>) /\ ~Established(<<j, i>>)
  BY DEF Peers, Outbound, Inbound, Established
<1>7. i \notin Peers(j) => ~Established(<<i, j>>) /\ ~Established(<<j, i>>)
  BY DEF Peers, Outbound, Inbound, Established
<1> QED BY <1>2, <1>3, <1>5, <1>6, <1>7

(* Where the loops of a call over two nodes go after a pair.               *)
LEMMA PairOrder ==
  ASSUME TypeOK, NextPair, call \in {"connect", "disconnect"}
  PROVE  /\ UNCHANGED flags
         /\ \/ call' = call /\ UNCHANGED result
            \/ call' = "none" /\ result' = call /\ (N = 2 => i = 1 /\ j = 1)
         /\ N = 2 /\ call' = call =>
              \/ i' = 0
              \/ i = 0 /\ j = 1 /\ i' = 1 /\ j' = 0
              \/ i = 1 /\ j = 0 /\ i' = 1 /\ j' = 1
<1>1. N = 2 => i \in {0, 1} /\ j \in {0, 1} BY TwoNodes DEF TypeOK
<1>2. N = 2 => N - 1 = 1 OBVIOUS
<1>3. CASE j < N - 1
  BY <1>1, <1>2, <1>3 DEF NextPair, PairAfter, flags
<1>4. CASE ~(j < N - 1) /\ i < N - 1
  BY <1>1, <1>2, <1>4 DEF NextPair, PairAfter, flags
<1>5. CASE ~(j < N - 1) /\ ~(i < N - 1)
  BY <1>1, <1>2, <1>5 DEF NextPair, PairAfter, Return, flags
<1> QED BY <1>3, <1>4, <1>5

(* A bitcoind opens no link that was not requested, and closes none that   *)
(* has answered a ping.                                                    *)
LEMMA BitcoindPairs ==
  ASSUME TypeOK, PairInv, NEW l \in Link,
         \/ OutboundOpens(l) \/ InboundOpens(l) \/ OneTryFails(l)
         \/ Pong(l) \/ Relay(l) \/ \E n \in Node : EndCloses(l, n)
  PROVE  PairInv'
<1>0. /\ N \in Sizes /\ N' = N /\ Node' = Node /\ Link' = Link
  BY SameNodes DEF OutboundOpens, InboundOpens, OneTryFails, Pong, Relay, EndCloses,
                   callVars, flags, TypeOK
<1> USE <1>0
<1>1. UNCHANGED callVars /\ trying' \subseteq trying /\ ponged \subseteq ponged'
  BY DEF OutboundOpens, InboundOpens, OneTryFails, Pong, Relay, EndCloses, linkVars
<1>2. PongedLinked'
  <2>1. CASE ends \subseteq ends' /\ \A k \in ponged' : k \in ponged \/ (k = l /\ Established(l))
    BY <2>1 DEF PairInv, PongedLinked, Established
  <2>2. ASSUME NEW n \in Node, EndCloses(l, n) PROVE PongedLinked'
    <3>1. l \notin ponged BY <2>2 DEF EndCloses, PairInv, PongedLinked
    <3>2. \A k \in Link : k # l /\ Established(k) => Established(k)'
      BY <2>2 DEF EndCloses, Established
    <3> QED BY <2>2, <3>1, <3>2 DEF EndCloses, PairInv, PongedLinked, TypeOK
  <2> QED
    BY <2>1, <2>2 DEF OutboundOpens, InboundOpens, OneTryFails, Pong, Relay, linkVars
<1>3. trying = {} /\ NoLinks => NoLinks'
  <2> SUFFICES ASSUME trying = {}, NoLinks PROVE NoLinks' OBVIOUS
  <2>1. ends' \subseteq ends
    BY DEF OutboundOpens, InboundOpens, OneTryFails, Pong, Relay, EndCloses, linkVars
  <2> QED BY <2>1 DEF NoLinks, Linked, Established
<1>4. Pending' /\ PairsPonged' BY <1>1 DEF PairInv, Pending, PairsPonged, callVars
<1>5. PairsCut' BY <1>1, <1>3 DEF PairInv, PairsCut, callVars, flags
<1> QED BY <1>2, <1>4, <1>5 DEF PairInv

(* The calls: each pair of the loops is linked, or cut, before the next.   *)
LEMMA CallPairs ==
  ASSUME TypeOK, LinkInv, PairInv, CallStep
  PROVE  PairInv'
<1>00. /\ N \in Sizes /\ N' = N /\ Node' = Node /\ Link' = Link
  BY SizeStays, SameNodes DEF Next, TypeOK
<1> USE <1>00
<1>0. EndsMatch /\ Pending /\ PongedLinked /\ PairsPonged /\ PairsCut /\ i \in Node /\ j \in Node
  BY DEF LinkInv, PairInv, TypeOK
<1> USE DEF PairInv
<1>1. ASSUME UNCHANGED linkVars PROVE PongedLinked' /\ (NoLinks <=> NoLinks')
  BY <1>0, <1>1 DEF PongedLinked, Established, linkVars, NoLinks, Linked
<1>2. ASSUME call' = "none", UNCHANGED linkVars PROVE PairInv'
  BY <1>1, <1>2 DEF Pending, PairsPonged, PairsCut
<1>3. CASE SkipSelf \/ SeesPongs \/ SeesNoPeerBack
  <2>1. UNCHANGED linkVars /\ NextPair /\ call \in {"connect", "disconnect"}
    BY <1>3 DEF SkipSelf, SeesPongs, SeesNoPeerBack
  <2>2. CASE call' = "none" BY <1>2, <2>1, <2>2
  <2>3. CASE call' = call
    <3>1. UNCHANGED flags /\ UNCHANGED result /\ call # "none"
      BY <2>1, <2>3, PairOrder
    <3>2. Pending' BY <1>0, <2>3, <3>1 DEF Pending
    <3>3. PairsPonged'
      <4> SUFFICES ASSUME call = "connect", N = 2, i' = 1
                   PROVE  (<<0, 1>> \in ponged /\ (j' = 1 => <<1, 0>> \in ponged))
        BY <2>1, <2>3 DEF PairsPonged, linkVars
      <4>1. \/ i = 0 /\ j = 1 /\ j' = 0
            \/ i = 1 /\ j = 0 /\ j' = 1
        BY <2>1, <2>3, PairOrder
      <4>2. SeesPongs BY <1>3, <4>1 DEF SkipSelf, SeesNoPeerBack
      <4>3. Outbound(i) \subseteq {j} BY <1>0, <4>1, OnePeer
      <4>4. <<i, j>> \in ponged BY <4>2, <4>3 DEF SeesPongs
      <4> QED BY <1>0, <4>1, <4>4 DEF PairsPonged
    <3>4. PairsCut'
      <4> SUFFICES ASSUME call = "disconnect", settled
                   PROVE  trying = {} /\ (N = 2 /\ i' = 1 /\ j' = 1 => NoLinks)
        BY <1>1, <2>1, <2>3, <3>1 DEF PairsCut, linkVars, flags
      <4>1. trying = {} BY <1>0 DEF PairsCut
      <4>2. ASSUME N = 2, i' = 1, j' = 1 PROVE NoLinks
        <5>1. i = 1 /\ j = 0 BY <2>1, <2>3, <4>2, PairOrder
        <5>2. SeesNoPeerBack BY <1>3, <5>1 DEF SkipSelf, SeesPongs
        <5> QED BY <1>0, <4>2, <5>1, <5>2, OnePeer DEF SeesNoPeerBack
      <4> QED BY <4>1, <4>2
    <3> QED BY <1>1, <2>1, <3>2, <3>3, <3>4
  <2> QED BY <2>1, <2>2, <2>3, PairOrder
<1>4. CASE CallFails BY <1>2, <1>4 DEF CallFails, Return
<1>5. CASE Connect \/ Disconnect \/ WaitForSync
  <2>1. /\ UNCHANGED linkVars /\ result' = "none" /\ i' = 0 /\ settled' = (trying = {})
        /\ trying' = trying
    BY <1>5 DEF Connect, Disconnect, WaitForSync, Call, linkVars
  <2>2. PongedLinked' BY <1>1, <2>1
  <2>3. settled' => trying' = {} BY <2>1
  <2>4. Pending' /\ PairsPonged' BY <2>1 DEF Pending, PairsPonged
  <2>5. PairsCut' BY <2>1, <2>3 DEF PairsCut
  <2> QED BY <2>2, <2>4, <2>5
<1>6. CASE OneTry \/ SeesPeers \/ SeesNoPeer
  <2>1. /\ UNCHANGED <<call, i, j, result, flags, ends, ponged>>
        /\ call = "disconnect" => UNCHANGED trying
    BY <1>6 DEF OneTry, SeesPeers, SeesNoPeer, At, linkVars
  <2> QED
    BY <1>0, <2>1
    DEF Pending, PongedLinked, Established, PairsPonged, PairsCut, NoLinks, Linked, flags
<1>7. CASE ListPeers \/ AllDropped
  <2>2. CASE Return("disconnect") /\ UNCHANGED linkVars BY <1>2, <2>2 DEF Return
  <2>3. CASE UNCHANGED <<call, i, j, result, settled, linkVars>>
    BY <1>0, <2>3
    DEF Pending, PongedLinked, Established, PairsPonged, PairsCut, NoLinks, Linked, linkVars
  <2> QED BY <1>7, <2>2, <2>3 DEF ListPeers, ListAmong, AllDropped, At, flags
<1>11. ASSUME NEW l \in Link, DropPeer(l) PROVE PairInv'
  <2>1. /\ call = "disconnect" /\ UNCHANGED <<call, i, j, result, settled>>
        /\ ends' = ends \ {<<l, i>>} /\ ponged' = ponged \ {l} /\ trying' = trying \ {l}
    BY <1>11 DEF DropPeer, flags
  <2>2. PongedLinked'
    <3> SUFFICES ASSUME NEW k \in ponged, k # l PROVE Established(k)'
      BY <2>1 DEF PongedLinked
    <3>1. Established(k) BY <1>0 DEF PongedLinked
    <3> QED BY <2>1, <3>1 DEF Established
  <2>3. NoLinks => NoLinks' BY <2>1 DEF NoLinks, Linked, Established
  <2>4. Pending' /\ PairsPonged' BY <1>0, <2>1 DEF Pending, PairsPonged
  <2>5. PairsCut' BY <1>0, <2>1, <2>3 DEF PairsCut
  <2> QED BY <2>2, <2>4, <2>5
<1>8. CASE ReadHeight
  <2>1. /\ UNCHANGED linkVars /\ call = "sync" /\ call' \in {"sync", "none"}
        /\ call' = "sync" => UNCHANGED result
    BY <1>8 DEF ReadHeight, Read, Return
  <2>2. PongedLinked' BY <1>1, <2>1
  <2>3. Pending' /\ PairsPonged' /\ PairsCut'
    BY <1>0, <2>1 DEF Pending, PairsPonged, PairsCut
  <2> QED BY <2>2, <2>3
<1>9. ASSUME NEW n \in Node, Generate(n) \/ StartNode(n) PROVE PairInv'
  <2>1. call' = "none" /\ UNCHANGED linkVars BY <1>9 DEF Generate, StartNode
  <2> QED BY <1>2, <2>1
<1>10. ASSUME NEW n \in Node, WaitUntilStopped(n) PROVE PairInv'
  <2>1. call' = "none" BY <1>10 DEF WaitUntilStopped
  <2>2. PongedLinked'
    <3> SUFFICES ASSUME NEW l \in ponged' PROVE Established(l)' BY DEF PongedLinked
    <3>1. l \in ponged /\ l \notin Links(n) /\ l \in Link
      BY <1>10 DEF WaitUntilStopped, TypeOK
    <3>2. l[1] # n /\ l[2] # n /\ Established(l)
      BY <1>0, <3>1 DEF Links, PongedLinked
    <3> QED BY <1>10, <3>2 DEF WaitUntilStopped, Ends, Established
  <2> QED BY <2>1, <2>2 DEF Pending, PairsPonged, PairsCut
<1> QED BY <1>3, <1>4, <1>5, <1>6, <1>7, <1>8, <1>9, <1>10, <1>11 DEF CallStep

LEMMA PairInvHolds == Spec => []PairInv
<1>1. Init => PairInv
  BY DEF Init, PairInv, Pending, PongedLinked, PairsPonged, PairsCut
<1>2. TypeOK /\ LinkInv /\ PairInv /\ [Next]_vars => PairInv'
  <2> SUFFICES ASSUME TypeOK, LinkInv, PairInv, [Next]_vars PROVE PairInv'
    OBVIOUS
  <2>0. UNCHANGED N /\ Node' = Node BY SizeStays, SameNodes
  <2>1. CASE CallStep BY <2>1, CallPairs
  <2>2. CASE Bitcoind BY <2>2, BitcoindPairs DEF Bitcoind
  <2>3. CASE UNCHANGED vars
    BY <2>0, <2>3
       DEF vars, callVars, linkVars, flags, PairInv, Pending, PongedLinked, Established,
           PairsPonged, PairsCut, NoLinks, Linked
  <2> QED BY <2>1, <2>2, <2>3 DEF Next
<1> QED BY <1>1, <1>2, TypeCorrect, LinkInvHolds, PTL DEF Spec

(* The step by which a call on two nodes returns its own name.             *)
LEMMA Returns ==
  ASSUME TypeOK, PairInv, [Next]_vars, NEW c \in {"connect", "disconnect"},
         call = c, result' = c
  PROVE  \/ ListPeers /\ Peers(i) \cap Like(j) = {} /\ i # j
         \/ (SkipSelf \/ SeesPongs \/ SeesNoPeerBack) /\ (N = 2 => i = 1 /\ j = 1)
<1>1. result # c /\ result = "none" BY DEF PairInv, Pending
<1>2. CASE SkipSelf \/ SeesPongs \/ SeesNoPeerBack
  BY <1>1, <1>2, PairOrder DEF SkipSelf, SeesPongs, SeesNoPeerBack
<1>3. CASE ListPeers BY <1>1, <1>3 DEF ListPeers, ListAmong
<1>4. CASE Bitcoind
  BY <1>1, <1>4 DEF Bitcoind, OutboundOpens, InboundOpens, OneTryFails, Pong, Relay,
                    EndCloses, callVars
<1>5. CASE UNCHANGED vars BY <1>1, <1>5 DEF vars, callVars
<1>6. CASE CallFails \/ Connect \/ OneTry \/ SeesPeers \/ Disconnect \/ SeesNoPeer
           \/ (\E l \in Link : DropPeer(l)) \/ AllDropped \/ WaitForSync \/ ReadHeight
           \/ \E n \in Node : Generate(n) \/ WaitUntilStopped(n) \/ StartNode(n)
  BY <1>1, <1>6 DEF CallFails, Connect, OneTry, SeesPeers, Disconnect, SeesNoPeer, WaitForSync,
                    DropPeer, AllDropped, ReadHeight, Read, Generate, WaitUntilStopped, StartNode, Call, At, Return
<1> QED BY <1>2, <1>3, <1>4, <1>5, <1>6 DEF Next, CallStep

(* Every connect_nodes over two nodes that returns Ok has linked them in   *)
(* both directions, whatever was disconnected or stopped before.           *)
THEOREM ConnectPairCorrect == Spec => ConnectLinksPair
<1> DEFINE Linking == call = "connect" /\ result' = "connect" /\ N = 2 =>
                        Established(<<0, 1>>) /\ Established(<<1, 0>>)
<1>1. ASSUME TypeOK, PairInv, [Next]_vars PROVE Linking
  <2> SUFFICES ASSUME call = "connect", result' = "connect", N = 2
               PROVE  Established(<<0, 1>>) /\ Established(<<1, 0>>)
    OBVIOUS
  <2>1. i = 1 /\ j = 1 BY <1>1, Returns DEF ListPeers, ListAmong
  <2> QED BY <1>1, <2>1 DEF PairInv, PairsPonged, PongedLinked
<1> QED BY <1>1, TypeCorrect, PairInvHolds, PTL DEF Spec, ConnectLinksPair

(* With no more than two nodes, disconnect_nodes returns Ok only when they *)
(* are not linked any more, unless a connection was being opened when it   *)
(* began.  With three nodes it may return at the first pair it looks at.   *)
THEOREM DisconnectPairCorrect == Spec => DisconnectCutsAll
<1> DEFINE Cutting == call = "disconnect" /\ result' = "disconnect" /\ settled /\ N <= 2 =>
                        \A m, n \in Node : ~Linked(m, n)
<1>1. ASSUME TypeOK, LinkInv, PairInv, [Next]_vars PROVE Cutting
  <2> SUFFICES ASSUME call = "disconnect", result' = "disconnect", settled, N <= 2
               PROVE  NoLinks
    BY DEF NoLinks
  <2>0. EndsMatch /\ i \in Node /\ j \in Node BY <1>1 DEF LinkInv, TypeOK
  <2>1. CASE N = 2
    <3>1. CASE Peers(i) \cap Like(j) = {} /\ i # j BY <2>0, <2>1, <3>1, OnePeer
    <3>2. CASE i = 1 /\ j = 1 BY <1>1, <2>1, <3>2 DEF PairInv, PairsCut
    <3> QED BY <1>1, <2>1, <3>1, <3>2, Returns
  <2>2. CASE N # 2
    <3>1. Node = {0} BY <1>1, <2>2, NodeFacts DEF Node, TypeOK
    <3> QED BY <2>0, <3>1 DEF NoLinks, Linked, Established, EndsMatch
  <2> QED BY <2>1, <2>2
<1> QED BY <1>1, TypeCorrect, LinkInvHolds, PairInvHolds, PTL DEF Spec, DisconnectCutsAll

-----------------------------------------------------------------------------
(* wait_for_sync                                                           *)

(* A block of node 0 is nowhere higher than the chain of node 0 itself.    *)
MinedByZero ==
  \A n \in Node : \A h \in DOMAIN chain[n] : chain[n][h] = 0 => h <= Len(chain[0])

(* Node 0 has only its own blocks.                                         *)
OwnChain == \A h \in DOMAIN chain[0] : chain[0][h] = 0

(* Of every node asked in this round a height it still has was read; that  *)
(* of node 0 is still its own, unless it took over the blocks of another.  *)
HeightsRead ==
  call = "sync" /\ i > 0 =>
    /\ OwnChain => Len(chain[0]) \in read
    /\ \A k \in Node : k < i => \E h \in read : h <= Len(chain[k])

(* Nodes called synced are no lower than node 0.                           *)
NoneBehind ==
  result = "sync" /\ OwnChain => \A k \in Node : Len(chain[0]) <= Len(chain[k])

SyncInv == MinedByZero /\ HeightsRead /\ NoneBehind

LEMMA ChainFacts ==
  ASSUME TypeOK
  PROVE  \A n \in Node : /\ chain[n] \in Seq(Node) /\ Len(chain[n]) \in Nat
                         /\ DOMAIN chain[n] = 1 .. Len(chain[n])
BY DEF TypeOK

(* A block mined by a node.                                                *)
LEMMA GenerateSync ==
  ASSUME TypeOK, SyncInv, NEW n \in Node, Generate(n)
  PROVE  SyncInv'
<1>0. /\ N \in Sizes /\ N' = N /\ Node' = Node /\ Link' = Link
  BY SameNodes DEF Generate, flags, TypeOK
<1> USE <1>0
<1> USE NodeFacts, ChainFacts
<1>1. /\ chain'[n] = Append(chain[n], n)
      /\ \A k \in Node \ {n} : chain'[k] = chain[k]
      /\ call' = "none" /\ result' = "none"
  BY DEF Generate, TypeOK
<1>2. /\ Len(chain'[n]) = Len(chain[n]) + 1
      /\ DOMAIN chain'[n] = 1 .. Len(chain[n]) + 1
      /\ chain'[n][Len(chain[n]) + 1] = n
      /\ \A h \in DOMAIN chain[n] : chain'[n][h] = chain[n][h]
  BY <1>1
<1>3. Len(chain[0]) <= Len(chain'[0])
  BY <1>1, <1>2
<1>4. ASSUME NEW k \in Node, NEW h \in DOMAIN chain'[k], chain'[k][h] = 0
      PROVE  h <= Len(chain'[0])
  <2>1. CASE k # n
    <3>1. chain'[k] = chain[k] BY <1>1, <2>1
    <3>2. h \in DOMAIN chain[k] /\ chain[k][h] = 0 /\ h \in Nat BY <1>4, <3>1
    <3>3. h <= Len(chain[0]) BY <3>2 DEF SyncInv, MinedByZero
    <3>4. Len(chain'[0]) \in Nat BY <1>1, <1>2
    <3> QED BY <1>3, <3>2, <3>3, <3>4
  <2>2. CASE k = n /\ h \in DOMAIN chain[n]
    <3>1. chain[n][h] = 0 /\ h \in Nat BY <1>2, <1>4, <2>2
    <3>2. h <= Len(chain[0]) BY <2>2, <3>1 DEF SyncInv, MinedByZero
    <3>3. Len(chain'[0]) \in Nat BY <1>1, <1>2
    <3> QED BY <1>3, <3>1, <3>2, <3>3
  <2>3. CASE k = n /\ h \notin DOMAIN chain[n]
    <3>1. h = Len(chain[n]) + 1 BY <1>2, <1>4, <2>3
    <3>2. n = 0 BY <1>2, <1>4, <2>3, <3>1
    <3> QED BY <1>2, <3>1, <3>2
  <2> QED BY <2>1, <2>2, <2>3
<1>5. MinedByZero' BY <1>4 DEF MinedByZero
<1> QED BY <1>1, <1>5 DEF SyncInv, HeightsRead, NoneBehind

(* A node that adopts a longer chain: when it is node 0, the last block of *)
(* that chain is not its own.                                              *)
LEMMA RelaySync ==
  ASSUME TypeOK, SyncInv, NEW l \in Link, Relay(l)
  PROVE  SyncInv'
<1>0. /\ N \in Sizes /\ N' = N /\ Node' = Node /\ Link' = Link
  BY SameNodes DEF Relay, callVars, flags, TypeOK
<1> USE <1>0
<1> USE NodeFacts, ChainFacts
<1>1. PICK m \in Node, n \in Node : /\ Len(chain[m]) > Len(chain[n])
                                    /\ chain' = [chain EXCEPT ![n] = chain[m]]
  BY DEF Relay, Link
<1>2. /\ chain'[n] = chain[m] /\ UNCHANGED callVars
      /\ \A k \in Node \ {n} : chain'[k] = chain[k]
  BY <1>1 DEF Relay, TypeOK
<1>3. \A k \in Node : Len(chain'[k]) \in Nat /\ Len(chain[k]) <= Len(chain'[k])
  BY <1>1, <1>2
<1>4. MinedByZero'
  <2> SUFFICES ASSUME NEW k \in Node, NEW h \in DOMAIN chain'[k], chain'[k][h] = 0
               PROVE  h <= Len(chain'[0])
    BY DEF MinedByZero
  <2>1. PICK s \in Node : chain'[k] = chain[s] BY <1>2
  <2>2. h \in DOMAIN chain[s] /\ chain[s][h] = 0 /\ h \in Nat BY <2>1
  <2>3. h <= Len(chain[0]) BY <2>2 DEF SyncInv, MinedByZero
  <2> QED BY <1>3, <2>2, <2>3
<1>5. OwnChain' => n # 0 /\ chain'[0] = chain[0]
  <2>1. CASE n # 0 BY <1>2, <2>1
  <2>2. CASE n = 0
    <3> DEFINE last == Len(chain[m])
    <3>1. last \in DOMAIN chain[m] /\ last > Len(chain[0]) BY <1>1, <2>2
    <3>2. chain[m][last] # 0 BY <3>1 DEF SyncInv, MinedByZero
    <3>3. chain'[0] = chain[m] BY <1>2, <2>2
    <3> QED BY <3>1, <3>2, <3>3 DEF OwnChain
  <2> QED BY <2>1, <2>2
<1>6. OwnChain' => OwnChain BY <1>5 DEF OwnChain
<1>7. UNCHANGED <<call, i, read, result>> BY <1>2 DEF callVars
<1>8. HeightsRead'
  <2> SUFFICES ASSUME call = "sync", i > 0
               PROVE  /\ OwnChain' => Len(chain'[0]) \in read
                      /\ \A k \in Node : k < i => \E h \in read : h <= Len(chain'[k])
    BY <1>7 DEF HeightsRead
  <2>1. OwnChain' => Len(chain'[0]) \in read
    BY <1>5, <1>6 DEF SyncInv, HeightsRead
  <2>2. ASSUME NEW k \in Node, k < i PROVE \E h \in read : h <= Len(chain'[k])
    <3>1. PICK h \in read : h <= Len(chain[k]) BY <2>2 DEF SyncInv, HeightsRead
    <3>2. h \in Nat BY DEF TypeOK
    <3> QED BY <1>3, <3>1, <3>2
  <2> QED BY <2>1, <2>2
<1>9. NoneBehind'
  <2> SUFFICES ASSUME result = "sync", OwnChain', NEW k \in Node
               PROVE  Len(chain'[0]) <= Len(chain'[k])
    BY <1>7 DEF NoneBehind
  <2>1. Len(chain[0]) <= Len(chain[k]) /\ chain'[0] = chain[0]
    BY <1>5, <1>6 DEF SyncInv, NoneBehind
  <2> QED BY <1>3, <2>1
<1> QED BY <1>4, <1>8, <1>9 DEF SyncInv

(* A height read: the next node is asked, the call returns, or the round   *)
(* begins again.                                                           *)
LEMMA ReadSync ==
  ASSUME TypeOK, Pending, SyncInv, ReadHeight
  PROVE  SyncInv'
<1>0. /\ N \in Sizes /\ N' = N /\ Node' = Node /\ Link' = Link
  BY SameNodes DEF ReadHeight, Read, Return, flags, TypeOK
<1> USE <1>0
<1> USE NodeFacts, ChainFacts
<1>1. /\ UNCHANGED chain /\ call = "sync" /\ result = "none" /\ i \in Node
      /\ OwnChain' <=> OwnChain
  BY DEF ReadHeight, Read, Pending, TypeOK, OwnChain
<1>2. MinedByZero' BY <1>1 DEF SyncInv, MinedByZero
<1>3. /\ OwnChain => Len(chain[0]) \in Heights
      /\ \A k \in Node : k <= i => \E h \in Heights : h <= Len(chain[k])
  <2>1. Len(chain[i]) \in Heights /\ read \subseteq Heights BY DEF Heights
  <2>2. OwnChain => Len(chain[0]) \in Heights
    <3>1. CASE i = 0 BY <2>1, <3>1
    <3>2. CASE i # 0
      <4>1. i > 0 BY <1>1, <3>2
      <4> QED BY <1>1, <2>1, <4>1 DEF SyncInv, HeightsRead
    <3> QED BY <3>1, <3>2
  <2>3. ASSUME NEW k \in Node, k <= i PROVE \E h \in Heights : h <= Len(chain[k])
    <3>1. CASE k = i BY <2>1, <3>1
    <3>2. CASE k # i
      <4>1. i > 0 /\ k < i BY <1>1, <2>3, <3>2
      <4> QED BY <1>1, <2>1, <4>1 DEF SyncInv, HeightsRead
    <3> QED BY <3>1, <3>2
  <2> QED BY <2>2, <2>3
<1>4. CASE i + 1 < N
  <2>1. read' = Heights /\ i' = i + 1 /\ UNCHANGED <<call, result>>
    BY <1>4 DEF ReadHeight, Read
  <2>2. ASSUME NEW k \in Node, k < i + 1 PROVE k <= i
    <3>1. k \in Nat /\ i \in Nat BY <1>1
    <3> QED BY <2>2, <3>1
  <2>3. HeightsRead' BY <1>1, <1>3, <2>1, <2>2 DEF HeightsRead
  <2>4. NoneBehind' BY <1>1, <2>1 DEF NoneBehind
  <2> QED BY <1>2, <2>3, <2>4 DEF SyncInv
<1>5. CASE ~(i + 1 < N) /\ \A g, h \in Heights : g = h
  <2>1. call' = "none" BY <1>5 DEF ReadHeight, Read, Return
  <2>2. \A k \in Node : k <= i BY <1>1, <1>5 DEF Node
  <2>3. OwnChain => \A k \in Node : Len(chain[0]) <= Len(chain[k])
    BY <1>3, <1>5, <2>2
  <2>4. NoneBehind' BY <1>1, <2>3 DEF NoneBehind
  <2> QED BY <1>2, <2>1, <2>4 DEF SyncInv, HeightsRead
<1>6. CASE ~(i + 1 < N) /\ ~(\A g, h \in Heights : g = h)
  <2>1. i' = 0 /\ UNCHANGED result BY <1>6 DEF ReadHeight, Read
  <2>2. NoneBehind' BY <1>1, <2>1 DEF NoneBehind
  <2> QED BY <1>2, <2>1, <2>2 DEF SyncInv, HeightsRead
<1> QED BY <1>4, <1>5, <1>6

LEMMA SyncInvHolds == Spec => []SyncInv
<1>1. Init => SyncInv
  BY NodeFacts DEF Init, SyncInv, MinedByZero, HeightsRead, NoneBehind
<1>2. TypeOK /\ Pending /\ SyncInv /\ [Next]_vars => SyncInv'
  <2> SUFFICES ASSUME TypeOK, Pending, SyncInv, [Next]_vars PROVE SyncInv'
    OBVIOUS
  <2>0. UNCHANGED N /\ Node' = Node BY SizeStays, SameNodes
  <2>1. ASSUME UNCHANGED chain, call' # "sync" \/ i' = 0 \/ UNCHANGED <<call, i, read>>,
               result' # "sync" \/ UNCHANGED result
        PROVE  SyncInv'
    <3>1. OwnChain' <=> OwnChain BY <2>1 DEF OwnChain
    <3> QED BY <2>0, <2>1, <3>1 DEF SyncInv, MinedByZero, HeightsRead, NoneBehind
  <2>2. CASE SkipSelf \/ SeesPongs \/ SeesNoPeerBack
    <3>1. /\ UNCHANGED chain /\ NextPair /\ call \in {"connect", "disconnect"}
      BY <2>2 DEF SkipSelf, SeesPongs, SeesNoPeerBack
    <3> QED BY <2>1, <3>1, PairOrder
  <2>3. CASE \/ CallFails \/ Connect \/ OneTry \/ SeesPeers \/ Disconnect \/ ListPeers
             \/ (\E l \in Link : DropPeer(l)) \/ AllDropped \/ SeesNoPeer \/ WaitForSync
             \/ \E n \in Node : WaitUntilStopped(n) \/ StartNode(n)
    BY <2>1, <2>3
       DEF CallFails, Connect, OneTry, SeesPeers, Disconnect, ListPeers, ListAmong, DropPeer,
           AllDropped, SeesNoPeer,
           WaitForSync, WaitUntilStopped, StartNode, Call, At, Return
  <2>4. CASE ReadHeight BY <2>4, ReadSync
  <2>5. ASSUME NEW n \in Node, Generate(n) PROVE SyncInv' BY <2>5, GenerateSync
  <2>6. ASSUME NEW l \in Link, \/ OutboundOpens(l) \/ InboundOpens(l) \/ OneTryFails(l)
                               \/ Pong(l) \/ \E n \in Node : EndCloses(l, n)
        PROVE  SyncInv'
    BY <2>1, <2>6 DEF OutboundOpens, InboundOpens, OneTryFails, Pong, EndCloses, callVars
  <2>7. ASSUME NEW l \in Link, Relay(l) PROVE SyncInv' BY <2>7, RelaySync
  <2>8. CASE UNCHANGED vars BY <2>1, <2>8 DEF vars, callVars
  <2> QED BY <2>2, <2>3, <2>4, <2>5, <2>6, <2>7, <2>8 DEF Next, CallStep, Bitcoind
<1>3. PairInv => Pending BY DEF PairInv
<1> QED BY <1>1, <1>2, <1>3, TypeCorrect, PairInvHolds, PTL DEF Spec

(* Nodes that wait_for_sync calls synced have the same chain when only     *)
(* node 0 has mined, although their heights are read one after the other   *)
(* while blocks travel: a chain is never higher than that of node 0, and   *)
(* none was lower when it was read.                                        *)
THEOREM SyncCorrect == Spec => []SyncedIfOneMiner
<1>1. ASSUME TypeOK, SyncInv PROVE SyncedIfOneMiner
  <2> SUFFICES ASSUME result = "sync",
                      \A n \in Node : \A h \in DOMAIN chain[n] : chain[n][h] = 0,
                      NEW m \in Node, NEW n \in Node
               PROVE  chain[m] = chain[n]
    BY DEF SyncedIfOneMiner
  <2>0. N \in Sizes BY <1>1 DEF TypeOK
  <2> USE <2>0, NodeFacts, ChainFacts
  <2>1. OwnChain BY <1>1 DEF OwnChain
  <2>2. \A k \in Node : Len(chain[k]) = Len(chain[0])
    <3> TAKE k \in Node
    <3>1. Len(chain[0]) <= Len(chain[k]) BY <1>1, <2>1 DEF SyncInv, NoneBehind
    <3>2. Len(chain[k]) <= Len(chain[0])
      <4>1. CASE Len(chain[k]) = 0 BY <1>1, <4>1
      <4>2. CASE Len(chain[k]) # 0
        <5>1. Len(chain[k]) \in DOMAIN chain[k] BY <1>1, <4>2
        <5>2. chain[k][Len(chain[k])] = 0 BY <5>1
        <5> QED BY <1>1, <5>1, <5>2 DEF SyncInv, MinedByZero
      <4> QED BY <4>1, <4>2
    <3> QED BY <1>1, <3>1, <3>2
  <2>3. \A h \in 1 .. Len(chain[0]) : chain[m][h] = chain[n][h] BY <1>1, <2>2
  <2>4. chain[m] \in Seq(Node) /\ chain[n] \in Seq(Node) BY <1>1
  <2>5. Len(chain[m]) = Len(chain[n]) /\ Len(chain[m]) = Len(chain[0]) BY <2>2
  <2> QED BY <2>3, <2>4, <2>5, SeqEqual
<1> QED BY <1>1, TypeCorrect, SyncInvHolds, PTL
=============================================================================
