--------------------------- MODULE BitcoinNetwork ---------------------------
(***************************************************************************)
(* The regtest network of a BitcoinNodeCluster (src/src/bitcoin.rs): how   *)
(* connect_nodes and disconnect_nodes drive the peers of every bitcoind    *)
(* over RPC, and what wait_for_sync concludes from their heights.          *)
(*                                                                         *)
(* bitcoind is external.  A link <<a, b>> was requested by a; each of its  *)
(* ends is listed by getpeerinfo of its node from the time that end opens  *)
(* until it closes, and the two do not open or close together.  A chain is *)
(* the sequence of the miners of its blocks above the common part; a node  *)
(* adopts a peer's chain when it is longer than its own.  A node that is   *)
(* stopped loses its connections and keeps its chain; nothing reconnects   *)
(* it when it is started again.                                            *)
(***************************************************************************)
EXTENDS Naturals, Sequences

CONSTANTS
  Sizes,       \* the numbers of bitcoin nodes a test case may ask for
  Subver,      \* the subversion each node announces; one binary gives one value
  MaxHeight    \* bound: blocks mined above the common chain

ASSUME NetworkAssumption ==
  /\ Sizes \subseteq Nat \ {0}
  /\ MaxHeight \in Nat

VARIABLES
  N,           \* n_nodes of the test case, which nothing changes
  call,        \* the call the test is in: "none", "connect", "disconnect", "sync"
  step,        \* where that call is
  i, j,        \* its from_node and to_node; in "sync", i is the node asked next
  read,        \* the heights wait_for_sync has read in this round
  ids,         \* peers disconnect_nodes has still to drop, as the links they are ends of
  result,      \* of the last call: the call's name when Ok, "err" or "none"
  parted,      \* at some time disconnect_nodes was called or a node stopped
  settled,     \* no requested link was undecided when the last call began
  trying,      \* links requested by addnode onetry and not decided yet
  ends,        \* <<l, n>>: node n lists link l among its peers
  ponged,      \* links over which both sides have received a pong
  down,        \* nodes the test has stopped and not started again
  chain        \* each node's active chain

Node == 0 .. N - 1
Link == Node \X Node

flags == <<N, parted, settled>>
callVars == <<call, step, i, j, read, ids, result, flags>>
linkVars == <<trying, ends, ponged>>
vars == <<callVars, linkVars, down, chain>>

TypeOK ==
  /\ N \in Sizes
  /\ call \in {"none", "connect", "disconnect", "sync"}
  /\ step \in {"start", "peers", "pong", "drop", "gone", "gone_back", "read"}
  /\ i \in Node /\ j \in Node
  /\ read \subseteq Nat /\ ids \subseteq Link
  /\ result \in {"none", "connect", "disconnect", "sync", "err"}
  /\ parted \in BOOLEAN /\ settled \in BOOLEAN
  /\ trying \subseteq Link /\ ponged \subseteq Link
  /\ ends \subseteq Link \X Node
  /\ down \subseteq Node
  /\ chain \in [Node -> Seq(Node)]

Init ==
  /\ N \in Sizes
  /\ call = "none" /\ step = "start" /\ i = 0 /\ j = 0 /\ read = {} /\ ids = {}
  /\ result = "none" /\ parted = FALSE /\ settled = TRUE
  /\ trying = {} /\ ends = {} /\ ponged = {} /\ down = {}
  /\ chain = [n \in Node |-> <<>>]

-----------------------------------------------------------------------------
(* What getpeerinfo of a node lists                                        *)

Outbound(n) == {k \in Node : <<<<n, k>>, n>> \in ends}
Inbound(n)  == {k \in Node : <<<<k, n>>, n>> \in ends}
Peers(n)    == Outbound(n) \cup Inbound(n)

(* Peers are told apart by their subversion only.                          *)
Like(n) == {k \in Node : Subver[k] = Subver[n]}

-----------------------------------------------------------------------------
(* Calls: their start, the nested loops over from_node and to_node, their  *)
(* end.                                                                    *)

Call(name, first) ==
  /\ call = "none"
  /\ call' = name /\ step' = first
  /\ i' = 0 /\ j' = 0 /\ read' = {} /\ ids' = {}
  /\ result' = "none"
  /\ settled' = (trying = {})
  /\ UNCHANGED N

Return(r) ==
  /\ call' = "none" /\ step' = "start" /\ i' = 0 /\ j' = 0 /\ read' = {} /\ ids' = {}
  /\ result' = r
  /\ UNCHANGED flags

(* The next pair of the loops, to_node up to `last`, or the end of the     *)
(* call.                                                                   *)
PairAfter(last) ==
  IF j < last
  THEN step' = "start" /\ j' = j + 1 /\ UNCHANGED <<call, i, read, ids, result, flags>>
  ELSE IF i < N - 1
  THEN step' = "start" /\ i' = i + 1 /\ j' = 0
       /\ UNCHANGED <<call, read, ids, result, flags>>
  ELSE Return(call)

(* Mutant: the loop over to_node runs one too far.                         *)
NextPairPastEnd == PairAfter(N)

NextPair == PairAfter(N - 1)

At(label) == step' = label /\ UNCHANGED <<call, i, j, read, ids, result, flags>>

SkipSelf ==
  /\ call \in {"connect", "disconnect"} /\ step = "start" /\ i = j
  /\ NextPair
  /\ UNCHANGED <<linkVars, down, chain>>

(* Any RPC of a call may fail, as it does when its node is down, and a     *)
(* wait_until may run into its timeout.                                    *)
CallFails ==
  /\ call # "none"
  /\ Return("err")
  /\ UNCHANGED <<linkVars, down, chain>>

-----------------------------------------------------------------------------
(* connect_nodes                                                           *)

Connect ==
  /\ Call("connect", "start")
  /\ UNCHANGED <<parted, linkVars, down, chain>>

(* Mutant: a pair with a peer of the right subversion counts as connected. *)
OneTryUnlessConnected ==
  /\ call = "connect" /\ step = "start" /\ i # j /\ i \notin down
  /\ IF Peers(i) \cap Like(j) # {}
     THEN NextPair /\ UNCHANGED trying
     ELSE At("peers") /\ trying' = trying \cup {<<i, j>>}
  /\ UNCHANGED <<ends, ponged, down, chain>>

(* onetry only asks: bitcoind opens the connection later, or does not; it  *)
(* ignores a request for an address it is connected to.                    *)
OneTry ==
  /\ call = "connect" /\ step = "start" /\ i # j /\ i \notin down
  /\ trying' = IF j \in Outbound(i) THEN trying ELSE trying \cup {<<i, j>>}
  /\ At("peers")
  /\ UNCHANGED <<ends, ponged, down, chain>>

(* Both ends list a peer of the right direction and subversion.            *)
SeesPeers ==
  /\ call = "connect" /\ step = "peers" /\ {i, j} \cap down = {}
  /\ Outbound(i) \cap Like(j) # {}
  /\ Inbound(j) \cap Like(i) # {}
  /\ At("pong")
  /\ UNCHANGED <<linkVars, down, chain>>

(* Mutant: the call returns after its first pair, as disconnect_nodes may. *)
SeesPongsAndReturns ==
  /\ call = "connect" /\ step = "pong" /\ {i, j} \cap down = {}
  /\ \E k \in Outbound(i) \cap Like(j) : <<i, k>> \in ponged
  /\ \E k \in Inbound(j) \cap Like(i) : <<k, j>> \in ponged
  /\ Return(call)
  /\ UNCHANGED <<linkVars, down, chain>>

(* The first such peer on each side has answered a ping.                   *)
SeesPongs ==
  /\ call = "connect" /\ step = "pong" /\ {i, j} \cap down = {}
  /\ \E k \in Outbound(i) \cap Like(j) : <<i, k>> \in ponged
  /\ \E k \in Inbound(j) \cap Like(i) : <<k, j>> \in ponged
  /\ NextPair
  /\ UNCHANGED <<linkVars, down, chain>>

-----------------------------------------------------------------------------
(* disconnect_nodes                                                        *)

Disconnect ==
  /\ Call("disconnect", "start")
  /\ parted' = TRUE
  /\ UNCHANGED <<linkVars, down, chain>>

(* peer_ids: the peers of from_node with the subversion of to_node; when   *)
(* there is none among `peers` the whole call returns.                     *)
ListAmong(peers) ==
  /\ call = "disconnect" /\ step = "start" /\ i # j /\ i \notin down
  /\ IF peers \cap Like(j) = {}
     THEN Return("disconnect")
     ELSE /\ step' = "drop"
          /\ ids' = {l \in Link : <<l, i>> \in ends /\ {l[1], l[2]} \ {i} \subseteq Like(j)}
          /\ UNCHANGED <<call, i, j, read, result, flags>>
  /\ UNCHANGED <<linkVars, down, chain>>

(* Mutant: only outbound peers are looked for.                             *)
ListOutbound == ListAmong(Outbound(i))

ListPeers == ListAmong(Peers(i))

(* disconnect_node_by_id, id by id.  That a peer is gone already ("Node    *)
(* not found") is ignored; any other error ends the call half way.         *)
DropPeer(l) ==
  /\ call = "disconnect" /\ step = "drop"
  /\ l \in ids
  /\ ids' = ids \ {l}
  /\ ends' = ends \ {<<l, i>>}
  /\ ponged' = ponged \ {l} /\ trying' = trying \ {l}
  /\ UNCHANGED <<call, step, i, j, read, result, flags, down, chain>>

AllDropped ==
  /\ call = "disconnect" /\ step = "drop" /\ ids = {}
  /\ At("gone")
  /\ UNCHANGED <<linkVars, down, chain>>

(* wait_until test_connection(from, to, false), then the other way round.  *)
SeesNoPeer ==
  /\ call = "disconnect" /\ step = "gone" /\ i \notin down
  /\ Peers(i) \cap Like(j) = {}
  /\ At("gone_back")
  /\ UNCHANGED <<linkVars, down, chain>>

SeesNoPeerBack ==
  /\ call = "disconnect" /\ step = "gone_back" /\ j \notin down
  /\ Peers(j) \cap Like(i) = {}
  /\ NextPair
  /\ UNCHANGED <<linkVars, down, chain>>

-----------------------------------------------------------------------------
(* wait_for_sync: one get_block_count per node and round, equal heights    *)
(* end it.                                                                 *)

WaitForSync ==
  /\ Call("sync", "read")
  /\ UNCHANGED <<parted, linkVars, down, chain>>

Heights == read \cup {Len(chain[i])}

(* The next node is asked; the last one decides.                           *)
Read(synced) ==
  /\ call = "sync" /\ step = "read" /\ i \notin down
  /\ IF i + 1 < N
     THEN read' = Heights /\ i' = i + 1 /\ UNCHANGED <<call, step, j, ids, result, flags>>
     ELSE IF synced
     THEN Return("sync")
     ELSE read' = {} /\ i' = 0 /\ UNCHANGED <<call, step, j, ids, result, flags>>
  /\ UNCHANGED <<linkVars, down, chain>>

(* Mutant: the heights may differ by one.                                  *)
ReadAlmostEqual == Read(\A g, h \in Heights : g <= h + 1)

ReadHeight == Read(\A g, h \in Heights : g = h)

(* The test mines on a node between two calls.                             *)
Generate(n) ==
  /\ call = "none" /\ n \notin down
  /\ Len(chain[n]) < MaxHeight
  /\ chain' = [chain EXCEPT ![n] = Append(@, n)]
  /\ result' = "none"
  /\ UNCHANGED <<call, step, i, j, read, ids, flags, linkVars, down>>

-----------------------------------------------------------------------------
(* Restart for BitcoinNode                                                 *)

Ends(n) == {e \in ends : e[2] = n}
Links(n) == {l \in Link : n \in {l[1], l[2]}}

(* wait_until_stopped: the RPC `stop`, the signal, and the wait for the    *)
(* process or the container to be gone.  The other ends of its connections *)
(* close later.                                                            *)
WaitUntilStopped(n) ==
  /\ call = "none" /\ n \notin down
  /\ down' = down \cup {n}
  /\ ends' = ends \ Ends(n)
  /\ ponged' = ponged \ Links(n)
  /\ trying' = trying \ Links(n)
  /\ parted' = TRUE /\ result' = "none"
  /\ UNCHANGED <<N, call, step, i, j, read, ids, settled, chain>>

(* start: a new process with the same data directory and wait_for_ready.   *)
StartNode(n) ==
  /\ call = "none" /\ n \in down
  /\ down' = down \ {n}
  /\ result' = "none"
  /\ UNCHANGED <<call, step, i, j, read, ids, flags, linkVars, chain>>

-----------------------------------------------------------------------------
(* bitcoind                                                                *)

OutboundOpens(l) ==
  /\ l \in trying /\ l[2] \notin down
  /\ <<l, l[1]>> \notin ends /\ <<l, l[2]>> \notin ends
  /\ ends' = ends \cup {<<l, l[1]>>}
  /\ UNCHANGED <<callVars, trying, ponged, down, chain>>

InboundOpens(l) ==
  /\ l \in trying
  /\ <<l, l[1]>> \in ends
  /\ trying' = trying \ {l}
  /\ ends' = ends \cup {<<l, l[2]>>}
  /\ UNCHANGED <<callVars, ponged, down, chain>>

OneTryFails(l) ==
  /\ l \in trying
  /\ <<l, l[1]>> \notin ends
  /\ trying' = trying \ {l}
  /\ UNCHANGED <<callVars, ends, ponged, down, chain>>

Established(l) == <<l, l[1]>> \in ends /\ <<l, l[2]>> \in ends

Pong(l) ==
  /\ Established(l) /\ l \notin ponged
  /\ ponged' = ponged \cup {l}
  /\ UNCHANGED <<callVars, trying, ends, down, chain>>

(* An end whose other end was dropped closes too.                          *)
EndCloses(l, n) ==
  /\ <<l, n>> \in ends
  /\ l \notin trying /\ ~Established(l)
  /\ ends' = ends \ {<<l, n>>}
  /\ UNCHANGED <<callVars, trying, ponged, down, chain>>

Relay(l) ==
  /\ Established(l)
  /\ \E m, n \in {l[1], l[2]} :
       /\ Len(chain[m]) > Len(chain[n])
       /\ chain' = [chain EXCEPT ![n] = chain[m]]
  /\ UNCHANGED <<callVars, linkVars, down>>

-----------------------------------------------------------------------------

CallStep ==
  \/ SkipSelf \/ CallFails
  \/ Connect \/ OneTry \/ SeesPeers \/ SeesPongs
  \/ Disconnect \/ ListPeers \/ (\E l \in Link : DropPeer(l)) \/ AllDropped \/ SeesNoPeer \/ SeesNoPeerBack
  \/ WaitForSync \/ ReadHeight
  \/ \E n \in Node : Generate(n) \/ WaitUntilStopped(n) \/ StartNode(n)

Bitcoind ==
  \E l \in Link :
    \/ OutboundOpens(l) \/ InboundOpens(l) \/ OneTryFails(l) \/ Pong(l) \/ Relay(l)
    \/ \E n \in Node : EndCloses(l, n)

Next == CallStep \/ Bitcoind

Spec == Init /\ [][Next]_vars

-----------------------------------------------------------------------------
(* Properties                                                              *)

Linked(m, n) == Established(<<m, n>>) \/ Established(<<n, m>>)

(* The first connect_nodes of a test that returns Ok has linked node 0, on *)
(* which the test mines and which the Citrea nodes use, to all the others: *)
(* enough for every block to reach every node, although the later pairs    *)
(* of the loop accept any peer with the right subversion.                  *)
FirstConnectLinksAll ==
  result = "connect" /\ ~parted => \A n \in Node \ {0} : Established(<<0, n>>)

(* With no more than two nodes, the case the tests use, disconnect_nodes   *)
(* returns Ok only when no two nodes are linked any more, unless a         *)
(* connection requested earlier was still being opened.  With three it may *)
(* return at the first pair it looks at.                                   *)
DisconnectCutsAll ==
  [][ call = "disconnect" /\ result' = "disconnect" /\ settled /\ N <= 2 =>
        \A m, n \in Node : ~Linked(m, n)
    ]_vars

(* With two nodes every connect_nodes that returns Ok has linked them,     *)
(* whatever was disconnected, stopped or refused before.                   *)
ConnectLinksPair ==
  [][ call = "connect" /\ result' = "connect" /\ N = 2 =>
        Established(<<0, 1>>) /\ Established(<<1, 0>>)
    ]_vars

(* Nodes that wait_for_sync calls synced, on a network where only node 0   *)
(* has mined, have the same chain.                                         *)
SyncedIfOneMiner ==
  result = "sync" /\ (\A n \in Node : \A h \in DOMAIN chain[n] : chain[n][h] = 0)
    => \A m, n \in Node : chain[m] = chain[n]
=============================================================================
