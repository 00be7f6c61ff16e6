------------------------------ MODULE Topology ------------------------------
(***************************************************************************)
(* The addresses a test hands to its nodes: the host and port in every URL *)
(* that generate_test_config (src/src/framework.rs) and the Clementine     *)
(* configuration write into a config, where each node then runs, and       *)
(* whether the URL leads from there to the node it was meant for, at first *)
(* and after restarts that move a node between docker and the host.        *)
(*                                                                         *)
(* get_available_port is taken to give every node ports of its own, so     *)
(* that a port is the node it belongs to.  A URL is the role it plays in   *)
(* the config, a host and a port.                                          *)
(***************************************************************************)
EXTENDS Naturals, FiniteSets

CONSTANTS
  MaxBitcoins, MaxSequencers, MaxVerifiers, MaxOperators,  \* bounds: nodes of a kind
  Optional,       \* kinds a test may ask for or not, besides the sequencer
  MaxRestarts     \* bound: restarts in one test

ASSUME TopologyAssumption ==
  /\ MaxBitcoins \in Nat \ {0} /\ MaxSequencers \in Nat \ {0}
  /\ MaxVerifiers \in Nat /\ MaxOperators \in Nat /\ MaxRestarts \in Nat
  /\ Optional \subseteq {"batch-prover", "light-client-prover", "full-node"}

(* TestCaseConfig: n_nodes, with_*, n_verifiers and n_operators (0 when    *)
(* with_clementine is false), and TestCaseDockerConfig.                    *)
TestCase ==
  [bitcoin : BOOLEAN, citrea : BOOLEAN, clementine : BOOLEAN,
   bitcoins : 1 .. MaxBitcoins, sequencers : 1 .. MaxSequencers,
   with : SUBSET Optional,
   verifiers : 0 .. MaxVerifiers, operators : 0 .. MaxOperators]

(* A node is its NodeKind and its index among the nodes of that kind.      *)
Nodes(t) ==
  {<<"bitcoin", i>> : i \in 0 .. t.bitcoins - 1}
    \cup {<<"sequencer", i>> : i \in 0 .. t.sequencers - 1}
    \cup {<<kind, 0>> : kind \in t.with}
    \cup {<<"verifier", i>> : i \in {k \in 0 .. MaxVerifiers : k < t.verifiers}}
    \cup {<<"operator", i>> : i \in {k \in 0 .. MaxOperators : k < t.operators}}
    \cup IF t.verifiers > 0 THEN {<<"postgres", 0>>, <<"aggregator", 0>>} ELSE {}

Kind(n) == n[1]
Citrea(n) == Kind(n) \in {"sequencer", "batch-prover", "light-client-prover", "full-node"}
Clementine(n) == Kind(n) \in {"verifier", "operator", "aggregator"}

Bitcoin0 == <<"bitcoin", 0>>
Sequencer0 == <<"sequencer", 0>>
FullNode == <<"full-node", 0>>
LightClientProver == <<"light-client-prover", 0>>

(* Hosts.  A name is DockerEnv::get_hostname: NodeKind's Display, in which *)
(* only the Clementine verifiers and operators carry their index, and the  *)
(* id of the test, the same for all.                                       *)
Loopback == <<"127.0.0.1", 0>>
AnyAddress == <<"0.0.0.0", 0>>
Hostname(n) == IF Kind(n) \in {"verifier", "operator"} THEN n ELSE <<Kind(n), 0>>
HostOf(dockerized, n) == IF dockerized THEN Hostname(n) ELSE Loopback

Url(role, host, n) == [role |-> role, host |-> host, to |-> n]

-----------------------------------------------------------------------------
(* What the generated configs hold                                         *)

(* citrea_bind_host: the rollup RPC's bind_host.                           *)
BindHost(t) == IF t.citrea THEN AnyAddress ELSE Loopback

(* bitcoin_confs[0].docker_host and BitcoinServiceConfig::from.            *)
DaUrl(t) == Url("da", HostOf(t.citrea, Bitcoin0), Bitcoin0)

(* runner_config.                                                          *)
SequencerUrl(t) == Url("sequencer", HostOf(t.citrea, Sequencer0), Sequencer0)

(* Mutant: the first sequencer is in listen mode too.                      *)
SequencerUrlsListen(t, n) == {DaUrl(t), Url("listen", BindHost(t), Sequencer0)}

(* generate_sequencer_configs: the second sequencer and those after it     *)
(* listen to the first, at the address it binds.                           *)
SequencerUrls(t, n) ==
  {DaUrl(t)} \cup IF n = Sequencer0 THEN {} ELSE {Url("listen", BindHost(t), Sequencer0)}

(* The rollup configs of the provers and the full node.                    *)
RollupUrls(t) == {DaUrl(t), SequencerUrl(t)}

(* ClementineConfig::from_configs, with clementine_btc_conf and the        *)
(* docker_host of the PostgresConfig; daInDocker says when the URL of      *)
(* bitcoin holds its name in docker.                                       *)
ConfigUrls(t, daInDocker) ==
  {Url("bitcoin", HostOf(daInDocker, Bitcoin0), Bitcoin0),
   Url("db", HostOf(t.clementine, <<"postgres", 0>>), <<"postgres", 0>>),
   Url("citrea", HostOf(t.citrea, FullNode), FullNode),
   Url("light_client", HostOf(t.citrea, LightClientProver), LightClientProver)}

(* Mutant: the docker_host of clementine_btc_conf is not set.              *)
EntityUrlsLocal(t) == ConfigUrls(t, FALSE)

EntityUrls(t) == ConfigUrls(t, t.clementine)

(* generate_cluster_config: verifier_endpoints and operator_endpoints.     *)
Endpoints(t) ==
  {Url("endpoint", HostOf(t.clementine, n), n) :
     n \in {m \in Nodes(t) : Kind(m) \in {"verifier", "operator"}}}

Generated(t, n) ==
  IF Kind(n) = "sequencer" THEN SequencerUrls(t, n)
  ELSE IF Citrea(n) THEN RollupUrls(t)
  ELSE IF Clementine(n)
  THEN EntityUrls(t) \cup IF Kind(n) = "aggregator" THEN Endpoints(t) ELSE {}
  ELSE {}

(* The branch each NodeT::spawn takes; postgres has no other.              *)
Place(t, n) ==
  IF \/ Kind(n) = "bitcoin" /\ t.bitcoin
     \/ Citrea(n) /\ t.citrea
     \/ Clementine(n) /\ t.clementine
     \/ Kind(n) = "postgres"
  THEN "container" ELSE "host"

-----------------------------------------------------------------------------

VARIABLES
  test,       \* the TestCaseConfig
  launched,   \* nodes spawned so far
  up,         \* of those, the ones not stopped
  place,      \* where each node runs or last ran
  urls,       \* the URLs in each node's config
  restarts,   \* number of restarts
  moved       \* nodes that have been started again on the host

vars == <<test, launched, up, place, urls, restarts, moved>>

TypeOK ==
  /\ test \in TestCase
  /\ launched \subseteq Nodes(test) /\ up \subseteq launched /\ moved \subseteq launched
  /\ place \in [Nodes(test) -> {"container", "host"}]
  /\ \A n \in Nodes(test) : \A u \in urls[n] : u.to # n
  /\ restarts \in 0 .. MaxRestarts

(* "> 0 is required for clementine".                                       *)
Init ==
  /\ test \in {t \in TestCase : t.verifiers > 0 <=> t.operators > 0}
  /\ launched = {} /\ up = {} /\ moved = {} /\ restarts = 0
  /\ place = [n \in Nodes(test) |-> Place(test, n)]
  /\ urls = [n \in Nodes(test) |-> Generated(test, n)]

(* TestFramework::new, init_citrea_nodes and ClementineCluster::new: the   *)
(* stage a node is spawned in.  Nodes of one list follow each other, but   *)
(* the verifiers run concurrently, and so do the operators.                *)
Stage(n) ==
  CASE Kind(n) = "bitcoin"             -> <<0, n[2]>>
    [] Kind(n) = "postgres"            -> <<1, 0>>
    [] Kind(n) = "sequencer"           -> <<2, n[2]>>
    [] Kind(n) = "batch-prover"        -> <<3, 0>>
    [] Kind(n) = "light-client-prover" -> <<4, 0>>
    [] Kind(n) = "full-node"           -> <<5, 0>>
    [] Kind(n) = "verifier"            -> <<6, 0>>
    [] Kind(n) = "operator"            -> <<7, 0>>
    [] Kind(n) = "aggregator"          -> <<8, 0>>

Precedes(a, b) == a[1] < b[1] \/ (a[1] = b[1] /\ a[2] < b[2])

(* Mutant: the aggregator is started together with the operators.          *)
EarlierThanOperators(n) ==
  {m \in Nodes(test) : Precedes(Stage(m), Stage(n)) /\ Kind(m) # "operator"}

Earlier(n) == {m \in Nodes(test) : Precedes(Stage(m), Stage(n))}

Launch(n) ==
  /\ n \notin launched
  /\ Earlier(n) \subseteq launched
  /\ launched' = launched \cup {n}
  /\ up' = up \cup {n}
  /\ UNCHANGED <<test, place, urls, restarts, moved>>

TestRuns == launched = Nodes(test)

(* wait_until_stopped, by the test; Restart is implemented for Citrea and  *)
(* bitcoin nodes.                                                          *)
Stop(n) ==
  /\ TestRuns /\ n \in up
  /\ Citrea(n) \/ Kind(n) = "bitcoin"
  /\ restarts < MaxRestarts
  /\ restarts' = restarts + 1
  /\ up' = up \ {n}
  /\ UNCHANGED <<test, launched, place, urls, moved>>

(* Mutant: only the URL of the runner is rewritten.                        *)
NormalizedRunner(us) ==
  {IF u.role = "sequencer" THEN [u EXCEPT !.host = Loopback] ELSE u : u \in us}

(* normalize_network_for_local_process: da.node_url and the sequencer's    *)
(* URL of the runner; the listen mode URL is not touched.                  *)
Normalized(us) ==
  {IF u.role \in {"da", "sequencer"} THEN [u EXCEPT !.host = Loopback] ELSE u : u \in us}

(* Node::start: the node goes to the place `to`.                           *)
Start(n, to, normalize) ==
  /\ TestRuns /\ n \notin up /\ Citrea(n)
  /\ up' = up \cup {n}
  /\ place' = [place EXCEPT ![n] = to]
  /\ urls' = IF normalize THEN [urls EXCEPT ![n] = Normalized(@)] ELSE urls
  /\ moved' = IF to = "host" THEN moved \cup {n} ELSE moved
  /\ UNCHANGED <<test, launched, restarts>>

(* Mutant: whatever the restart policy.                                    *)
StartNormalized(n) ==
  \E to \in {"host", Place(test, n)} : Start(n, to, place[n] = "container")

(* The restart policy the test has set decides between the two places.     *)
StartCitrea(n) ==
  \E to \in {"host", Place(test, n)} :
    Start(n, to, place[n] = "container" /\ to = "host")

(* BitcoinNode::start spawns it where it was.                              *)
StartBitcoin(n) ==
  /\ TestRuns /\ n \notin up /\ Kind(n) = "bitcoin"
  /\ up' = up \cup {n}
  /\ UNCHANGED <<test, launched, place, urls, restarts, moved>>

Next ==
  \E n \in Nodes(test) : Launch(n) \/ Stop(n) \/ StartCitrea(n) \/ StartBitcoin(n)

Spec == Init /\ [][Next]_vars

-----------------------------------------------------------------------------
(* Docker's network and the host's                                         *)

(* A node listens on every address of a container, but for a Citrea node   *)
(* that is told otherwise; only then do its published ports lead to it.    *)
Listens(n) == Citrea(n) /\ place[n] = "container" => BindHost(test) = AnyAddress

(* The containers a name of the network may resolve to: every one that was *)
(* given that alias.                                                       *)
Resolve(host) == {m \in up : place[m] = "container" /\ Hostname(m) = host}

(* The URL leads from a process that runs in `from` to its node.  Every    *)
(* port of a container is published on the host, and a connection to       *)
(* 0.0.0.0 goes to the loopback; in a container both are the container     *)
(* itself.                                                                 *)
Leads(from, u) ==
  /\ u.to \in up
  /\ Listens(u.to)
  /\ IF from = "host"
     THEN u.host \in {Loopback, AnyAddress}
     ELSE Resolve(u.host) = {u.to}

Reaches(n, u) == Leads(place[n], u)

-----------------------------------------------------------------------------
(* Properties                                                              *)

(* "Has to initialize sequencer first since provers and full node depend   *)
(* on it", and the same for all others: a node is spawned when every node  *)
(* of the test its config names has been.                                  *)
LaunchedAfterPeers ==
  \A n \in launched : \A u \in urls[n] : u.to \in Nodes(test) => u.to \in launched

(* A Citrea process on the host reaches each of its running peers,         *)
(* wherever these run and whichever of them was moved out of docker.           *)
LocalCitreaReachesPeers ==
  \A n \in up : Citrea(n) /\ place[n] = "host" =>
    \A u \in urls[n] : u.to \in up => Reaches(n, u)

(* Which tests work without any restart: every URL of every node leads to  *)
(* a running node exactly if                                               *)
(*   - Citrea containers have bitcoin in docker, and Clementine containers *)
(*     too: a single one, as bitcoin nodes share a name;                   *)
(*   - there is one sequencer when Citrea runs in docker;                  *)
(*   - Clementine runs where Citrea does, with a full node and a light     *)
(*     client prover.                                                      *)
Works(t) ==
  /\ t.citrea => t.bitcoin /\ t.bitcoins = 1 /\ t.sequencers = 1
  /\ t.verifiers > 0 =>
       /\ t.clementine <=> t.citrea
       /\ {"full-node", "light-client-prover"} \subseteq t.with

WorksCharacterized ==
  restarts = 0 /\ TestRuns =>
    (Works(test) <=> \A n \in up : \A u \in urls[n] : Reaches(n, u))

(* In such a test restarts inside docker and of bitcoin nodes change       *)
(* nothing: a container still reaches all its peers that are up and in     *)
(* docker, unless it has itself been on the host in between, from where it *)
(* keeps the host's URLs.                                                  *)
ContainersKeepPeers ==
  Works(test) =>
    \A n \in up \ moved : place[n] = "container" =>
      \A u \in urls[n] : u.to \in up /\ place[u.to] = "container" => Reaches(n, u)
=============================================================================
