--------------------------- MODULE TopologyProofs ---------------------------
(***************************************************************************)
(* Theorems about Topology, for every mix of nodes in docker and on the    *)
(* host, any number of nodes of each kind and any number of restarts:      *)
(* type correctness, the order of the launches, that a Citrea process on   *)
(* the host reaches its peers, exactly which tests work, and what restarts *)
(* in docker keep.                                                         *)
(***************************************************************************)
EXTENDS Topology, TLAPS

-----------------------------------------------------------------------------
(* Nodes                                                                   *)

LEMMA KindFacts ==
  ASSUME NEW t \in TestCase, NEW n \in Nodes(t)
  PROVE  /\ n = <<n[1], n[2]>> /\ n[2] \in Nat
         /\ \/ n[1] = "bitcoin" /\ n[2] < t.bitcoins
            \/ n[1] = "sequencer" /\ n[2] < t.sequencers
            \/ /\ n[1] \in {"batch-prover", "light-client-prover", "full-node"}
               /\ n[1] \in t.with /\ n[2] = 0
            \/ n[1] = "verifier" /\ n[2] < t.verifiers
            \/ n[1] = "operator" /\ n[2] < t.operators
            \/ n[1] \in {"postgres", "aggregator"} /\ n[2] = 0 /\ t.verifiers > 0
<1>1. /\ t.bitcoins \in Nat /\ t.sequencers \in Nat /\ t.verifiers \in Nat
      /\ t.operators \in Nat /\ t.with \subseteq Optional
      /\ MaxVerifiers \in Nat /\ MaxOperators \in Nat
  BY TopologyAssumption DEF TestCase, TopologyAssumption
<1>2. CASE n \in {<<"bitcoin", i>> : i \in 0 .. t.bitcoins - 1}
  BY <1>1, <1>2
<1>3. CASE n \in {<<"sequencer", i>> : i \in 0 .. t.sequencers - 1}
  BY <1>1, <1>3
<1>4. CASE n \in {<<kind, 0>> : kind \in t.with}
  BY <1>1, <1>4, TopologyAssumption DEF TopologyAssumption
<1>5. CASE n \in {<<"verifier", i>> : i \in {k \in 0 .. MaxVerifiers : k < t.verifiers}}
  BY <1>1, <1>5
<1>6. CASE n \in {<<"operator", i>> : i \in {k \in 0 .. MaxOperators : k < t.operators}}
  BY <1>1, <1>6
<1>7. CASE t.verifiers > 0 /\ n \in {<<"postgres", 0>>, <<"aggregator", 0>>}
  BY <1>7
<1> QED BY <1>2, <1>3, <1>4, <1>5, <1>6, <1>7 DEF Nodes

(* The nodes every test has, and those that come with others.              *)
LEMMA NodesOf ==
  ASSUME NEW t \in TestCase
  PROVE  /\ Bitcoin0 \in Nodes(t) /\ Sequencer0 \in Nodes(t)
         /\ t.bitcoins \in Nat /\ t.sequencers \in Nat
         /\ t.bitcoins # 1 => <<"bitcoin", 1>> \in Nodes(t)
         /\ t.sequencers # 1 => <<"sequencer", 1>> \in Nodes(t)
         /\ "full-node" \in t.with => FullNode \in Nodes(t)
         /\ "light-client-prover" \in t.with => LightClientProver \in Nodes(t)
         /\ t.verifiers > 0 => <<"postgres", 0>> \in Nodes(t) /\ <<"aggregator", 0>> \in Nodes(t)
<1>1. /\ t.bitcoins \in Nat \ {0} /\ t.sequencers \in Nat \ {0}
  BY TopologyAssumption DEF TestCase, TopologyAssumption
<1>2. \A i \in 0 .. t.bitcoins - 1 : <<"bitcoin", i>> \in Nodes(t) BY DEF Nodes
<1>3. \A i \in 0 .. t.sequencers - 1 : <<"sequencer", i>> \in Nodes(t) BY DEF Nodes
<1>4. 0 \in 0 .. t.bitcoins - 1 /\ 0 \in 0 .. t.sequencers - 1 BY <1>1
<1>5. t.bitcoins # 1 => 1 \in 0 .. t.bitcoins - 1 BY <1>1
<1>6. t.sequencers # 1 => 1 \in 0 .. t.sequencers - 1 BY <1>1
<1>7. \A kind \in t.with : <<kind, 0>> \in Nodes(t) BY DEF Nodes
<1>8. t.verifiers > 0 => <<"postgres", 0>> \in Nodes(t) /\ <<"aggregator", 0>> \in Nodes(t)
  BY DEF Nodes
<1> QED BY <1>1, <1>2, <1>3, <1>4, <1>5, <1>6, <1>7, <1>8
        DEF Bitcoin0, Sequencer0, FullNode, LightClientProver

-----------------------------------------------------------------------------
(* URLs                                                                    *)

Local == {Loopback, AnyAddress}

IsUrl(u) == u = Url(u.role, u.host, u.to)

(* Moved to the loopback.                                                  *)
AtLoopback(u) == Url(u.role, Loopback, u.to)

LEMMA UrlFields ==
  ASSUME NEW r, NEW h, NEW x
  PROVE  /\ Url(r, h, x).role = r /\ Url(r, h, x).host = h /\ Url(r, h, x).to = x
         /\ IsUrl(Url(r, h, x))
         /\ [Url(r, h, x) EXCEPT !.host = Loopback] = Url(r, Loopback, x)
BY DEF Url, IsUrl

(* The configs of Citrea nodes: who they name, and under which host.       *)
LEMMA CitreaUrls ==
  ASSUME NEW t \in TestCase, NEW n \in Nodes(t), Citrea(n), NEW u \in Generated(t, n)
  PROVE  /\ IsUrl(u)
         /\ \/ u = DaUrl(t)
            \/ u = SequencerUrl(t) /\ Kind(n) # "sequencer"
            \/ /\ u = Url("listen", BindHost(t), Sequencer0)
               /\ Kind(n) = "sequencer" /\ n # Sequencer0
<1>1. CASE Kind(n) = "sequencer"
  <2>1. u \in SequencerUrls(t, n) BY <1>1 DEF Generated
  <2> QED BY <1>1, <2>1, UrlFields DEF SequencerUrls, DaUrl
<1>2. CASE Kind(n) # "sequencer"
  <2>1. u \in RollupUrls(t) BY <1>2 DEF Generated
  <2> QED BY <1>2, <2>1, UrlFields DEF RollupUrls, DaUrl, SequencerUrl
<1> QED BY <1>1, <1>2

(* Those of the Clementine entities.                                       *)
LEMMA EntityUrlsAre ==
  ASSUME NEW t \in TestCase, NEW n \in Nodes(t), Clementine(n), NEW u \in Generated(t, n)
  PROVE  /\ IsUrl(u)
         /\ \/ u = Url("bitcoin", HostOf(t.clementine, Bitcoin0), Bitcoin0)
            \/ u = Url("db", HostOf(t.clementine, <<"postgres", 0>>), <<"postgres", 0>>)
            \/ u = Url("citrea", HostOf(t.citrea, FullNode), FullNode)
            \/ u = Url("light_client", HostOf(t.citrea, LightClientProver), LightClientProver)
            \/ /\ Kind(n) = "aggregator"
               /\ \E m \in Nodes(t) : /\ Kind(m) \in {"verifier", "operator"}
                                      /\ u = Url("endpoint", HostOf(t.clementine, m), m)
<1>1. Kind(n) # "sequencer" /\ ~Citrea(n) BY DEF Clementine, Citrea
<1>2. u \in EntityUrls(t) \/ (Kind(n) = "aggregator" /\ u \in Endpoints(t))
  BY <1>1 DEF Generated
<1>3. CASE u \in EntityUrls(t)
  BY <1>3, UrlFields DEF EntityUrls, ConfigUrls
<1>4. CASE Kind(n) = "aggregator" /\ u \in Endpoints(t)
  BY <1>4, UrlFields DEF Endpoints
<1> QED BY <1>2, <1>3, <1>4

(* No other node has URLs in its config.                                   *)
LEMMA OtherUrls ==
  ASSUME NEW t, NEW n, ~Citrea(n), ~Clementine(n)
  PROVE  Generated(t, n) = {}
BY DEF Generated, Citrea

LEMMA UrlFacts ==
  ASSUME NEW t \in TestCase, NEW n \in Nodes(t), NEW u \in Generated(t, n)
  PROVE  IsUrl(u) /\ (Citrea(n) \/ Clementine(n))
BY CitreaUrls, EntityUrlsAre, OtherUrls

(* normalize_network_for_local_process changes hosts to the loopback.      *)
LEMMA NormalizedUrls ==
  ASSUME NEW us, NEW v \in Normalized(us), \A u \in us : IsUrl(u)
  PROVE  \E u \in us : IF u.role \in {"da", "sequencer"} THEN v = AtLoopback(u) ELSE v = u
<1>1. PICK u \in us :
        v = IF u.role \in {"da", "sequencer"} THEN [u EXCEPT !.host = Loopback] ELSE u
  BY DEF Normalized
<1>2. IsUrl(u) OBVIOUS
<1>3. [u EXCEPT !.host = Loopback] = AtLoopback(u)
  BY <1>2, UrlFields DEF IsUrl, AtLoopback
<1> QED BY <1>1, <1>3

-----------------------------------------------------------------------------
(* The inductive invariant                                                 *)

(* "> 0 is required for clementine".                                       *)
TestInv == test \in TestCase /\ (test.verifiers > 0 <=> test.operators > 0)

(* Nodes are launched in the order of their stages.                        *)
OrderInv ==
  /\ launched \subseteq Nodes(test) /\ up \subseteq launched /\ moved \subseteq launched
  /\ \A n \in launched : Earlier(n) \subseteq launched

(* Only a restart can stop a node or move it.                              *)
RestartInv ==
  /\ restarts \in 0 .. MaxRestarts
  /\ restarts = 0 => up = launched /\ moved = {}

(* A node that is not where its spawn puts it is a Citrea node that has    *)
(* been moved to the host.                                                 *)
PlaceInv ==
  /\ place \in [Nodes(test) -> {"container", "host"}]
  /\ \A n \in Nodes(test) :
       place[n] = Place(test, n) \/ (Citrea(n) /\ place[n] = "host" /\ n \in moved)

(* A URL is as generated, or moved to the loopback; a node that was never  *)
(* started on the host has all of them as generated, one that runs there   *)
(* only local ones.                                                        *)
UrlInv ==
  /\ DOMAIN urls = Nodes(test)
  /\ \A n \in Nodes(test) : \A u \in urls[n] :
       \E g \in Generated(test, n) : u = g \/ u = AtLoopback(g)
  /\ \A n \in Nodes(test) : n \notin moved => urls[n] = Generated(test, n)
  /\ \A n \in Nodes(test) :
       Citrea(n) /\ place[n] = "host" => \A u \in urls[n] : u.host \in Local

Inv == TestInv /\ OrderInv /\ RestartInv /\ PlaceInv /\ UrlInv

LEMMA LocalUrls ==
  ASSUME NEW t \in TestCase, NEW n \in Nodes(t), Citrea(n), ~t.citrea,
         NEW u \in Generated(t, n)
  PROVE  u.host \in Local
<1>1. \/ u = DaUrl(t) \/ u = SequencerUrl(t)
      \/ u = Url("listen", BindHost(t), Sequencer0)
  BY CitreaUrls
<1> QED BY <1>1, UrlFields DEF DaUrl, SequencerUrl, BindHost, HostOf, Local

LEMMA InitInv == Init => Inv
<1> SUFFICES ASSUME Init PROVE Inv OBVIOUS
<1>1. TestInv BY DEF Init, TestInv
<1>2. OrderInv BY DEF Init, OrderInv
<1>3. RestartInv BY TopologyAssumption DEF Init, RestartInv, TopologyAssumption
<1>4. PlaceInv BY DEF Init, PlaceInv, Place
<1>5. UrlInv
  <2>1. /\ DOMAIN urls = Nodes(test)
        /\ \A n \in Nodes(test) : urls[n] = Generated(test, n) /\ place[n] = Place(test, n)
    BY DEF Init
  <2>2. ASSUME NEW n \in Nodes(test), Citrea(n), place[n] = "host", NEW u \in urls[n]
        PROVE  u.host \in Local
    <3>1. ~test.citrea BY <2>1, <2>2 DEF Place
    <3> QED BY <1>1, <2>1, <2>2, <3>1, LocalUrls DEF TestInv
  <2> QED BY <2>1, <2>2 DEF UrlInv
<1> QED BY <1>1, <1>2, <1>3, <1>4, <1>5 DEF Inv

(* Node::start of a Citrea node, at one of the two places.                 *)
LEMMA StartKeeps ==
  ASSUME Inv, NEW n \in Nodes(test), StartCitrea(n)
  PROVE  Inv'
<1> USE DEF Inv
<1>1. PICK to \in {"host", Place(test, n)} :
        Start(n, to, place[n] = "container" /\ to = "host")
  BY DEF StartCitrea
<1>2. /\ n \notin up /\ Citrea(n) /\ launched = Nodes(test)
      /\ up' = up \cup {n} /\ place' = [place EXCEPT ![n] = to]
      /\ moved' = IF to = "host" THEN moved \cup {n} ELSE moved
      /\ UNCHANGED <<test, launched, restarts>>
  BY <1>1 DEF Start, TestRuns
<1>3. to \in {"container", "host"} BY DEF Place
<1>4. /\ place'[n] = to /\ (to = "host" => n \in moved')
      /\ \A m \in Nodes(test) : m # n => place'[m] = place[m] /\ (m \in moved' <=> m \in moved)
      /\ moved \subseteq moved'
  BY <1>2 DEF PlaceInv
<1>5. TestInv' BY <1>2 DEF TestInv
<1>6. OrderInv' BY <1>2 DEF OrderInv, Earlier
<1>7. RestartInv' BY <1>2 DEF RestartInv
<1>8. PlaceInv' BY <1>1, <1>2, <1>3, <1>4 DEF PlaceInv
<1>9. UrlInv'
  <2>1. \A g \in Generated(test, n) : IsUrl(g) BY UrlFacts DEF TestInv
  <2>2. \A u \in urls[n] : IsUrl(u)
    <3> TAKE u \in urls[n]
    <3>1. PICK g \in Generated(test, n) : u = g \/ u = AtLoopback(g) BY DEF UrlInv
    <3> QED BY <2>1, <3>1, UrlFields DEF AtLoopback
  <2>3. CASE place[n] = "container" /\ to = "host"
    <3>1. urls' = [urls EXCEPT ![n] = Normalized(@)]
      BY <1>1, <2>3 DEF Start
    <3>2. /\ DOMAIN urls' = Nodes(test) /\ urls'[n] = Normalized(urls[n])
          /\ \A m \in Nodes(test) : m # n => urls'[m] = urls[m]
      BY <3>1 DEF UrlInv
    <3>3. ASSUME NEW v \in urls'[n]
          PROVE  /\ v.host \in Local
                 /\ \E g \in Generated(test, n) : v = g \/ v = AtLoopback(g)
      <4>1. PICK u \in urls[n] :
              IF u.role \in {"da", "sequencer"} THEN v = AtLoopback(u) ELSE v = u
        BY <2>2, <3>2, NormalizedUrls
      <4>2. PICK g \in Generated(test, n) : u = g \/ u = AtLoopback(g) BY DEF UrlInv
      <4>3. u.role = g.role /\ u.to = g.to BY <4>2, UrlFields DEF AtLoopback
      <4>4. AtLoopback(u) = AtLoopback(g) BY <4>3 DEF AtLoopback
      <4>5. CASE u.role \in {"da", "sequencer"}
        BY <4>1, <4>4, <4>5, UrlFields DEF AtLoopback, Local
      <4>6. CASE u.role \notin {"da", "sequencer"}
        <5>1. v = u BY <4>1, <4>6
        <5>2. g = Url("listen", BindHost(test), Sequencer0)
          BY <1>2, <4>3, <4>6, CitreaUrls, UrlFields DEF DaUrl, SequencerUrl, TestInv
        <5>3. g.host \in Local BY <5>2, UrlFields DEF BindHost, Local
        <5>4. u.host \in Local BY <4>2, <5>3, UrlFields DEF AtLoopback, Local
        <5> QED BY <4>2, <5>1, <5>4
      <4> QED BY <4>5, <4>6
    <3>4. n \in moved' BY <1>2, <2>3
    <3> QED BY <1>2, <1>4, <3>2, <3>3, <3>4 DEF UrlInv
  <2>4. CASE ~(place[n] = "container" /\ to = "host")
    <3>1. urls' = urls BY <1>1, <2>4 DEF Start
    <3>2. place'[n] = "host" => place[n] = "host"
      BY <1>3, <1>4, <2>4 DEF PlaceInv
    <3> QED BY <1>2, <1>4, <3>1, <3>2 DEF UrlInv
  <2> QED BY <2>3, <2>4
<1> QED BY <1>5, <1>6, <1>7, <1>8, <1>9

LEMMA StepInv == Inv /\ [Next]_vars => Inv'
<1> SUFFICES ASSUME Inv, [Next]_vars PROVE Inv' OBVIOUS
<1> USE DEF Inv
<1>1. ASSUME NEW n \in Nodes(test), Launch(n) PROVE Inv'
  <2>1. /\ n \notin launched /\ Earlier(n) \subseteq launched
        /\ launched' = launched \cup {n} /\ up' = up \cup {n}
        /\ UNCHANGED <<test, place, urls, restarts, moved>>
    BY <1>1 DEF Launch
  <2>2. OrderInv' BY <2>1 DEF OrderInv, Earlier
  <2>3. RestartInv' BY <2>1 DEF RestartInv
  <2> QED BY <2>1, <2>2, <2>3 DEF TestInv, PlaceInv, UrlInv
<1>2. ASSUME NEW n \in Nodes(test), Stop(n) PROVE Inv'
  <2>1. /\ restarts < MaxRestarts /\ restarts' = restarts + 1 /\ up' = up \ {n}
        /\ UNCHANGED <<test, launched, place, urls, moved>>
    BY <1>2 DEF Stop
  <2>2. OrderInv' BY <2>1 DEF OrderInv, Earlier
  <2>3. RestartInv' BY <2>1, TopologyAssumption DEF RestartInv, TopologyAssumption
  <2> QED BY <2>1, <2>2, <2>3 DEF TestInv, PlaceInv, UrlInv
<1>3. ASSUME NEW n \in Nodes(test), StartCitrea(n) PROVE Inv'
  BY <1>3, StartKeeps
<1>4. ASSUME NEW n \in Nodes(test), StartBitcoin(n) PROVE Inv'
  <2>1. /\ launched = Nodes(test) /\ n \notin up /\ up' = up \cup {n}
        /\ UNCHANGED <<test, launched, place, urls, restarts, moved>>
    BY <1>4 DEF StartBitcoin, TestRuns
  <2>2. OrderInv' BY <2>1 DEF OrderInv, Earlier
  <2>3. RestartInv' BY <2>1 DEF RestartInv
  <2> QED BY <2>1, <2>2, <2>3 DEF TestInv, PlaceInv, UrlInv
<1>5. CASE UNCHANGED vars
  BY <1>5 DEF vars, TestInv, OrderInv, RestartInv, PlaceInv, UrlInv, Earlier
<1> QED BY <1>1, <1>2, <1>3, <1>4, <1>5 DEF Next

LEMMA InvCorrect == Spec => []Inv
  BY InitInv, StepInv, PTL DEF Spec

-----------------------------------------------------------------------------
(* Types and the order of the launches                                     *)

(* No config names the node it belongs to.                                 *)
LEMMA NotItself ==
  ASSUME NEW t \in TestCase, NEW n \in Nodes(t), NEW u \in Generated(t, n)
  PROVE  u.to # n
<1>1. CASE Citrea(n)
  BY <1>1, CitreaUrls, UrlFields
     DEF DaUrl, SequencerUrl, Citrea, Kind, Bitcoin0, Sequencer0
<1>2. CASE Clementine(n)
  BY <1>2, EntityUrlsAre, UrlFields
     DEF Clementine, Kind, Bitcoin0, FullNode, LightClientProver
<1> QED BY <1>1, <1>2, UrlFacts

(* The nodes of a test, where they run and what their configs hold are as  *)
(* declared after any restarts; in particular no node is configured with   *)
(* its own address as that of a peer.                                      *)
THEOREM TypeCorrect == Spec => []TypeOK
<1>1. ASSUME Inv PROVE TypeOK
  <2>1. ASSUME NEW n \in Nodes(test), NEW u \in urls[n] PROVE u.to # n
    <3>1. PICK g \in Generated(test, n) : u = g \/ u = AtLoopback(g)
      BY <1>1 DEF Inv, UrlInv
    <3>2. u.to = g.to BY <3>1, UrlFields DEF AtLoopback
    <3> QED BY <1>1, <3>2, NotItself DEF Inv, TestInv
  <2> QED BY <1>1, <2>1 DEF Inv, TestInv, OrderInv, RestartInv, PlaceInv, TypeOK
<1> QED BY <1>1, InvCorrect, PTL

(* A node is in a later stage than those its config names.                 *)
LEMMA NamesEarlier ==
  ASSUME NEW t \in TestCase, NEW n \in Nodes(t), NEW u \in Generated(t, n)
  PROVE  Precedes(Stage(u.to), Stage(n))
<1>1. n[2] \in Nat BY KindFacts
<1>2. CASE Citrea(n)
  <2>1. CASE u = DaUrl(t) \/ (u = SequencerUrl(t) /\ Kind(n) # "sequencer")
    BY <1>2, <2>1, UrlFields
       DEF DaUrl, SequencerUrl, Citrea, Kind, Bitcoin0, Sequencer0, Stage, Precedes
  <2>2. CASE u = Url("listen", BindHost(t), Sequencer0) /\ Kind(n) = "sequencer" /\ n # Sequencer0
    <3>1. n = <<"sequencer", n[2]>> BY <2>2, KindFacts DEF Kind
    <3>2. n[2] > 0 BY <1>1, <2>2, <3>1 DEF Sequencer0
    <3> QED BY <2>2, <3>2, UrlFields DEF Kind, Sequencer0, Stage, Precedes
  <2> QED BY <1>2, <2>1, <2>2, CitreaUrls
<1>3. CASE Clementine(n)
  <2>1. Stage(n)[1] \in {6, 7, 8} /\ (Kind(n) = "aggregator" => Stage(n)[1] = 8)
    BY <1>3 DEF Clementine, Kind, Stage
  <2>2. ASSUME Kind(u.to) \in {"bitcoin", "postgres", "full-node", "light-client-prover"}
        PROVE  Stage(u.to)[1] \in 0 .. 5
    BY <2>2 DEF Kind, Stage
  <2>3. ASSUME Kind(u.to) \in {"verifier", "operator"} PROVE Stage(u.to)[1] \in {6, 7}
    BY <2>3 DEF Kind, Stage
  <2>4. \/ Kind(u.to) \in {"bitcoin", "postgres", "full-node", "light-client-prover"}
        \/ Kind(n) = "aggregator" /\ Kind(u.to) \in {"verifier", "operator"}
    BY <1>3, EntityUrlsAre, UrlFields DEF Bitcoin0, FullNode, LightClientProver, Kind
  <2> QED BY <2>1, <2>2, <2>3, <2>4 DEF Precedes
<1> QED BY <1>2, <1>3, UrlFacts

(* When a node is spawned, every node of the test that its config names    *)
(* has been.                                                               *)
THEOREM LaunchOrder == Spec => []LaunchedAfterPeers
<1>1. ASSUME Inv PROVE LaunchedAfterPeers
  <2> SUFFICES ASSUME NEW n \in launched, NEW u \in urls[n], u.to \in Nodes(test)
               PROVE  u.to \in launched
    BY DEF LaunchedAfterPeers
  <2>1. n \in Nodes(test) /\ Earlier(n) \subseteq launched BY <1>1 DEF Inv, OrderInv
  <2>2. PICK g \in Generated(test, n) : u = g \/ u = AtLoopback(g)
    BY <1>1, <2>1 DEF Inv, UrlInv
  <2>3. u.to = g.to BY <2>2, UrlFields DEF AtLoopback
  <2>4. Precedes(Stage(u.to), Stage(n))
    BY <1>1, <2>1, <2>3, NamesEarlier DEF Inv, TestInv
  <2> QED BY <2>1, <2>4 DEF Earlier
<1> QED BY <1>1, InvCorrect, PTL

-----------------------------------------------------------------------------
(* Reaching a node                                                         *)

(* What is in a container was spawned there.                               *)
LEMMA InContainer ==
  ASSUME Inv, NEW n \in Nodes(test), place[n] = "container"
  PROVE  Place(test, n) = "container"
BY DEF Inv, PlaceInv

(* The container of a Citrea node listens on all its addresses.            *)
LEMMA AllListen ==
  ASSUME Inv, NEW n \in Nodes(test)
  PROVE  Listens(n)
<1> SUFFICES ASSUME Citrea(n), place[n] = "container" PROVE BindHost(test) = AnyAddress
  BY DEF Listens
<1>1. Kind(n) # "bitcoin" /\ Kind(n) # "postgres" /\ ~Clementine(n)
  BY DEF Citrea, Clementine
<1>2. test.citrea BY <1>1, InContainer DEF Place
<1> QED BY <1>2 DEF BindHost

(* A Citrea process on the host reaches each of its peers that is up, even *)
(* after these, or it, were moved out of docker.                           *)
THEOREM LocalCitreaReaches == Spec => []LocalCitreaReachesPeers
<1>1. ASSUME Inv PROVE LocalCitreaReachesPeers
  <2> SUFFICES ASSUME NEW n \in up, Citrea(n), place[n] = "host", NEW u \in urls[n],
                      u.to \in up
               PROVE  Reaches(n, u)
    BY DEF LocalCitreaReachesPeers
  <2>1. n \in Nodes(test) /\ u.to \in Nodes(test) BY <1>1 DEF Inv, OrderInv
  <2>2. u.host \in Local BY <1>1, <2>1 DEF Inv, UrlInv
  <2>3. Listens(u.to) BY <1>1, <2>1, AllListen
  <2> QED BY <2>2, <2>3 DEF Reaches, Leads, Local
<1> QED BY <1>1, InvCorrect, PTL

(* No container is given an address of the host as its name.               *)
LEMMA NoLocalNames ==
  ASSUME Inv, NEW h \in Local
  PROVE  Resolve(h) = {}
<1>1. ASSUME NEW m \in Nodes(test) PROVE Hostname(m) # h
  <2>1. Hostname(m)[1] = Kind(m) BY DEF Hostname, Kind
  <2>2. Kind(m) \notin {"127.0.0.1", "0.0.0.0"} BY KindFacts DEF Inv, TestInv, Kind
  <2>3. h[1] \in {"127.0.0.1", "0.0.0.0"} BY DEF Local, Loopback, AnyAddress
  <2> QED BY <2>1, <2>2, <2>3
<1> QED BY <1>1 DEF Inv, OrderInv, Resolve

(* In a test that works, every name a config of a container holds is that  *)
(* of one container.                                                       *)
LEMMA OneOfThatName ==
  ASSUME Inv, Works(test), test.citrea, NEW n \in up, place[n] = "container"
  PROVE  Resolve(Hostname(n)) = {n}
<1>1. n \in Resolve(Hostname(n)) BY DEF Resolve
<1>2. ASSUME NEW m \in Resolve(Hostname(n)) PROVE m = n
  <2>1. m \in Nodes(test) /\ n \in Nodes(test) /\ Hostname(m) = Hostname(n)
    BY <1>2 DEF Inv, OrderInv, Resolve
  <2>2. /\ n = <<n[1], n[2]>> /\ m = <<m[1], m[2]>> /\ n[2] \in Nat /\ m[2] \in Nat
    BY <2>1, KindFacts DEF Inv, TestInv
  <2>3. Hostname(n)[1] = n[1] /\ Hostname(m)[1] = m[1] /\ n[1] = m[1]
    BY <2>1 DEF Hostname, Kind
  <2>4. CASE n[1] \in {"verifier", "operator"}
    BY <2>1, <2>3, <2>4 DEF Hostname, Kind
  <2>5. CASE n[1] \notin {"verifier", "operator"}
    <3>1. test.bitcoins = 1 /\ test.sequencers = 1 BY DEF Works
    <3>2. ASSUME NEW k \in Nodes(test), k[1] \notin {"verifier", "operator"} PROVE k[2] = 0
      BY <3>1, <3>2, KindFacts DEF Inv, TestInv
    <3> QED BY <2>1, <2>2, <2>3, <2>5, <3>2
  <2> QED BY <2>4, <2>5
<1> QED BY <1>1, <1>2

(* A URL that holds the name of its node leads there from a container.     *)
LEMMA NamedReaches ==
  ASSUME Inv, Works(test), test.citrea, NEW n \in up, place[n] = "container",
         NEW u, u.to \in up, place[u.to] = "container", u.host = Hostname(u.to)
  PROVE  Reaches(n, u)
<1>1. Listens(u.to) BY AllListen DEF Inv, OrderInv
<1>2. Resolve(u.host) = {u.to} BY OneOfThatName
<1> QED BY <1>1, <1>2 DEF Reaches, Leads

(* The URLs a working test has generated for a container hold the names of *)
(* their nodes, as far as these are containers too.                        *)
LEMMA NamedInContainers ==
  ASSUME Inv, Works(test), NEW n \in Nodes(test), Place(test, n) = "container",
         NEW u \in Generated(test, n)
  PROVE  test.citrea /\ u.host = Hostname(u.to) /\ u.to \in Nodes(test)
         /\ Place(test, u.to) = "container"
<1>0. test \in TestCase BY DEF Inv, TestInv
<1>1. CASE Citrea(n)
  <2>1. test.citrea
    BY <1>1 DEF Place, Citrea, Clementine
  <2>2. test.bitcoin /\ test.sequencers = 1 BY <2>1 DEF Works
  <2>3. u = DaUrl(test) \/ u = SequencerUrl(test)
    <3>1. CASE u = Url("listen", BindHost(test), Sequencer0)
      <4>1. Kind(n) = "sequencer" /\ n # Sequencer0
        BY <1>0, <1>1, <3>1, CitreaUrls, UrlFields DEF DaUrl, SequencerUrl
      <4>2. n = <<"sequencer", n[2]>> /\ n[2] \in Nat /\ n[2] < 1
        BY <1>0, <2>2, <4>1, KindFacts DEF Kind
      <4> QED BY <4>1, <4>2 DEF Sequencer0
    <3> QED BY <1>0, <1>1, <3>1, CitreaUrls
  <2>4. CASE u = DaUrl(test)
    <3>1. u.to = Bitcoin0 /\ u.host = Hostname(Bitcoin0)
      BY <2>1, <2>4, UrlFields DEF DaUrl, HostOf
    <3> QED BY <1>0, <2>1, <2>2, <3>1, NodesOf DEF Place, Kind, Bitcoin0
  <2>5. CASE u = SequencerUrl(test)
    <3>1. u.to = Sequencer0 /\ u.host = Hostname(Sequencer0)
      BY <2>1, <2>5, UrlFields DEF SequencerUrl, HostOf
    <3> QED BY <1>0, <2>1, <3>1, NodesOf DEF Place, Citrea, Kind, Sequencer0
  <2> QED BY <2>3, <2>4, <2>5
<1>2. CASE Clementine(n)
  <2>1. test.clementine BY <1>2 DEF Place, Citrea, Clementine
  <2>2. test.verifiers > 0
    BY <1>0, <1>2, KindFacts DEF Clementine, Kind, Inv, TestInv, TestCase
  <2>3. /\ test.citrea /\ test.bitcoin
        /\ FullNode \in Nodes(test) /\ LightClientProver \in Nodes(test)
    BY <1>0, <2>1, <2>2, NodesOf DEF Works
  <2>4. /\ \/ u.to \in {Bitcoin0, <<"postgres", 0>>, FullNode, LightClientProver}
           \/ u.to \in Nodes(test) /\ Kind(u.to) \in {"verifier", "operator"}
        /\ u.host = Hostname(u.to)
    BY <1>0, <1>2, <2>1, <2>3, EntityUrlsAre, UrlFields DEF HostOf
  <2>5. u.to \in Nodes(test) BY <1>0, <2>2, <2>3, <2>4, NodesOf
  <2>6. Place(test, u.to) = "container"
    BY <2>1, <2>3, <2>4
       DEF Place, Citrea, Clementine, Kind, Bitcoin0, FullNode, LightClientProver
  <2> QED BY <2>3, <2>4, <2>5, <2>6
<1> QED BY <1>0, <1>1, <1>2, UrlFacts

(* In a test that works, restarts inside docker and of bitcoin nodes take  *)
(* from no container a peer that is up and in docker, unless the container *)
(* itself has been on the host in between.                                 *)
THEOREM RestartsKeepPeers == Spec => []ContainersKeepPeers
<1>1. ASSUME Inv PROVE ContainersKeepPeers
  <2> SUFFICES ASSUME Works(test), NEW n \in up \ moved, place[n] = "container",
                      NEW u \in urls[n], u.to \in up, place[u.to] = "container"
               PROVE  Reaches(n, u)
    BY DEF ContainersKeepPeers
  <2>1. n \in Nodes(test) /\ u \in Generated(test, n)
    BY <1>1 DEF Inv, OrderInv, UrlInv
  <2>2. test.citrea /\ u.host = Hostname(u.to)
    BY <1>1, <2>1, InContainer, NamedInContainers
  <2> QED BY <1>1, <2>2, NamedReaches
<1> QED BY <1>1, InvCorrect, PTL

-----------------------------------------------------------------------------
(* Which tests work                                                        *)

Settled == restarts = 0 /\ TestRuns

LEMMA SettledMeans ==
  ASSUME Inv, Settled
  PROVE  /\ up = Nodes(test)
         /\ \A n \in Nodes(test) : urls[n] = Generated(test, n) /\ place[n] = Place(test, n)
BY DEF Inv, Settled, TestRuns, RestartInv, UrlInv, PlaceInv

(* In a test that works every process on the host has only local URLs, of  *)
(* nodes the test has.                                                     *)
LEMMA LocalOnHost ==
  ASSUME Inv, Works(test), NEW n \in Nodes(test), Place(test, n) = "host",
         NEW u \in Generated(test, n)
  PROVE  u.host \in Local /\ u.to \in Nodes(test)
<1>0. test \in TestCase BY DEF Inv, TestInv
<1>1. CASE Citrea(n)
  <2>1. ~test.citrea BY <1>1 DEF Place
  <2>2. u.to \in {Bitcoin0, Sequencer0}
    BY <1>0, <1>1, CitreaUrls, UrlFields DEF DaUrl, SequencerUrl
  <2> QED BY <1>0, <1>1, <2>1, <2>2, LocalUrls, NodesOf
<1>2. CASE Clementine(n)
  <2>1. ~test.clementine BY <1>2 DEF Place
  <2>2. test.verifiers > 0
    BY <1>0, <1>2, KindFacts DEF Clementine, Kind, Inv, TestInv, TestCase
  <2>3. ~test.citrea /\ FullNode \in Nodes(test) /\ LightClientProver \in Nodes(test)
    BY <1>0, <2>1, <2>2, NodesOf DEF Works, TestCase
  <2>4. u.host = Loopback
    BY <1>0, <1>2, <2>1, <2>3, EntityUrlsAre, UrlFields DEF HostOf
  <2>5. \/ u.to \in {Bitcoin0, <<"postgres", 0>>, FullNode, LightClientProver}
        \/ u.to \in Nodes(test)
    BY <1>0, <1>2, EntityUrlsAre, UrlFields
  <2> QED BY <1>0, <2>2, <2>3, <2>4, <2>5, NodesOf DEF Local
<1> QED BY <1>0, <1>1, <1>2, UrlFacts

LEMMA AllReach ==
  ASSUME Inv, Settled, Works(test), NEW n \in up, NEW u \in urls[n]
  PROVE  Reaches(n, u)
<1>1. /\ n \in Nodes(test) /\ u \in Generated(test, n) /\ place[n] = Place(test, n)
      /\ up = Nodes(test) /\ \A m \in Nodes(test) : place[m] = Place(test, m)
  BY SettledMeans
<1>2. CASE Place(test, n) = "container"
  <2>1. test.citrea /\ u.host = Hostname(u.to) /\ u.to \in Nodes(test)
        /\ Place(test, u.to) = "container"
    BY <1>1, <1>2, NamedInContainers
  <2> QED BY <1>1, <1>2, <2>1, NamedReaches
<1>3. CASE Place(test, n) = "host"
  <2>1. u.host \in Local /\ u.to \in Nodes(test) BY <1>1, <1>3, LocalOnHost
  <2> QED BY <1>1, <1>3, <2>1, AllListen DEF Reaches, Leads, Local
<1> QED BY <1>2, <1>3 DEF Place

(* Citrea in docker with bitcoin on the host, or with a second bitcoin     *)
(* node or sequencer, has a URL that leads nowhere or to two nodes.        *)
LEMMA CitreaNeeds ==
  ASSUME Inv, Settled, \A n \in up : \A u \in urls[n] : Reaches(n, u), test.citrea
  PROVE  test.bitcoin /\ test.bitcoins = 1 /\ test.sequencers = 1
<1>0. test \in TestCase BY DEF Inv, TestInv
<1>1. /\ Sequencer0 \in Nodes(test) /\ Bitcoin0 \in Nodes(test)
      /\ up = Nodes(test)
      /\ \A n \in Nodes(test) : urls[n] = Generated(test, n) /\ place[n] = Place(test, n)
  BY <1>0, NodesOf, SettledMeans
<1>2. \A n \in Nodes(test) : Kind(n) = "sequencer" => place[n] = "container"
  BY <1>1 DEF Place, Citrea
<1>3. Resolve(Hostname(Bitcoin0)) = {Bitcoin0}
  <2>1. DaUrl(test) \in Generated(test, Sequencer0)
    BY DEF Generated, SequencerUrls, Kind, Sequencer0
  <2>2. Reaches(Sequencer0, DaUrl(test)) BY <1>1, <2>1
  <2>3. DaUrl(test).host = Hostname(Bitcoin0) /\ DaUrl(test).to = Bitcoin0
    BY UrlFields DEF DaUrl, HostOf
  <2>4. place[Sequencer0] = "container" BY <1>1, <1>2 DEF Kind, Sequencer0
  <2> QED BY <2>2, <2>3, <2>4 DEF Reaches, Leads
<1>4. test.bitcoin
  <2>1. place[Bitcoin0] = "container" BY <1>3 DEF Resolve
  <2>2. Place(test, Bitcoin0) = "container" BY <1>1, <2>1
  <2> QED BY <2>2 DEF Place, Citrea, Clementine, Kind, Bitcoin0
<1>5. test.bitcoins = 1
  <2> SUFFICES ASSUME test.bitcoins # 1 PROVE FALSE OBVIOUS
  <2> DEFINE second == <<"bitcoin", 1>>
  <2>1. second \in Nodes(test) BY <1>0, NodesOf
  <2>2. Place(test, second) = "container" BY <1>4 DEF Place, Kind
  <2>3. Hostname(second) = Hostname(Bitcoin0) BY DEF Hostname, Kind, Bitcoin0
  <2>4. second \in Resolve(Hostname(Bitcoin0)) BY <1>1, <2>1, <2>2, <2>3 DEF Resolve
  <2>5. second # Bitcoin0 BY DEF Bitcoin0
  <2> QED BY <1>3, <2>4, <2>5
<1>6. test.sequencers = 1
  <2> SUFFICES ASSUME test.sequencers # 1 PROVE FALSE OBVIOUS
  <2> DEFINE second == <<"sequencer", 1>>
             listen == Url("listen", BindHost(test), Sequencer0)
  <2>1. second \in Nodes(test) BY <1>0, NodesOf
  <2>2. listen \in Generated(test, second)
    BY DEF Generated, SequencerUrls, Kind, Sequencer0
  <2>3. Reaches(second, listen) BY <1>1, <2>1, <2>2
  <2>4. place[second] = "container" BY <1>2, <2>1 DEF Kind
  <2>5. listen.host = AnyAddress BY UrlFields DEF BindHost
  <2>6. Resolve(AnyAddress) # {} BY <2>3, <2>4, <2>5 DEF Reaches, Leads
  <2> QED BY <2>6, NoLocalNames DEF Local
<1> QED BY <1>4, <1>5, <1>6

(* Clementine on the other side of docker, or without a full node or a     *)
(* light client prover, has a URL that leads nowhere.                      *)
LEMMA ClementineNeeds ==
  ASSUME Inv, Settled, \A n \in up : \A u \in urls[n] : Reaches(n, u), test.verifiers > 0
  PROVE  /\ test.clementine <=> test.citrea
         /\ {"full-node", "light-client-prover"} \subseteq test.with
<1> DEFINE aggregator == <<"aggregator", 0>>
           citrea == Url("citrea", HostOf(test.citrea, FullNode), FullNode)
           light == Url("light_client", HostOf(test.citrea, LightClientProver),
                        LightClientProver)
<1>0. test \in TestCase BY DEF Inv, TestInv
<1>1. /\ aggregator \in Nodes(test) /\ up = Nodes(test)
      /\ urls[aggregator] = Generated(test, aggregator)
      /\ place[aggregator] = Place(test, aggregator)
  BY <1>0, NodesOf, SettledMeans
<1>2. citrea \in Generated(test, aggregator) /\ light \in Generated(test, aggregator)
  BY DEF Generated, EntityUrls, ConfigUrls, Kind, Citrea, Clementine
<1>3. Reaches(aggregator, citrea) /\ Reaches(aggregator, light) BY <1>1, <1>2
<1>4. FullNode \in Nodes(test) /\ LightClientProver \in Nodes(test)
  BY <1>1, <1>3, UrlFields DEF Reaches, Leads
<1>5. {"full-node", "light-client-prover"} \subseteq test.with
  <2>1. FullNode[1] = "full-node" /\ LightClientProver[1] = "light-client-prover"
    BY DEF FullNode, LightClientProver
  <2>2. "full-node" \in test.with BY <1>0, <1>4, <2>1, KindFacts
  <2>3. "light-client-prover" \in test.with BY <1>0, <1>4, <2>1, KindFacts
  <2> QED BY <2>2, <2>3
<1>6. citrea.host = HostOf(test.citrea, FullNode) /\ citrea.to = FullNode BY UrlFields
<1>7. CASE test.clementine
  <2>1. place[aggregator] = "container"
    BY <1>1, <1>7 DEF Place, Clementine, Kind
  <2>2. Resolve(citrea.host) # {} BY <1>3, <2>1 DEF Reaches, Leads
  <2>3. test.citrea BY <1>6, <2>2, NoLocalNames DEF HostOf, Local
  <2> QED BY <1>5, <1>7, <2>3
<1>8. CASE ~test.clementine
  <2>1. place[aggregator] = "host"
    BY <1>1, <1>8 DEF Place, Clementine, Citrea, Kind
  <2>2. citrea.host \in Local BY <1>3, <2>1 DEF Reaches, Leads, Local
  <2>3. Hostname(FullNode) \notin Local
    BY DEF Hostname, FullNode, Kind, Local, Loopback, AnyAddress
  <2>4. ~test.citrea BY <1>6, <2>2, <2>3 DEF HostOf
  <2> QED BY <1>5, <1>8, <2>4
<1> QED BY <1>7, <1>8

(* Of all the mixes of docker and local nodes, exactly those Works         *)
(* describes have, before any restart, only URLs that lead to their nodes. *)
THEOREM WhichTestsWork == Spec => []WorksCharacterized
<1>1. ASSUME Inv PROVE WorksCharacterized
  <2> SUFFICES ASSUME Settled
               PROVE  Works(test) <=> \A n \in up : \A u \in urls[n] : Reaches(n, u)
    BY DEF WorksCharacterized, Settled
  <2>1. Works(test) => \A n \in up : \A u \in urls[n] : Reaches(n, u)
    BY <1>1, AllReach
  <2>2. (\A n \in up : \A u \in urls[n] : Reaches(n, u)) => Works(test)
    BY <1>1, CitreaNeeds, ClementineNeeds DEF Works
  <2> QED BY <2>1, <2>2
<1> QED BY <1>1, InvCorrect, PTL
=============================================================================
