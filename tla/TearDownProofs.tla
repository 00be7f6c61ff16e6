--------------------------- MODULE TearDownProofs ---------------------------
(***************************************************************************)
(* Theorems about the tear-down in TestRunner, for every configuration of  *)
(* nodes: what a run may leave behind, running or in docker, and that no   *)
(* node is stopped before those that use it have been told to stop.        *)
(***************************************************************************)
EXTENDS TestRunnerProofs

-----------------------------------------------------------------------------
(* The inductive invariant                                                 *)

(* Where the nodes are that the body has spawned.                          *)
Origin ==
  /\ \A n \in Node : proc[n] # "absent" => n \in owned \cup fresh \cup strays
  /\ owned \cup fresh \cup strays \subseteq
       ToSet(Infra) \cup ToSet(Citrea) \cup ToSet(Clementine)
  /\ IF pc \in Body THEN strays = {} ELSE fresh = {}

(* Only a Citrea node changes between a container and a child.             *)
Docking ==
  \A n \in Node :
    /\ n \in docked => proc[n] # "absent"
    /\ n \notin ToSet(Citrea) /\ proc[n] # "absent" =>
         (n \in docked <=> n \in InDocker)
    /\ n \in docked \ ToSet(Bitcoins) => proc[n] # "term"

(* Who waits for the daemon: what the body awaits, and later what was cut. *)
Waiting == {n \in Node : proc[n] \in Pending}

Requests ==
  /\ Waiting \subseteq docked \cap (fresh \cup strays)
  /\ pc \in {"network", "infra", "fund", "spawn", "connect", "ready"} => Waiting = {}
  /\ pc = "rpc" => Waiting \subseteq {Infra[pos]}
  /\ pc = "client" => Waiting \subseteq {Citrea[pos]}
  /\ pc = "clementine" => Waiting \subseteq ToSet(Batches[pos])
  /\ pc \notin Body => \A n \in Waiting : proc[n] = "asked" => n \in unanswered

(* How far the body has got with handing the nodes to the framework.       *)
BeforeCitrea == {"network", "infra", "rpc", "fund"}
AfterAll == {"connect", "ready", "setup", "test"}

Progress ==
  /\ pc \in BeforeCitrea => owned \cup fresh \subseteq ToSet(Infra)
  /\ pc \in BeforeCitrea \ {"fund"} => owned = {}
  /\ pc = "fund" => fresh = {}
  /\ pc \in {"spawn", "client"} =>
       /\ fresh \subseteq ToSet(Citrea)
       /\ IF pos <= Len(Sequencers)
          THEN /\ owned \cap ToSet(Sequencers) = {}
               /\ \A i \in 1 .. pos - 1 : Sequencers[i] \in fresh
          ELSE /\ ToSet(Sequencers) \subseteq owned
               /\ fresh \cap ToSet(Sequencers) = {}
  /\ pc \in {"spawn", "client", "clementine"} => owned \cap ToSet(Clementine) = {}
  /\ pc = "clementine" =>
       /\ fresh \subseteq ToSet(Clementine)
       /\ \A k \in 1 .. pos - 1 : ToSet(Batches[k]) \subseteq fresh
  /\ pc \in AfterAll \cup {"clementine"} => ToSet(Sequencers) \subseteq owned
  /\ pc \in AfterAll => ToSet(Clementine) \subseteq owned /\ fresh \subseteq owned

(* The framework has all nodes of a cluster or none.                       *)
AllOrNone(s) == ToSet(s) \subseteq owned \/ ToSet(s) \cap owned = {}

Clusters == AllOrNone(Sequencers) /\ AllOrNone(Clementine)

(* Until the containers are removed only the test makes stop fail, and of  *)
(* what the framework has only the test restarts a node.                   *)
Gone ==
  /\ pc \in Body => \A n \in Node : proc[n] \in {"term", "exited", "gone"} => n \in lost \ fresh
  /\ pc \in Body \cup {"stop_clementine", "stop_sequencers"} =>
       \A n \in Node : proc[n] = "gone" => n \in lost
  /\ pc \in Body \cup {"stop_clementine"} =>
       \A n \in ToSet(Clementine) : proc[n] # "gone"
  /\ pc \in AfterAll => fresh \subseteq lost \ ToSet(Clementine)
  /\ pc \notin Body =>
       /\ strays \cap owned \cap ToSet(Sequencers) \subseteq lost
       /\ strays \cap owned \cap ToSet(Clementine) = {}

(* Stopped, or never to be, for the daemon refused.                        *)
Settled(n) == n \in owned \ strays /\ proc[n] = "up" => Unstoppable(n)

GivenUp(n) == \E m \in Node : (m \in lost \/ Unstoppable(m)) /\ Before(m, n, Sequencers)

FromBitcoin == {"stop_bitcoin", "cleanup", "returned"}
FromDocker == {"stop_docker", "remove", "stop_postgres"} \cup FromBitcoin
FromRoles == {"stop_roles"} \cup FromDocker
FromSequencers == {"stop_sequencers"} \cup FromRoles

(* What each step of the tear-down has achieved, once it is past.          *)
ClementineDown ==
  /\ pc = "stop_clementine" =>
       \A i \in DOMAIN Clementine : i < pos => Settled(Clementine[i])
  /\ pc \in FromSequencers => \A n \in ToSet(Clementine) : Settled(n)

SequencersDown ==
  /\ pc = "stop_sequencers" =>
       \A i \in DOMAIN Sequencers : i < pos => Settled(Sequencers[i])
  /\ pc \in FromRoles =>
       \A i \in DOMAIN Sequencers :
         /\ i = 1 => Settled(Sequencers[i])
         /\ Settled(Sequencers[i]) \/ GivenUp(Sequencers[i])

RolesDown ==
  /\ pc = "stop_roles" => \A i \in DOMAIN Roles : i < pos => Settled(Roles[i])
  /\ pc \in FromDocker => \A n \in ToSet(Roles) : Settled(n)

(* No container, or one that came too late for the list.                   *)
Removed(n) == proc[n] = "gone" \/ (n \in unanswered /\ proc[n] \in {"asked", "created"})

ContainersDown ==
  /\ pc = "remove" => \A n \in docked : n \in listed \/ Removed(n)
  /\ pc \in FromDocker \ {"stop_docker", "remove"} =>
       daemonErr \/ (~network /\ \A n \in docked : Removed(n))

BitcoinsDown ==
  pc = "returned" => \A n \in ToSet(Bitcoins) \cap owned : n \in docked \/ proc[n] # "up"

Downs ==
  framework /\ StopNodesOnExit =>
    ClementineDown /\ SequencersDown /\ RolesDown /\ ContainersDown /\ BitcoinsDown

TearInv ==
  /\ Origin /\ Docking /\ Requests /\ Progress /\ Gone /\ Downs
  /\ pc \in Ending => framework /\ Clusters

-----------------------------------------------------------------------------
(* The lists                                                               *)

LEMMA ConcatSets ==
  ASSUME NEW s \in Seq(Node), NEW t \in Seq(Node)
  PROVE  /\ s \o t \in Seq(Node)
         /\ ToSet(s \o t) = ToSet(s) \cup ToSet(t)
         /\ IsInjective(s \o t) => /\ ToSet(s) \cap ToSet(t) = {}
                                   /\ IsInjective(s) /\ IsInjective(t)
<1> DEFINE u == s \o t
<1>1. /\ u \in Seq(Node) /\ Len(u) = Len(s) + Len(t)
      /\ DOMAIN s = 1 .. Len(s) /\ DOMAIN t = 1 .. Len(t) /\ DOMAIN u = 1 .. Len(u)
      /\ Len(s) \in Nat /\ Len(t) \in Nat
      /\ \A i \in 1 .. Len(s) : u[i] = s[i]
      /\ \A i \in 1 .. Len(t) : u[Len(s) + i] = t[i]
  BY ConcatProperties
<1> HIDE DEF u
<1>2. \A i \in DOMAIN u : i \in DOMAIN s \/ (i - Len(s) \in DOMAIN t /\ u[i] = t[i - Len(s)])
  BY <1>1
<1>3. ToSet(u) = ToSet(s) \cup ToSet(t)
  <2>1. ToSet(s) \subseteq ToSet(u) BY <1>1 DEF ToSet
  <2>2. ToSet(t) \subseteq ToSet(u)
    <3>1. \A i \in DOMAIN t : Len(s) + i \in DOMAIN u BY <1>1
    <3> QED BY <1>1, <3>1 DEF ToSet
  <2>3. ToSet(u) \subseteq ToSet(s) \cup ToSet(t) BY <1>1, <1>2 DEF ToSet
  <2> QED BY <2>1, <2>2, <2>3
<1>4. ASSUME IsInjective(u)
      PROVE  ToSet(s) \cap ToSet(t) = {} /\ IsInjective(s) /\ IsInjective(t)
  <2>1. \A i \in DOMAIN s : i \in DOMAIN u /\ u[i] = s[i] BY <1>1
  <2>2. \A i \in DOMAIN t : Len(s) + i \in DOMAIN u /\ u[Len(s) + i] = t[i] BY <1>1
  <2>3. IsInjective(s) BY <1>4, <2>1 DEF IsInjective
  <2>4. IsInjective(t)
    <3> SUFFICES ASSUME NEW i \in DOMAIN t, NEW k \in DOMAIN t, t[i] = t[k] PROVE i = k
      BY DEF IsInjective
    <3>1. Len(s) + i = Len(s) + k BY <1>4, <2>2 DEF IsInjective
    <3> QED BY <1>1, <3>1
  <2>5. ASSUME NEW i \in DOMAIN s, NEW k \in DOMAIN t, s[i] = t[k] PROVE FALSE
    <3>1. i = Len(s) + k BY <1>4, <2>1, <2>2, <2>5 DEF IsInjective
    <3> QED BY <1>1, <3>1
  <2> QED BY <2>3, <2>4, <2>5 DEF ToSet
<1> QED BY <1>1, <1>3, <1>4 DEF u

(* No node is in two lists.                                                *)
LEMMA Disjoint ==
  /\ ToSet(Infra) = ToSet(Bitcoins) \cup ToSet(Postgres)
  /\ ToSet(Citrea) = ToSet(Sequencers) \cup ToSet(Roles)
  /\ ToSet(Infra) \cap ToSet(Citrea) = {}
  /\ ToSet(Infra) \cap ToSet(Clementine) = {}
  /\ ToSet(Citrea) \cap ToSet(Clementine) = {}
  /\ ToSet(Bitcoins) \cap ToSet(Postgres) = {}
  /\ ToSet(Sequencers) \cap ToSet(Roles) = {}
<1>1. IsInjective(Infra \o Citrea \o Clementine) BY ConfigAssumption DEF ConfigAssumption
<1>2. Infra \o Citrea \in Seq(Node) BY Lists, ConcatSets
<1>3. /\ IsInjective(Infra \o Citrea)
      /\ (ToSet(Infra) \cup ToSet(Citrea)) \cap ToSet(Clementine) = {}
  <2>1. /\ IsInjective(Infra \o Citrea)
        /\ ToSet(Infra \o Citrea) \cap ToSet(Clementine) = {}
    BY <1>1, <1>2, Lists, ConcatSets
  <2>2. ToSet(Infra \o Citrea) = ToSet(Infra) \cup ToSet(Citrea) BY Lists, ConcatSets
  <2> QED BY <2>1, <2>2
<1>4. /\ IsInjective(Infra) /\ IsInjective(Citrea)
      /\ ToSet(Infra) \cap ToSet(Citrea) = {}
  BY <1>3, Lists, ConcatSets
<1>5. /\ ToSet(Infra) = ToSet(Bitcoins) \cup ToSet(Postgres)
      /\ ToSet(Bitcoins) \cap ToSet(Postgres) = {}
  BY <1>4, Lists, ConcatSets DEF Infra
<1>6. /\ ToSet(Citrea) = ToSet(Sequencers) \cup ToSet(Roles)
      /\ ToSet(Sequencers) \cap ToSet(Roles) = {}
  BY <1>4, Lists, ConcatSets DEF Citrea
<1> QED BY <1>3, <1>4, <1>5, <1>6

Spawned == ToSet(Infra) \cup ToSet(Citrea) \cup ToSet(Clementine)

LEMMA Members ==
  /\ Spawned \subseteq Node
  /\ ToSet(Clementine) = ToSet(Verifiers) \cup ToSet(Operators) \cup ToSet(Aggregator)
  /\ \A k \in 1 .. 3 : ToSet(Batches[k]) \subseteq ToSet(Clementine)
  /\ ToSet(Clementine) = ToSet(Batches[1]) \cup ToSet(Batches[2]) \cup ToSet(Batches[3])
  /\ \A i \in 1 .. Len(Sequencers) : Citrea[i] = Sequencers[i]
  /\ Clementine # <<>> => WithClementine
  /\ \A i \in DOMAIN Clementine : Clementine[i] \in ToSet(Clementine)
  /\ \A i \in DOMAIN Sequencers : Sequencers[i] \in ToSet(Sequencers)
  /\ \A i \in DOMAIN Roles : Roles[i] \in ToSet(Roles)
<1>1. ToSet(Infra) \subseteq Node /\ ToSet(Citrea) \subseteq Node /\ ToSet(Clementine) \subseteq Node
  BY Lists DEF ToSet
<1>2. Verifiers \in Seq(Node) /\ Operators \in Seq(Node) /\ Aggregator \in Seq(Node)
  BY ConfigAssumption DEF ConfigAssumption
<1>3. /\ Aggregator \o Verifiers \in Seq(Node)
      /\ ToSet(Aggregator \o Verifiers) = ToSet(Aggregator) \cup ToSet(Verifiers)
  BY <1>2, ConcatSets
<1>4. ToSet(Clementine) = ToSet(Verifiers) \cup ToSet(Operators) \cup ToSet(Aggregator)
  <2>1. ToSet(Clementine) = ToSet(Aggregator \o Verifiers) \cup ToSet(Operators)
    BY <1>2, <1>3, ConcatSets DEF Clementine
  <2> QED BY <1>3, <2>1
<1>5. Batches[1] = Verifiers /\ Batches[2] = Operators /\ Batches[3] = Aggregator
  BY DEF Batches
<1>6. \A i \in 1 .. Len(Sequencers) : Citrea[i] = Sequencers[i]
  BY Lists, ConcatProperties DEF Citrea
<1>7. Clementine # <<>> => WithClementine BY ConfigAssumption DEF ConfigAssumption
<1>8. \A s : \A i \in DOMAIN s : s[i] \in ToSet(s) BY DEF ToSet
<1> QED BY <1>1, <1>4, <1>5, <1>6, <1>7, <1>8 DEF Spawned

(* The nodes after the sequencers in Citrea are no sequencers.             *)
LEMMA RolesFollow ==
  ASSUME NEW i \in DOMAIN Citrea, i > Len(Sequencers)
  PROVE  Citrea[i] \notin ToSet(Sequencers)
<1>1. i - Len(Sequencers) \in DOMAIN Roles /\ Citrea[i] = Roles[i - Len(Sequencers)]
  BY Lists, ConcatProperties DEF Citrea
<1>2. Citrea[i] \in ToSet(Roles) BY <1>1 DEF ToSet
<1> QED BY <1>2, Disjoint

LEMMA WhatIsInDocker ==
  /\ ToSet(Postgres) \subseteq InDocker
  /\ \A n \in ToSet(Clementine) : n \in InDocker <=> DockerClementine
<1>1. \A n \in ToSet(Clementine) :
        n \notin ToSet(Postgres) /\ n \notin ToSet(Bitcoins) /\ n \notin ToSet(Citrea)
  BY Disjoint
<1> QED BY <1>1 DEF InDocker

-----------------------------------------------------------------------------
(* The body                                                                *)

LEMMA TearInit ==
  ASSUME Init
  PROVE  TearInv
<1> USE DEF Init, Body, Ending, BeforeCitrea, AfterAll
<1>1. Origin BY DEF Origin
<1>2. Docking BY DEF Docking
<1>3. Progress BY DEF Progress
<1>4. Gone BY Members DEF Gone, Spawned
<1>5. Requests BY DEF Requests, Waiting, Pending
<1> QED BY <1>1, <1>2, <1>3, <1>4, <1>5 DEF TearInv, Downs

(* A step by which the body goes on.                                       *)
BodyGoesOn ==
  \/ CreateNetwork \/ SpawnInfra \/ InfraReady \/ FundWallets \/ SpawnCitrea
  \/ BuildCitrea \/ (\E n \in Node : SpawnClementine(n)) \/ ClementineJoined
  \/ ConnectBitcoins \/ WaitForReady \/ SetUpDone

(* It spawns a node, or hands over what it has.                            *)
LEMMA BodyMoves ==
  ASSUME Inv, TearInv, BodyGoesOn
  PROVE  /\ pc \in Body /\ pc' \in Body /\ UNCHANGED <<strays, unanswered, lost>>
         /\ \/ /\ UNCHANGED <<proc, docked>> /\ owned' \cup fresh' = owned \cup fresh
               /\ fresh' = fresh \/ fresh' = {}
            \/ \E n \in Spawned : Spawns(n) /\ UNCHANGED owned
<1> USE DEF Body, GoTo, bodyVars, leftVars, nodeVars
<1>0. Position BY DEF Inv
<1>1. CASE CreateNetwork \/ ConnectBitcoins \/ WaitForReady \/ SetUpDone
  BY <1>1 DEF CreateNetwork, ConnectBitcoins, WaitForReady, SetUpDone
<1>2. CASE SpawnInfra
  <2>1. Infra[pos] \in Spawned BY <1>0, <1>2 DEF SpawnInfra, Position, Spawned, ToSet
  <2> QED BY <1>2, <2>1 DEF SpawnInfra
<1>3. CASE InfraReady
  <2>1. owned = {} BY <1>3 DEF InfraReady, TearInv, Progress, BeforeCitrea
  <2> QED BY <1>3, <2>1 DEF InfraReady
<1>4. CASE FundWallets BY <1>4 DEF FundWallets, AfterCitrea
<1>5. CASE SpawnCitrea
  <2>1. Citrea[pos] \in Spawned BY <1>0, <1>5 DEF SpawnCitrea, Position, Spawned, ToSet
  <2> QED BY <1>5, <2>1 DEF SpawnCitrea
<1>6. CASE BuildCitrea BY <1>6 DEF BuildCitrea, AfterCitrea
<1>7. ASSUME NEW n \in Node, SpawnClementine(n)
      PROVE  /\ pc' = pc /\ UNCHANGED <<strays, unanswered, lost>>
             /\ \E m \in Spawned : Spawns(m) /\ UNCHANGED owned
  <2>1. n \in Spawned
    BY <1>0, <1>7, Members DEF SpawnClementine, Position, Spawned
  <2> QED BY <1>7, <2>1 DEF SpawnClementine
<1>8. CASE ClementineJoined BY <1>8 DEF ClementineJoined
<1> QED
  BY <1>1, <1>2, <1>3, <1>4, <1>5, <1>6, <1>7, <1>8 DEF BodyGoesOn, SpawnClementine

LEMMA SpawnsKeep ==
  ASSUME DataOK, Origin, Docking, pc \in Body, pc' \in Body,
         UNCHANGED <<strays, lost, owned>>, NEW n \in Spawned, Spawns(n)
  PROVE  Origin' /\ Docking'
<1>1. n \in Node BY Members
<1>2. /\ proc'[n] \in {"up", "asked"} /\ fresh' = fresh \cup {n}
      /\ docked' = docked \cup ({n} \cap InDocker)
      /\ \A m \in Node : m # n => proc'[m] = proc[m]
  BY <1>1 DEF Spawns, DataOK
<1>3. Origin' BY <1>2 DEF Origin, Spawned
<1>4. Docking' BY <1>2 DEF Docking
<1> QED BY <1>3, <1>4

(* A node that is spawned is another one that waits, if it is a container. *)
LEMMA SpawnsWaiting ==
  ASSUME DataOK, NEW n \in Node, Spawns(n)
  PROVE  Waiting' \subseteq Waiting \cup ({n} \cap docked')
<1>1. /\ \A m \in Node : m # n => proc'[m] = proc[m]
      /\ proc'[n] = IF n \in InDocker THEN "asked" ELSE "up"
      /\ n \in InDocker => n \in docked'
  BY DEF Spawns, DataOK
<1> QED BY <1>1 DEF Waiting, Pending

LEMMA BodyProgress ==
  ASSUME Inv, TearInv, BodyGoesOn
  PROVE  Progress'
<1>0. /\ DataOK /\ Position /\ HasSender /\ Progress /\ pos \in Nat \ {0}
      /\ owned \cup fresh \subseteq Spawned
  BY DEF Inv, TearInv, DataOK, Origin, Spawned
<1> USE DEF Progress, BeforeCitrea, AfterAll, GoTo, bodyVars, leftVars, nodeVars
<1>1. CASE CreateNetwork BY <1>0, <1>1 DEF CreateNetwork
<1>2. CASE SpawnInfra
  <2>1. Infra[pos] \in ToSet(Infra) BY <1>0, <1>2 DEF SpawnInfra, Position, ToSet
  <2> QED BY <1>0, <1>2, <2>1 DEF SpawnInfra, Spawns
<1>3. CASE InfraReady BY <1>0, <1>3 DEF InfraReady
<1>4. CASE FundWallets
  <2>1. CASE Citrea # <<>>
    <3>1. owned \cap ToSet(Sequencers) = {} /\ owned \cap ToSet(Clementine) = {}
      BY <1>0, <1>4, Disjoint DEF FundWallets
    <3>2. 1 <= Len(Sequencers) \/ ToSet(Sequencers) = {}
      BY Lists, EmptySeq DEF ToSet
    <3> QED BY <1>0, <1>4, <2>1, <3>1, <3>2 DEF FundWallets
  <2>2. CASE Citrea = <<>>
    <3>1. ToSet(Sequencers) = {} BY <2>2, Disjoint DEF ToSet
    <3>2. owned \cap ToSet(Clementine) = {} BY <1>0, <1>4, Disjoint DEF FundWallets
    <3>3. ~WithClementine => ToSet(Clementine) = {} BY Members DEF ToSet
    <3> QED BY <1>0, <1>4, <2>2, <3>1, <3>2, <3>3 DEF FundWallets, AfterCitrea
  <2> QED BY <2>1, <2>2
<1>5. CASE SpawnCitrea
  <2>1. Citrea[pos] \in ToSet(Citrea) BY <1>0, <1>5 DEF SpawnCitrea, Position, ToSet
  <2>2. pos > Len(Sequencers) => Citrea[pos] \notin ToSet(Sequencers)
    BY <1>0, <1>5, RolesFollow DEF SpawnCitrea, Position
  <2> QED BY <1>0, <1>5, <2>1, <2>2, Lists DEF SpawnCitrea, Spawns
<1>6. CASE BuildCitrea
  <2>1. Len(Sequencers) \in Nat /\ Len(Citrea) \in Nat /\ pos \in 1 .. Len(Citrea)
    BY <1>0, <1>6, Lists DEF BuildCitrea, Position
  <2>2. Citrea[pos] \in fresh BY <1>0, <1>6 DEF BuildCitrea, HasSender
  <2>3. CASE pos < Len(Sequencers)
    <3>1. pos < Len(Citrea) BY <2>1, <2>3, Lists
    <3>2. \A i \in 1 .. pos : Sequencers[i] \in fresh
      BY <1>0, <1>6, <2>1, <2>2, <2>3, Members DEF BuildCitrea
    <3> QED BY <1>0, <1>6, <2>1, <2>3, <3>1, <3>2 DEF BuildCitrea
  <2>4. CASE ~(pos < Len(Sequencers))
    <3>1. ToSet(Sequencers) \subseteq owned \cup fresh
      <4>1. CASE pos = Len(Sequencers)
        <5>1. \A i \in 1 .. pos : Sequencers[i] \in fresh
          BY <1>0, <1>6, <2>1, <2>2, <4>1, Members DEF BuildCitrea
        <5> QED BY <4>1, <5>1, Lists DEF ToSet
      <4>2. CASE pos > Len(Sequencers) BY <1>0, <1>6, <2>1, <4>2 DEF BuildCitrea
      <4> QED BY <2>1, <2>4, <4>1, <4>2
    <3>2. owned' = owned \cup fresh /\ fresh' = {} BY <1>6, <2>4 DEF BuildCitrea
    <3>3. owned' \cap ToSet(Clementine) = {}
      BY <1>0, <1>6, <3>2, Disjoint DEF BuildCitrea
    <3>4. CASE pos < Len(Citrea)
      BY <1>0, <1>6, <2>1, <2>4, <3>1, <3>2, <3>3, <3>4 DEF BuildCitrea
    <3>5. CASE ~(pos < Len(Citrea))
      <4>1. pc' = AfterCitrea /\ pos' = 1 BY <1>6, <3>5 DEF BuildCitrea
      <4>2. ~WithClementine => ToSet(Clementine) = {} BY Members DEF ToSet
      <4> QED BY <3>1, <3>2, <3>3, <4>1, <4>2 DEF AfterCitrea
    <3> QED BY <3>4, <3>5
  <2> QED BY <2>3, <2>4
<1>7. ASSUME NEW n \in Node, SpawnClementine(n) PROVE Progress'
  <2>1. n \in ToSet(Clementine) BY <1>0, <1>7, Members DEF SpawnClementine, Position
  <2> QED BY <1>0, <1>7, <2>1 DEF SpawnClementine, Spawns
<1>8. CASE ClementineJoined
  <2>1. pos \in 1 .. 3 /\ \A k \in 1 .. pos : ToSet(Batches[k]) \subseteq fresh
    BY <1>0, <1>8 DEF ClementineJoined, Position
  <2>2. CASE pos < 3
    <3>1. pc' = "clementine" /\ pos' = pos + 1 /\ UNCHANGED <<owned, fresh>>
      BY <1>8, <2>2, Lists DEF ClementineJoined
    <3> QED BY <1>0, <1>8, <2>1, <3>1 DEF ClementineJoined
  <2>3. CASE pos = 3
    <3>1. ToSet(Clementine) \subseteq fresh BY <2>1, <2>3, Members
    <3> QED BY <1>0, <1>8, <2>3, <3>1, Lists DEF ClementineJoined
  <2> QED BY <2>1, <2>2, <2>3
<1>9. CASE ConnectBitcoins \/ WaitForReady \/ SetUpDone
  BY <1>0, <1>9 DEF ConnectBitcoins, WaitForReady, SetUpDone
<1> QED BY <1>1, <1>2, <1>3, <1>4, <1>5, <1>6, <1>7, <1>8, <1>9 DEF BodyGoesOn

LEMMA BodyGone ==
  ASSUME Inv, TearInv, BodyGoesOn, Progress'
  PROVE  Gone'
<1>0. /\ DataOK /\ Gone /\ Progress /\ owned \cup fresh \subseteq Spawned
      /\ pc \in Body /\ pc' \in Body /\ UNCHANGED <<strays, lost>>
  BY BodyMoves DEF Inv, TearInv, Origin, Spawned
<1>1. /\ \A n \in Node : proc'[n] \in {"term", "exited", "gone"} => n \in lost' \ fresh'
      /\ \A n \in Node : proc'[n] = "gone" => n \in lost'
      /\ \A n \in Node : proc'[n] = "gone" => proc[n] = "gone"
  <2>1. CASE UNCHANGED <<proc, docked>> /\ (fresh' = fresh \/ fresh' = {})
    BY <1>0, <2>1 DEF Gone
  <2>2. ASSUME NEW n \in Spawned, Spawns(n)
        PROVE  \A m \in Node :
                 /\ proc'[m] \in {"term", "exited", "gone"} => m \in lost' \ fresh'
                 /\ proc'[m] = "gone" => m \in lost'
                 /\ proc'[m] = "gone" => proc[m] = "gone"
    <3>1. /\ proc'[n] \in {"up", "asked"} /\ fresh' = fresh \cup {n}
          /\ \A m \in Node : m # n => proc'[m] = proc[m]
      BY <2>2, Members DEF Spawns, DataOK, Inv
    <3> QED BY <1>0, <3>1 DEF Gone
  <2> QED BY <2>1, <2>2, BodyMoves
<1>2. \A n \in ToSet(Clementine) : proc'[n] # "gone"
  BY <1>0, <1>1, Members DEF Gone, Spawned
<1>3. pc' \in AfterAll => fresh' \subseteq lost' \ ToSet(Clementine)
  <2> USE DEF GoTo, bodyVars, leftVars, nodeVars, AfterAll
  <2>1. CASE ConnectBitcoins \/ WaitForReady \/ SetUpDone
    BY <1>0, <2>1 DEF ConnectBitcoins, WaitForReady, SetUpDone, Gone
  <2>2. CASE CreateNetwork \/ SpawnInfra \/ InfraReady \/ SpawnCitrea
             \/ \E n \in Node : SpawnClementine(n)
    BY <2>2 DEF CreateNetwork, SpawnInfra, InfraReady, SpawnCitrea, SpawnClementine
  <2>3. CASE FundWallets BY <1>0, <2>3 DEF FundWallets, AfterCitrea, Progress
  <2>4. CASE BuildCitrea
    <3>1. pos \in Nat /\ Len(Citrea) = Len(Sequencers) + Len(Roles)
          /\ Len(Sequencers) \in Nat /\ Len(Roles) \in Nat
      BY <1>0, Lists DEF DataOK
    <3>2. pos < Len(Citrea) => pc' \notin AfterAll BY <2>4 DEF BuildCitrea
    <3>3. ~(pos < Len(Citrea)) => fresh' = {} BY <2>4, <3>1 DEF BuildCitrea
    <3> QED BY <3>2, <3>3
  <2>5. CASE ClementineJoined BY <2>5 DEF ClementineJoined
  <2> QED BY <2>1, <2>2, <2>3, <2>4, <2>5 DEF BodyGoesOn
<1> QED BY <1>0, <1>1, <1>2, <1>3 DEF Gone

LEMMA BodyRequests ==
  ASSUME Inv, TearInv, BodyGoesOn
  PROVE  Requests'
<1>0. /\ DataOK /\ Position /\ Requests /\ strays = {} /\ pos \in Nat \ {0}
      /\ pc \in Body /\ pc' \in Body /\ strays' = {}
  BY BodyMoves DEF Inv, TearInv, Origin, DataOK
<1> USE DEF GoTo, bodyVars, leftVars, nodeVars
<1>1. ASSUME Waiting = {}, UNCHANGED proc PROVE Requests'
  BY <1>0, <1>1 DEF Requests, Waiting
<1>2. CASE \/ CreateNetwork \/ FundWallets \/ ConnectBitcoins \/ WaitForReady
  <2>1. Waiting = {} /\ UNCHANGED proc
    BY <1>0, <1>2 DEF CreateNetwork, FundWallets, ConnectBitcoins, WaitForReady, Requests
  <2> QED BY <1>1, <2>1
<1>3. CASE InfraReady
  <2>1. Waiting = {} BY <1>0, <1>3 DEF InfraReady, Requests, Waiting, Pending
  <2> QED BY <1>1, <1>3, <2>1 DEF InfraReady
<1>4. CASE BuildCitrea
  <2>1. Waiting = {} BY <1>0, <1>4 DEF BuildCitrea, Requests, Waiting
  <2> QED BY <1>1, <1>4, <2>1 DEF BuildCitrea
<1>5. CASE ClementineJoined
  <2>1. Waiting = {} BY <1>0, <1>5 DEF ClementineJoined, Requests, Waiting
  <2> QED BY <1>1, <1>5, <2>1 DEF ClementineJoined
<1>6. CASE SetUpDone BY <1>0, <1>6 DEF SetUpDone, Requests, Waiting
<1>7. CASE SpawnInfra
  <2>1. Infra[pos] \in Node BY <1>0, <1>7, Lists DEF SpawnInfra, Position
  <2>2. Waiting = {} /\ Waiting' \subseteq {Infra[pos]} \cap docked'
    BY <1>0, <1>7, <2>1, SpawnsWaiting DEF SpawnInfra, Requests
  <2> QED BY <1>0, <1>7, <2>2 DEF SpawnInfra, Spawns, Requests
<1>8. CASE SpawnCitrea
  <2>1. Citrea[pos] \in Node BY <1>0, <1>8, Lists DEF SpawnCitrea, Position
  <2>2. Waiting = {} /\ Waiting' \subseteq {Citrea[pos]} \cap docked'
    BY <1>0, <1>8, <2>1, SpawnsWaiting DEF SpawnCitrea, Requests
  <2> QED BY <1>0, <1>8, <2>2 DEF SpawnCitrea, Spawns, Requests
<1>9. ASSUME NEW n \in Node, SpawnClementine(n) PROVE Requests'
  <2>1. Waiting' \subseteq Waiting \cup ({n} \cap docked')
    BY <1>0, <1>9, SpawnsWaiting DEF SpawnClementine
  <2> QED BY <1>0, <1>9, <2>1 DEF SpawnClementine, Spawns, Requests
<1> QED BY <1>2, <1>3, <1>4, <1>5, <1>6, <1>7, <1>8, <1>9 DEF BodyGoesOn

LEMMA BodyTear ==
  ASSUME Inv, TearInv, BodyGoesOn
  PROVE  TearInv'
<1>0. DataOK /\ Origin /\ Docking BY DEF Inv, TearInv
<1>1. /\ pc \in Body /\ pc' \in Body /\ UNCHANGED <<strays, lost>>
      /\ \/ UNCHANGED <<proc, docked>> /\ owned' \cup fresh' = owned \cup fresh
         \/ \E n \in Spawned : Spawns(n) /\ UNCHANGED owned
  BY BodyMoves
<1>2. Origin' /\ Docking'
  <2>1. CASE UNCHANGED <<proc, docked>> /\ owned' \cup fresh' = owned \cup fresh
    BY <1>0, <1>1, <2>1 DEF Origin, Docking
  <2>2. ASSUME NEW n \in Spawned, Spawns(n) /\ UNCHANGED owned
        PROVE  Origin' /\ Docking'
    BY <1>0, <1>1, <2>2, SpawnsKeep
  <2> QED BY <1>1, <2>1, <2>2
<1>3. Progress' /\ Requests' BY BodyProgress, BodyRequests
<1>4. Gone' BY <1>3, BodyGone
<1>5. Downs' /\ pc' \notin Ending
  BY <1>1 DEF Downs, ClementineDown, SequencersDown, RolesDown, ContainersDown, BitcoinsDown,
              FromSequencers, FromRoles, FromDocker, FromBitcoin, Body, Ending
<1> QED BY <1>2, <1>3, <1>4, <1>5 DEF TearInv

(* Wherever the body ends, a cluster is in the framework or is not.        *)
LEMMA ClustersWhole ==
  ASSUME Progress, pc \in Body
  PROVE  Clusters
<1> USE DEF Progress, Clusters, AllOrNone, BeforeCitrea, AfterAll
<1>1. CASE pc \in BeforeCitrea BY <1>1, Disjoint
<1>2. CASE pc \in {"spawn", "client"} BY <1>2
<1>3. CASE pc = "clementine" BY <1>3
<1>4. CASE pc \in AfterAll BY <1>4
<1> QED BY <1>1, <1>2, <1>3, <1>4 DEF Body

(* What the framework has of the cut is a restart, of no Clementine node.  *)
LEMMA CutRestarts ==
  ASSUME Progress, Gone, pc \in Body
  PROVE  /\ fresh \cap owned \cap ToSet(Sequencers) \subseteq lost
         /\ fresh \cap owned \cap ToSet(Clementine) = {}
<1> USE DEF Progress, Gone, BeforeCitrea, AfterAll
<1>1. CASE pc \in BeforeCitrea BY <1>1, Disjoint
<1>2. CASE pc \in {"spawn", "client"}
  <2>1. fresh \cap owned \cap ToSet(Sequencers) = {} BY <1>2
  <2> QED BY <1>2, <2>1
<1>3. CASE pc = "clementine" BY <1>3, Disjoint
<1>4. CASE pc \in AfterAll BY <1>4
<1> QED BY <1>1, <1>2, <1>3, <1>4 DEF Body

LEMMA DropsOnly ==
  ASSUME NEW S, Drop(S)
  PROVE  \A n \in Node :
           /\ \/ proc'[n] = proc[n]
              \/ proc[n] = "up" /\ proc'[n] = "term" /\ n \in ToSet(Bitcoins) \ docked
           /\ n \in S \cap ToSet(Bitcoins) => n \in docked \/ proc'[n] # "up"
BY DEF Drop

LEMMA EndBodyTear ==
  ASSUME Inv, TearInv, pc \in Body, NEW v, EndBody(v)
  PROVE  TearInv'
<1>0. DataOK /\ Origin /\ Docking /\ Requests /\ Gone /\ Progress BY DEF Inv, TearInv
<1>1. /\ strays' = fresh /\ fresh' = {} /\ pos' = 1
      /\ unanswered' = {n \in fresh : proc[n] = "asked"}
      /\ UNCHANGED <<framework, owned, docked, lost>>
      /\ pc' = IF ~framework THEN "returned"
               ELSE IF StopNodesOnExit THEN "stop_clementine" ELSE "cleanup"
  BY DEF EndBody, LeaveBody
<1>2. \A n \in Node :
        \/ proc'[n] = proc[n]
        \/ proc[n] = "up" /\ proc'[n] = "term" /\ n \notin docked
  <2>1. Drop(fresh) BY DEF EndBody, LeaveBody
  <2> HIDE DEF Drop
  <2> QED BY <2>1, DropsOnly
<1>3. pc' \in {"returned", "stop_clementine", "cleanup"} BY <1>1
<1>4. Origin' BY <1>0, <1>1, <1>2, <1>3 DEF Origin, Body
<1>5. Docking' BY <1>0, <1>1, <1>2 DEF Docking
<1>11. Requests'
  <2>1. /\ Waiting' = Waiting /\ \A n \in Waiting : proc'[n] = proc[n]
        /\ Waiting \subseteq docked \cap fresh
    BY <1>0, <1>2 DEF Requests, Waiting, Pending, Origin
  <2> QED BY <1>1, <1>3, <2>1 DEF Requests
<1>6. Progress' BY <1>3 DEF Progress, BeforeCitrea, AfterAll
<1>7. Gone'
  <2>1. \A n \in Node : proc'[n] = "gone" <=> proc[n] = "gone" BY <1>2
  <2>2. /\ strays' \cap owned' \cap ToSet(Sequencers) \subseteq lost'
        /\ strays' \cap owned' \cap ToSet(Clementine) = {}
    BY <1>0, <1>1, CutRestarts
  <2>3. pc' \notin Body /\ pc' \notin AfterAll BY <1>3 DEF Body, AfterAll
  <2> QED BY <1>0, <1>1, <2>1, <2>2, <2>3, Members DEF Gone, Spawned
<1>8. Clusters' BY <1>0, <1>1, ClustersWhole DEF Clusters, AllOrNone
<1>9. Downs'
  <2> SUFFICES ASSUME framework, StopNodesOnExit
               PROVE  (ClementineDown /\ SequencersDown /\ RolesDown
                        /\ ContainersDown /\ BitcoinsDown)'
    BY <1>1 DEF Downs
  <2>1. pc' = "stop_clementine" BY <1>1
  <2> QED
    BY <1>1, <2>1, Lists
    DEF ClementineDown, SequencersDown, RolesDown, ContainersDown, BitcoinsDown,
        FromSequencers, FromRoles, FromDocker, FromBitcoin
<1>10. pc' \in Ending => framework' BY <1>1 DEF Ending
<1> QED BY <1>4, <1>5, <1>6, <1>7, <1>8, <1>9, <1>10, <1>11 DEF TearInv

-----------------------------------------------------------------------------
(* The processes and the test                                              *)

(* What a node, the daemon or a refusal of it cannot undo.                 *)
LEMMA SettledKept ==
  ASSUME UNCHANGED <<owned, strays, docked>>, daemonErr => daemonErr', lost \subseteq lost',
         \A n \in Node : proc'[n] = "up" => proc[n] = "up" \/ n \in strays
  PROVE  \A n \in Node : (Settled(n) => Settled(n)') /\ (GivenUp(n) => GivenUp(n)')
BY DEF Settled, GivenUp, Unstoppable, Before

LEMMA DownsKept ==
  ASSUME Downs, UNCHANGED <<pc, pos, framework, owned, strays, listed, docked, network>>,
         daemonErr => daemonErr', lost \subseteq lost',
         \A n \in Node : /\ proc'[n] = "up" => proc[n] = "up" \/ n \in strays \cap docked
                         /\ Removed(n) => Removed(n)',
         docked \subseteq Node
  PROVE  Downs'
<1> SUFFICES ASSUME framework, StopNodesOnExit
             PROVE  (ClementineDown /\ SequencersDown /\ RolesDown
                      /\ ContainersDown /\ BitcoinsDown)'
  BY DEF Downs
<1>1. ClementineDown /\ SequencersDown /\ RolesDown /\ ContainersDown /\ BitcoinsDown
  BY DEF Downs
<1>2. \A n \in Node : (Settled(n) => Settled(n)') /\ (GivenUp(n) => GivenUp(n)')
  BY SettledKept
<1>3. /\ \A i \in DOMAIN Clementine : Clementine[i] \in Node
      /\ \A i \in DOMAIN Sequencers : Sequencers[i] \in Node
      /\ \A i \in DOMAIN Roles : Roles[i] \in Node
      /\ ToSet(Clementine) \subseteq Node /\ ToSet(Roles) \subseteq Node
      /\ ToSet(Bitcoins) \subseteq Node
  BY Lists DEF ToSet
<1>4. ClementineDown' BY <1>1, <1>2, <1>3 DEF ClementineDown
<1>5. SequencersDown' BY <1>1, <1>2, <1>3 DEF SequencersDown
<1>6. RolesDown' BY <1>1, <1>2, <1>3 DEF RolesDown
<1>7. ContainersDown' BY <1>1 DEF ContainersDown
<1>8. BitcoinsDown' BY <1>1, <1>3 DEF BitcoinsDown
<1> QED BY <1>4, <1>5, <1>6, <1>7, <1>8

LEMMA TestTear ==
  ASSUME Inv, TearInv, TestStep
  PROVE  TearInv'
<1>0. /\ DataOK /\ Origin /\ Docking /\ Gone /\ Progress /\ Requests
  BY DEF Inv, TearInv
<1>1. PICK n \in Node : TestStops(n) \/ TestReaps(n) \/ TestStarts(n) \/ TestStarted(n)
  BY DEF TestStep
<1>2. /\ pc \in {"setup", "test"}
      /\ UNCHANGED <<pc, pos, owned, strays, unanswered>>
      /\ \A m \in Node : m # n => proc'[m] = proc[m]
      /\ \A m \in Node : m # n => (m \in docked' <=> m \in docked)
  BY <1>0, <1>1
  DEF TestStops, TestReaps, TestStarts, TestStarted, TestRuns, bodyVars, leftVars, DataOK
<1>3. /\ strays = {} /\ fresh \subseteq owned /\ fresh \subseteq lost \ ToSet(Clementine)
      /\ proc[n] = "gone" => n \in owned /\ n \in lost \ fresh /\ n \notin ToSet(Clementine)
      /\ ToSet(Sequencers) \subseteq owned /\ ToSet(Clementine) \subseteq owned
      /\ Waiting \subseteq docked \cap fresh
  BY <1>0, <1>2 DEF Origin, Progress, Gone, Requests, Body, BeforeCitrea, AfterAll
<1>4. Downs' /\ pc' \notin Ending
  BY <1>2 DEF Downs, ClementineDown, SequencersDown, RolesDown, ContainersDown, BitcoinsDown,
              FromSequencers, FromRoles, FromDocker, FromBitcoin, Body, Ending
<1>5. ASSUME /\ fresh' \subseteq owned
             /\ fresh' \subseteq lost' \ ToSet(Clementine)
             /\ Waiting' \subseteq docked' \cap fresh'
             /\ \A m \in Node : proc'[m] \in {"term", "exited", "gone"} => m \in lost' \ fresh'
             /\ proc'[n] = "gone" => n \notin ToSet(Clementine)
             /\ proc'[n] # "absent" => proc[n] # "absent"
             /\ n \in docked' => proc'[n] # "absent"
             /\ n \notin ToSet(Citrea) => (n \in docked' <=> n \in docked)
             /\ n \in docked' \ ToSet(Bitcoins) => proc'[n] # "term"
      PROVE  TearInv'
  <2>1. Origin' BY <1>0, <1>2, <1>3, <1>5 DEF Origin, Body
  <2>2. Docking' BY <1>0, <1>2, <1>5 DEF Docking
  <2>3. Progress' BY <1>2, <1>3, <1>5 DEF Progress, BeforeCitrea, AfterAll
  <2>4. Gone'
    <3>1. \A m \in ToSet(Clementine) : proc'[m] # "gone"
      BY <1>0, <1>2, <1>5, Members DEF Gone, Body, Spawned
    <3> QED BY <1>2, <1>5, <3>1 DEF Gone, Body
  <2>5. Requests' BY <1>2, <1>5 DEF Requests, Body
  <2> QED BY <1>4, <2>1, <2>2, <2>3, <2>4, <2>5 DEF TearInv
<1>6. CASE TestStops(n)
  <2>1. /\ proc'[n] = Stopped(n) /\ proc[n] # "gone" /\ n \in owned \ fresh
        /\ lost' = lost \cup {n} /\ UNCHANGED <<docked, fresh>>
    BY <1>0, <1>6 DEF TestStops, DataOK, bodyVars
  <2>2. /\ proc'[n] = "absent" <=> proc[n] = "absent"
        /\ proc'[n] # "gone"
        /\ proc'[n] \in Pending => proc[n] \in Pending
        /\ n \in docked /\ proc'[n] = "term" => proc[n] = "term"
    BY <2>1 DEF Stopped, Pending
  <2>3. Waiting' \subseteq Waiting BY <1>2, <2>2 DEF Waiting
  <2>4. \A m \in Node : proc'[m] \in {"term", "exited", "gone"} => m \in lost' \ fresh'
    BY <1>0, <1>2, <2>1 DEF Gone, Body
  <2>5. n \in docked' \ ToSet(Bitcoins) => proc'[n] # "term"
    BY <1>0, <2>1, <2>2 DEF Docking
  <2> QED BY <1>0, <1>3, <1>5, <2>1, <2>2, <2>3, <2>4, <2>5 DEF Docking
<1>7. CASE TestReaps(n)
  <2>1. /\ proc[n] = "exited" /\ proc'[n] = "gone" /\ n \notin ToSet(Clementine)
        /\ UNCHANGED <<docked, fresh, lost>>
    BY <1>0, <1>7 DEF TestReaps, DataOK, bodyVars
  <2>2. Waiting' \subseteq Waiting BY <1>2, <2>1 DEF Waiting, Pending
  <2>3. \A m \in Node : proc'[m] \in {"term", "exited", "gone"} => m \in lost' \ fresh'
    BY <1>0, <1>2, <2>1 DEF Gone, Body
  <2> QED BY <1>3, <1>5, <2>1, <2>2, <2>3
<1>8. CASE TestStarts(n) /\ n \in docked'
  <2>1. proc' = [proc EXCEPT ![n] = "asked"] /\ fresh' = fresh \cup {n} /\ UNCHANGED lost
    BY <1>8 DEF TestStarts
  <2>2. /\ proc[n] = "gone" /\ proc'[n] = "asked"
        /\ n \notin ToSet(Citrea) => (n \in docked' <=> n \in docked)
    BY <1>0, <1>8, <2>1 DEF TestStarts, DataOK
  <2>3. Waiting' \subseteq Waiting \cup {n} BY <1>2 DEF Waiting
  <2>4. Waiting' \subseteq docked' \cap fresh'
    BY <1>0, <1>2, <1>3, <1>8, <2>1, <2>3 DEF DataOK
  <2>5. \A m \in Node : proc'[m] \in {"term", "exited", "gone"} => m \in lost' \ fresh'
    BY <1>0, <1>2, <2>1, <2>2 DEF Gone, Body
  <2> QED BY <1>3, <1>5, <1>8, <2>1, <2>2, <2>4, <2>5
<1>9. CASE TestStarts(n) /\ n \notin docked'
  <2>1. proc' = [proc EXCEPT ![n] = "up"] /\ lost' = lost \ {n} /\ UNCHANGED fresh
    BY <1>9 DEF TestStarts
  <2>2. /\ proc[n] = "gone" /\ proc'[n] = "up"
        /\ n \notin ToSet(Citrea) => (n \in docked' <=> n \in docked)
    BY <1>0, <1>9, <2>1 DEF TestStarts, DataOK
  <2>3. Waiting' \subseteq Waiting \ {n} BY <1>2, <2>2 DEF Waiting, Pending
  <2>4. Waiting' \subseteq docked' \cap fresh'
    BY <1>0, <1>2, <1>3, <2>1, <2>3 DEF DataOK
  <2>5. \A m \in Node : proc'[m] \in {"term", "exited", "gone"} => m \in lost' \ fresh'
    BY <1>0, <1>2, <2>1, <2>2 DEF Gone, Body
  <2> QED BY <1>3, <1>5, <1>9, <2>1, <2>2, <2>4, <2>5
<1>10. CASE TestStarted(n)
  <2>1. /\ n \in fresh /\ proc[n] \notin Pending /\ fresh' = fresh \ {n}
        /\ UNCHANGED <<docked, proc>>
        /\ lost' = IF proc[n] = "up" THEN lost \ {n} ELSE lost
    BY <1>10 DEF TestStarted
  <2>2. Waiting' = Waiting /\ n \notin Waiting BY <2>1 DEF Waiting
  <2>3. \A m \in Node : proc'[m] \in {"term", "exited", "gone"} => m \in lost' \ fresh'
    BY <1>0, <1>2, <2>1 DEF Gone, Body
  <2>4. fresh' \subseteq lost' BY <1>3, <2>1
  <2> QED BY <1>0, <1>3, <1>5, <2>1, <2>2, <2>3, <2>4 DEF Docking
<1> QED BY <1>1, <1>6, <1>7, <1>8, <1>9, <1>10

(* What a process or the daemon does, also to a container that is awaited. *)
LEMMA NodeTear ==
  ASSUME Inv, TearInv, NodeStep \/ \E n \in Node : AskStart(n)
  PROVE  TearInv'
<1>0. /\ DataOK /\ Origin /\ Docking /\ Gone /\ Progress /\ Requests /\ Downs
  BY DEF Inv, TearInv
<1>1. PICK n \in Node :
        \/ ProcessExits(n) \/ Crash(n) \/ PanicLine(n) \/ ReportPanic(n) \/ OpenFails(n)
        \/ DaemonCreates(n) \/ DaemonStarts(n) \/ AskStart(n)
  BY DEF NodeStep
<1>2. /\ UNCHANGED <<pc, pos, framework, owned, fresh, strays, unanswered, listed, docked,
                     network, daemonErr>>
      /\ \A m \in Node : m # n => proc'[m] = proc[m]
      /\ \/ proc'[n] = proc[n] /\ UNCHANGED lost
         \/ proc[n] = "term" /\ proc'[n] = "exited" /\ UNCHANGED lost
         \/ proc[n] = "up" /\ proc'[n] = "crashed" /\ lost' = lost \cup {n}
         \/ proc[n] = "asked" /\ proc'[n] = "created" /\ UNCHANGED lost
         \/ proc[n] = "starting" /\ proc'[n] = "up" /\ UNCHANGED lost
         \/ pc \in Body /\ proc[n] = "created" /\ proc'[n] = "starting" /\ UNCHANGED lost
  BY <1>0, <1>1
  DEF ProcessExits, Crash, PanicLine, ReportPanic, OpenFails, DaemonCreates, DaemonStarts,
      AskStart, bodyVars, leftVars, DataOK
<1>3. Progress' BY <1>0, <1>2 DEF Progress
<1>4. Downs'
  <2>1. CASE pc \in Body
    BY <1>2, <2>1
    DEF Downs, ClementineDown, SequencersDown, RolesDown, ContainersDown, BitcoinsDown,
        FromSequencers, FromRoles, FromDocker, FromBitcoin, Body
  <2>2. CASE pc \notin Body
    <3>1. proc[n] \in Pending => n \in strays \cap docked
      BY <1>0, <2>2 DEF Requests, Waiting, Origin
    <3>2. \A m \in Node : /\ proc'[m] = "up" => proc[m] = "up" \/ m \in strays \cap docked
                          /\ Removed(m) => Removed(m)'
      BY <1>2, <2>2, <3>1 DEF Removed, Pending
    <3> QED BY <1>0, <1>2, <3>2, DownsKept DEF DataOK
  <2> QED BY <2>1, <2>2
<1>5. Origin' BY <1>0, <1>2 DEF Origin
<1>6. Docking' BY <1>0, <1>2 DEF Docking
<1>7. Gone' BY <1>0, <1>2, Members DEF Gone, Spawned
<1>9. Requests'
  <2>1. Waiting' \subseteq Waiting BY <1>2 DEF Waiting, Pending
  <2>2. \A m \in Node : proc'[m] = "asked" => proc[m] = "asked" BY <1>2
  <2> QED BY <1>0, <1>2, <2>1, <2>2 DEF Requests, Waiting
<1>8. (pc \in Ending => framework /\ Clusters)' BY <1>2 DEF TearInv, Clusters, AllOrNone
<1> QED BY <1>3, <1>4, <1>5, <1>6, <1>7, <1>8, <1>9 DEF TearInv

-----------------------------------------------------------------------------
(* The tear-down                                                           *)

(* NodeT::stop: the node is down, or it fails, for a reason.               *)
LEMMA StopOutcome ==
  ASSUME DataOK, FlagsOK, NEW n \in Node, StopSucceeds(n) \/ StopFails(n)
  PROVE  /\ \A m \in Node : m # n => proc'[m] = proc[m]
         /\ proc'[n] = "up" => proc[n] = "up"
         /\ proc'[n] = "absent" <=> proc[n] = "absent"
         /\ proc'[n] = "gone" <=> proc[n] = "gone"
         /\ proc[n] \in Pending \/ proc'[n] \in Pending => proc'[n] = proc[n]
         /\ n \in docked /\ proc'[n] = "term" => proc[n] = "term"
         /\ daemonErr => daemonErr'
         /\ proc'[n] # "up" \/ n \in strays \/ (n \in docked /\ daemonErr')
         /\ StopSucceeds(n) => proc'[n] # "up"
         /\ StopFails(n) => proc[n] = "gone" \/ n \in strays \/ (n \in docked /\ daemonErr')
<1>1. CASE StopSucceeds(n)
  <2>1. /\ proc[n] # "gone" /\ n \notin strays /\ UNCHANGED daemonErr
        /\ proc' = [proc EXCEPT ![n] = Stopped(n)]
    BY <1>1 DEF StopSucceeds
  <2>2. /\ proc'[n] = Stopped(n)
        /\ \A m \in Node : m # n => proc'[m] = proc[m]
    BY <2>1 DEF DataOK
  <2>3. /\ Stopped(n) # "up" /\ Stopped(n) # "gone"
        /\ Stopped(n) = "absent" <=> proc[n] = "absent"
        /\ proc[n] \in Pending \/ Stopped(n) \in Pending => Stopped(n) = proc[n]
        /\ n \in docked /\ Stopped(n) = "term" => proc[n] = "term"
    BY <2>1 DEF Stopped, Pending
  <2>4. StopFails(n) => n \in docked /\ daemonErr' BY <2>1 DEF StopFails
  <2> QED BY <2>1, <2>2, <2>3, <2>4
<1>2. CASE StopFails(n) /\ ~StopSucceeds(n) BY <1>2 DEF StopFails
<1> QED BY <1>1, <1>2

(* What no step of the tear-down does.                                     *)
Frame ==
  /\ UNCHANGED <<framework, owned, fresh, strays, unanswered, docked, lost>>
  /\ daemonErr => daemonErr'
  /\ \A n \in Node :
       /\ proc'[n] = "up" => proc[n] = "up"
       /\ proc'[n] = "absent" <=> proc[n] = "absent"
       /\ proc'[n] \in Pending => proc'[n] = proc[n]
       /\ n \in docked \ ToSet(Bitcoins) /\ proc'[n] = "term" => proc[n] = "term"
       /\ pc # "remove" => /\ proc'[n] = "gone" <=> proc[n] = "gone"
                           /\ proc[n] \in Pending => proc'[n] = proc[n]

LEMMA StopFrame ==
  ASSUME DataOK, FlagsOK, NEW n \in Node, StopSucceeds(n) \/ StopFails(n),
         UNCHANGED <<framework, owned, fresh, strays, unanswered, docked, lost>>
  PROVE  Frame
<1>1. \A m \in Node \ {n} : proc'[m] = proc[m] BY StopOutcome
<1> QED BY <1>1, StopOutcome DEF Frame

LEMMA IdleFrame ==
  ASSUME UNCHANGED <<framework, owned, fresh, strays, unanswered, docked, lost, proc, daemonErr>>
  PROVE  Frame
BY DEF Frame

(* Everything but Downs follows from the frame, and Downs from the steps.  *)
LEMMA EndingRest ==
  ASSUME TearInv, Frame, pc \in Ending, pc' \in Ending \cup {"returned"},
         pc' = "stop_clementine" => pc = "stop_clementine",
         pc' = "stop_sequencers" => pc \in {"stop_clementine", "stop_sequencers"},
         Downs'
  PROVE  TearInv'
<1> USE DEF Frame
<1>1. /\ Origin /\ Docking /\ Gone /\ Requests /\ Clusters /\ framework BY DEF TearInv
<1>2. pc' \notin Body /\ pc \notin Body BY DEF Ending, Body
<1>3. Origin' BY <1>1, <1>2 DEF Origin
<1>4. Docking' BY <1>1 DEF Docking
<1>5. Progress' BY <1>2 DEF Progress, BeforeCitrea, AfterAll, Body
<1>6. Gone' BY <1>1, <1>2, Members DEF Gone, Spawned, Ending, Body, AfterAll
<1>7. (framework /\ Clusters)' BY <1>1 DEF Clusters, AllOrNone
<1>8. Requests'
  <2>1. /\ Waiting' \subseteq Waiting
        /\ \A n \in Waiting' : proc'[n] = proc[n]
    BY DEF Waiting
  <2> QED BY <1>1, <1>2, <2>1 DEF Requests, Body
<1> QED BY <1>3, <1>4, <1>5, <1>6, <1>7, <1>8 DEF TearInv

LEMMA ListNodes ==
  /\ \A i \in DOMAIN Clementine : Clementine[i] \in Node
  /\ \A i \in DOMAIN Sequencers : Sequencers[i] \in Node
  /\ \A i \in DOMAIN Roles : Roles[i] \in Node
  /\ \A i \in DOMAIN Bitcoins : Bitcoins[i] \in Node
  /\ Postgres # <<>> => Postgres[1] \in Node
  /\ ToSet(Clementine) \subseteq Node /\ ToSet(Roles) \subseteq Node
  /\ ToSet(Bitcoins) \subseteq Node
  /\ DOMAIN Clementine = 1 .. Len(Clementine) /\ Len(Clementine) \in Nat
  /\ DOMAIN Sequencers = 1 .. Len(Sequencers) /\ Len(Sequencers) \in Nat
  /\ DOMAIN Roles = 1 .. Len(Roles) /\ Len(Roles) \in Nat
  BY Lists DEF ToSet

LEMMA ClementineTear ==
  ASSUME Inv, TearInv, StopClementine
  PROVE  TearInv'
<1> DEFINE c == Clementine[pos]
<1>0. /\ DataOK /\ FlagsOK /\ Origin /\ Docking /\ Gone /\ Clusters /\ framework /\ Downs
      /\ pc = "stop_clementine" /\ pos \in Nat \ {0}
  BY DEF Inv, TearInv, StopClementine, Ending, DataOK
<1>1. UNCHANGED <<framework, owned, fresh, strays, unanswered, docked, lost, network>>
  BY DEF StopClementine, bodyVars, leftVars
<1>2. Frame
  <2>1. CASE pos \in DOMAIN Clementine /\ c \in owned
    <3>1. StopSucceeds(c) \/ StopFails(c) BY <2>1 DEF StopClementine
    <3> QED BY <1>0, <1>1, <2>1, <3>1, StopFrame, ListNodes
  <2>2. CASE ~(pos \in DOMAIN Clementine /\ c \in owned)
    BY <1>1, <2>2, IdleFrame DEF StopClementine
  <2> QED BY <2>1, <2>2
<1>3. \A n \in Node : (Settled(n) => Settled(n)') /\ (GivenUp(n) => GivenUp(n)')
  BY <1>2, SettledKept DEF Frame
<1>4. CASE pc' = "stop_clementine" /\ pos' = pos + 1 /\ pos \in DOMAIN Clementine
           /\ StopSucceeds(c)
  <2>1. StopNodesOnExit => \A i \in DOMAIN Clementine : i < pos' => Settled(Clementine[i])'
    <3>1. \A n \in Node : n = c => Settled(n)'
      BY <1>0, <1>4, StopOutcome, ListNodes DEF Settled
    <3>2. \A i \in DOMAIN Clementine : i < pos + 1 => i < pos \/ i = pos BY <1>0, ListNodes
    <3>3. StopNodesOnExit => \A i \in DOMAIN Clementine : i < pos => Settled(Clementine[i])
      BY <1>0 DEF Downs, ClementineDown
    <3> QED BY <1>3, <1>4, <3>1, <3>2, <3>3, ListNodes
  <2>2. Downs'
    BY <1>4, <2>1
    DEF Downs, ClementineDown, SequencersDown, RolesDown, ContainersDown, BitcoinsDown,
        FromSequencers, FromRoles, FromDocker, FromBitcoin
  <2> QED BY <1>0, <1>2, <1>4, <2>2, EndingRest DEF Ending
<1>5. CASE pc' = "stop_sequencers" /\ pos' = 1
           /\ (StopNodesOnExit => \A n \in ToSet(Clementine) : Settled(n)')
  <2>1. Downs'
    BY <1>5, ListNodes
    DEF Downs, ClementineDown, SequencersDown, RolesDown, ContainersDown, BitcoinsDown,
        FromSequencers, FromRoles, FromDocker, FromBitcoin
  <2> QED BY <1>0, <1>2, <1>5, <2>1, EndingRest DEF Ending
<1>6. CASE pos \in DOMAIN Clementine /\ c \in owned /\ StopFails(c)
           /\ pc' = "stop_sequencers" /\ pos' = 1
  <2>1. c \in Node /\ c \in ToSet(Clementine) BY <1>6, ListNodes, Members
  <2>2. c \in docked /\ daemonErr'
    <3>1. proc[c] # "gone" /\ c \notin strays BY <1>0, <1>6, <2>1 DEF Gone, Body
    <3> QED BY <1>0, <1>6, <2>1, <3>1, StopOutcome
  <2>3. DockerClementine BY <1>0, <2>1, <2>2, WhatIsInDocker, Disjoint DEF Docking
  <2>4. \A n \in ToSet(Clementine) : proc[n] = "up" => n \in docked
    BY <1>0, <2>3, WhatIsInDocker, Disjoint, ListNodes DEF Docking
  <2>5. \A n \in ToSet(Clementine) : Settled(n)'
    BY <1>2, <2>2, <2>4, ListNodes DEF Settled, Unstoppable, Frame
  <2> QED BY <1>5, <1>6, <2>5
<1>7. CASE ~(pos \in DOMAIN Clementine /\ c \in owned) /\ pc' = "stop_sequencers" /\ pos' = 1
  <2>1. StopNodesOnExit => \A n \in ToSet(Clementine) : Settled(n)
    <3>1. CASE pos \in DOMAIN Clementine
      <4>1. c \in ToSet(Clementine) /\ c \notin owned BY <1>7, <3>1, Members
      <4> QED BY <1>0, <4>1 DEF Clusters, AllOrNone, Settled
    <3>2. CASE pos \notin DOMAIN Clementine
      <4>1. \A i \in DOMAIN Clementine : i < pos BY <1>0, <3>2, ListNodes
      <4> QED BY <1>0, <4>1 DEF Downs, ClementineDown, ToSet
    <3> QED BY <3>1, <3>2
  <2> QED BY <1>3, <1>5, <1>7, <2>1, ListNodes
<1> QED BY <1>4, <1>6, <1>7 DEF StopClementine, GoTo

LEMMA SequencersTear ==
  ASSUME Inv, TearInv, StopSequencers
  PROVE  TearInv'
<1> DEFINE c == Sequencers[pos]
<1>0. /\ DataOK /\ FlagsOK /\ Gone /\ Clusters /\ framework /\ Downs
      /\ pc = "stop_sequencers" /\ pos \in Nat \ {0}
  BY DEF Inv, TearInv, StopSequencers, Ending, DataOK
<1>1. UNCHANGED <<framework, owned, fresh, strays, unanswered, docked, lost, network>>
  BY DEF StopSequencers, bodyVars, leftVars
<1>2. Frame
  <2>1. CASE pos \in DOMAIN Sequencers /\ c \in owned
    <3>1. StopSucceeds(c) \/ StopFails(c) BY <2>1 DEF StopSequencers
    <3> QED BY <1>0, <1>1, <2>1, <3>1, StopFrame, ListNodes
  <2>2. CASE ~(pos \in DOMAIN Sequencers /\ c \in owned)
    BY <1>1, <2>2, IdleFrame DEF StopSequencers
  <2> QED BY <2>1, <2>2
<1>3. \A n \in Node : (Settled(n) => Settled(n)') /\ (GivenUp(n) => GivenUp(n)')
  BY <1>2, SettledKept DEF Frame
<1>4. StopNodesOnExit =>
        /\ \A n \in ToSet(Clementine) : Settled(n)'
        /\ \A i \in DOMAIN Sequencers : i < pos => Settled(Sequencers[i]) /\ Settled(Sequencers[i])'
  BY <1>0, <1>3, ListNodes
     DEF Downs, ClementineDown, SequencersDown, FromSequencers
<1>5. CASE pc' = "stop_sequencers" /\ pos' = pos + 1 /\ pos \in DOMAIN Sequencers
           /\ StopSucceeds(c)
  <2>1. \A n \in Node : n = c => Settled(n)'
    BY <1>0, <1>5, StopOutcome, ListNodes DEF Settled
  <2>2. \A i \in DOMAIN Sequencers : i < pos + 1 => i < pos \/ i = pos BY <1>0, ListNodes
  <2>3. StopNodesOnExit => \A i \in DOMAIN Sequencers : i < pos' => Settled(Sequencers[i])'
    BY <1>4, <1>5, <2>1, <2>2, ListNodes
  <2>4. Downs'
    BY <1>4, <1>5, <2>3
    DEF Downs, ClementineDown, SequencersDown, RolesDown, ContainersDown, BitcoinsDown,
        FromSequencers, FromRoles, FromDocker, FromBitcoin
  <2> QED BY <1>0, <1>2, <1>5, <2>4, EndingRest DEF Ending
<1>6. CASE /\ pc' = "stop_roles" /\ pos' = 1
           /\ StopNodesOnExit =>
                \A i \in DOMAIN Sequencers :
                  /\ i = 1 => Settled(Sequencers[i])'
                  /\ Settled(Sequencers[i])' \/ GivenUp(Sequencers[i])'
  <2>1. Downs'
    BY <1>4, <1>6, ListNodes
    DEF Downs, ClementineDown, SequencersDown, RolesDown, ContainersDown, BitcoinsDown,
        FromSequencers, FromRoles, FromDocker, FromBitcoin
  <2> QED BY <1>0, <1>2, <1>6, <2>1, EndingRest DEF Ending
<1>7. CASE pos \in DOMAIN Sequencers /\ c \in owned /\ StopFails(c)
           /\ pc' = "stop_roles" /\ pos' = 1
  <2>1. c \in Node BY <1>7, ListNodes
  <2>2. c \in lost' \/ (c \in docked' /\ daemonErr')
    <3>1. c \in strays \/ proc[c] = "gone" => c \in lost
      BY <1>0, <1>7, <2>1, Members DEF Gone, Body
    <3> QED BY <1>0, <1>1, <1>7, <2>1, <3>1, StopOutcome
  <2>3. \A n \in Node : n = c => Settled(n)'
    <3>1. proc'[c] # "up" \/ c \in strays' \/ (c \in docked' /\ daemonErr')
      BY <1>0, <1>1, <1>7, <2>1, StopOutcome
    <3> QED BY <3>1 DEF Settled, Unstoppable
  <2>4. \A i \in DOMAIN Sequencers : pos < i => GivenUp(Sequencers[i])'
    <3>1. \A i \in DOMAIN Sequencers : pos < i => Before(c, Sequencers[i], Sequencers)
      BY <1>7 DEF Before
    <3>2. \A n \in Node : Before(c, n, Sequencers) => GivenUp(n)'
      BY <2>1, <2>2 DEF GivenUp, Unstoppable, Before
    <3> QED BY <3>1, <3>2, ListNodes
  <2>5. \A i \in DOMAIN Sequencers : i < pos \/ i = pos \/ (i # 1 /\ pos < i)
    BY <1>0, ListNodes
  <2> QED BY <1>4, <1>6, <1>7, <2>3, <2>4, <2>5, ListNodes
<1>8. CASE ~(pos \in DOMAIN Sequencers /\ c \in owned) /\ pc' = "stop_roles" /\ pos' = 1
  <2>1. StopNodesOnExit => \A i \in DOMAIN Sequencers : Settled(Sequencers[i])'
    <3>1. CASE pos \in DOMAIN Sequencers
      <4>1. c \in ToSet(Sequencers) /\ c \notin owned BY <1>8, <3>1, Members
      <4>2. ToSet(Sequencers) \cap owned = {} BY <1>0, <4>1 DEF Clusters, AllOrNone
      <4> QED BY <1>3, <4>2, ListNodes, Members DEF Settled
    <3>2. CASE pos \notin DOMAIN Sequencers
      <4>1. \A i \in DOMAIN Sequencers : i < pos BY <1>0, <3>2, ListNodes
      <4> QED BY <1>4, <4>1
    <3> QED BY <3>1, <3>2
  <2> QED BY <1>6, <1>8, <2>1
<1> QED BY <1>5, <1>7, <1>8 DEF StopSequencers, GoTo

LEMMA RolesTear ==
  ASSUME Inv, TearInv, StopRoles
  PROVE  TearInv'
<1> DEFINE c == Roles[pos]
<1>0. /\ DataOK /\ FlagsOK /\ framework /\ Downs
      /\ pc = "stop_roles" /\ pos \in Nat \ {0}
  BY DEF Inv, TearInv, StopRoles, Ending, DataOK
<1>1. UNCHANGED <<framework, owned, fresh, strays, unanswered, docked, lost, network>>
  BY DEF StopRoles, bodyVars, leftVars
<1>2. Frame
  <2>1. CASE pos \in DOMAIN Roles /\ c \in owned
    <3>1. StopSucceeds(c) \/ StopFails(c) BY <2>1 DEF StopRoles
    <3> QED BY <1>0, <1>1, <2>1, <3>1, StopFrame, ListNodes
  <2>2. CASE ~(pos \in DOMAIN Roles /\ c \in owned)
    BY <1>1, <2>2, IdleFrame DEF StopRoles
  <2> QED BY <2>1, <2>2
<1>3. \A n \in Node : (Settled(n) => Settled(n)') /\ (GivenUp(n) => GivenUp(n)')
  BY <1>2, SettledKept DEF Frame
<1>4. StopNodesOnExit =>
        /\ \A n \in ToSet(Clementine) : Settled(n)'
        /\ \A i \in DOMAIN Sequencers :
             /\ i = 1 => Settled(Sequencers[i])'
             /\ Settled(Sequencers[i])' \/ GivenUp(Sequencers[i])'
        /\ \A i \in DOMAIN Roles : i < pos => Settled(Roles[i])'
  BY <1>0, <1>3, ListNodes
     DEF Downs, ClementineDown, SequencersDown, RolesDown, FromSequencers, FromRoles
<1>5. CASE pos \in DOMAIN Roles
  <2>1. pc' = "stop_roles" /\ pos' = pos + 1 BY <1>0, <1>5 DEF StopRoles, GoTo
  <2>2. \A n \in Node : n = c => Settled(n)'
    <3>1. CASE c \in owned
      <4>1. StopSucceeds(c) \/ StopFails(c) BY <1>5, <3>1 DEF StopRoles
      <4>2. proc'[c] # "up" \/ c \in strays' \/ (c \in docked' /\ daemonErr')
        BY <1>0, <1>1, <1>5, <4>1, StopOutcome, ListNodes
      <4> QED BY <4>2 DEF Settled, Unstoppable
    <3>2. CASE c \notin owned BY <1>1, <3>2 DEF Settled
    <3> QED BY <3>1, <3>2
  <2>3. \A i \in DOMAIN Roles : i < pos + 1 => i < pos \/ i = pos BY <1>0, ListNodes
  <2>4. StopNodesOnExit => \A i \in DOMAIN Roles : i < pos' => Settled(Roles[i])'
    BY <1>4, <2>1, <2>2, <2>3, ListNodes
  <2>5. Downs'
    BY <1>4, <2>1, <2>4
    DEF Downs, ClementineDown, SequencersDown, RolesDown, ContainersDown, BitcoinsDown,
        FromSequencers, FromRoles, FromDocker, FromBitcoin
  <2> QED BY <1>0, <1>2, <2>1, <2>5, EndingRest DEF Ending
<1>6. CASE pos \notin DOMAIN Roles
  <2>1. pc' = "stop_docker" BY <1>6 DEF StopRoles, GoTo
  <2>2. \A i \in DOMAIN Roles : i < pos BY <1>0, <1>6, ListNodes
  <2>3. StopNodesOnExit => \A n \in ToSet(Roles) : Settled(n)'
    BY <1>4, <2>2 DEF ToSet
  <2>4. Downs'
    BY <1>4, <2>1, <2>3
    DEF Downs, ClementineDown, SequencersDown, RolesDown, ContainersDown, BitcoinsDown,
        FromSequencers, FromRoles, FromDocker, FromBitcoin
  <2> QED BY <1>0, <1>2, <2>1, <2>4, EndingRest DEF Ending
<1> QED BY <1>5, <1>6

(* From the list of the containers on nothing is said of pos.              *)
LEMMA LateDowns ==
  ASSUME Downs, Frame, pc \in FromDocker, pc' \in FromDocker \ {"stop_docker"},
         framework /\ StopNodesOnExit => ContainersDown' /\ BitcoinsDown'
  PROVE  Downs'
<1> SUFFICES ASSUME framework, StopNodesOnExit
             PROVE  (ClementineDown /\ SequencersDown /\ RolesDown)'
  BY DEF Downs, Frame
<1>1. ClementineDown /\ SequencersDown /\ RolesDown BY DEF Downs
<1>2. \A n \in Node : (Settled(n) => Settled(n)') /\ (GivenUp(n) => GivenUp(n)')
  BY SettledKept DEF Frame
<1> USE DEF FromSequencers, FromRoles, FromDocker, FromBitcoin
<1>3. ClementineDown' BY <1>1, <1>2, ListNodes DEF ClementineDown
<1>4. SequencersDown' BY <1>1, <1>2, ListNodes DEF SequencersDown
<1>5. RolesDown' BY <1>1, <1>2, ListNodes DEF RolesDown
<1> QED BY <1>3, <1>4, <1>5

(* Only containers are ever removed.                                       *)
Listing == IF pc = "remove" THEN listed \subseteq docked ELSE listed = {}

LEMMA ListingStep ==
  ASSUME Listing, [Next]_vars
  PROVE  Listing'
<1> USE DEF Listing, GoTo, bodyVars, leftVars, nodeVars
<1>1. CASE BodyStep \/ Recv \/ Interrupt
  <2>1. pc # "remove" /\ UNCHANGED listed
    BY <1>1
    DEF BodyStep, Recv, Interrupt, CreateNetwork, SpawnInfra, InfraReady, FundWallets,
        SpawnCitrea, BuildCitrea, SpawnClementine, AskStart, ClementineJoined,
        ConnectBitcoins, WaitForReady, SetUpDone, TestPasses, BodyFails, RecvReport,
        RecvClosed, EndBody, LeaveBody, Body
  <2>2. pc' # "remove"
    BY <1>1
    DEF BodyStep, Recv, Interrupt, CreateNetwork, SpawnInfra, InfraReady, FundWallets,
        SpawnCitrea, BuildCitrea, SpawnClementine, AskStart, ClementineJoined, AfterCitrea,
        ConnectBitcoins, WaitForReady, SetUpDone, TestPasses, BodyFails, RecvReport,
        RecvClosed, EndBody, LeaveBody, Body
  <2> QED BY <2>1, <2>2
<1>2. CASE TestStep
  BY <1>2 DEF TestStep, TestStops, TestReaps, TestStarts, TestStarted, TestRuns
<1>3. CASE NodeStep
  <2>1. UNCHANGED <<pc, listed, docked>>
    BY <1>3
    DEF NodeStep, ProcessExits, Crash, PanicLine, ReportPanic, OpenFails, DaemonCreates,
        DaemonStarts
  <2> QED BY <2>1
<1>4. CASE StopClementine \/ StopSequencers \/ StopRoles \/ StopPostgres \/ StopBitcoin
           \/ CleanUpAndReturn
  <2>1. pc # "remove" /\ UNCHANGED listed
    BY <1>4 DEF StopClementine, StopSequencers, StopRoles, StopPostgres, StopBitcoin,
                CleanUpAndReturn
  <2>2. pc' # "remove"
    BY <1>4 DEF StopClementine, StopSequencers, StopRoles, StopPostgres, StopBitcoin,
                CleanUpAndReturn
  <2> QED BY <2>1, <2>2
<1>5. CASE ListContainers BY <1>5 DEF ListContainers, Containers
<1>6. ASSUME NEW n \in Node, RemoveContainer(n) PROVE Listing'
  BY <1>6 DEF RemoveContainer
<1>7. CASE CleanupDocker BY <1>7 DEF CleanupDocker
<1>8. CASE Done \/ UNCHANGED vars BY <1>8 DEF Done, vars
<1> QED BY <1>1, <1>2, <1>3, <1>4, <1>5, <1>6, <1>7, <1>8 DEF Next, EndingStep

(* The list has every container but those whose creation is not through.   *)
LEMMA ListTear ==
  ASSUME Inv, TearInv, ListContainers
  PROVE  TearInv'
<1>0. /\ DataOK /\ Docking /\ Requests /\ Downs
  BY DEF Inv, TearInv
<1>1. /\ pc = "stop_docker" /\ pc' = "remove" /\ listed' = Containers
      /\ UNCHANGED <<framework, owned, fresh, strays, unanswered, docked, lost, proc, network,
                     daemonErr>>
  BY DEF ListContainers, GoTo, bodyVars, nodeVars
<1>2. Frame BY <1>1, IdleFrame
<1>3. ContainersDown'
  <2>1. ASSUME NEW n \in docked, n \notin Containers PROVE Removed(n)
    <3>1. n \in Node /\ proc[n] \in {"asked", "gone"}
      BY <1>0, <2>1 DEF Docking, Containers, DataOK
    <3>2. proc[n] = "asked" => n \in unanswered
      BY <1>0, <1>1, <3>1 DEF Requests, Waiting, Pending, Body
    <3> QED BY <3>1, <3>2 DEF Removed
  <2> QED BY <1>1, <2>1 DEF ContainersDown, Removed
<1>4. Downs'
  BY <1>0, <1>1, <1>2, <1>3, LateDowns DEF BitcoinsDown, FromDocker, FromBitcoin
<1> QED BY <1>1, <1>2, <1>4, EndingRest DEF Ending

LEMMA RemoveTear ==
  ASSUME Inv, TearInv, Listing, NEW n \in Node, RemoveContainer(n)
  PROVE  TearInv'
<1>0. DataOK /\ Downs /\ pc = "remove" BY DEF Inv, TearInv, RemoveContainer
<1>1. /\ UNCHANGED <<pc, pos, framework, owned, fresh, strays, unanswered, docked, lost,
                     network, daemonErr>>
      /\ listed' = listed \ {n} /\ proc'[n] = "gone"
      /\ \A m \in Node : m # n => proc'[m] = proc[m]
  BY <1>0 DEF RemoveContainer, bodyVars, DataOK
<1>2. proc[n] # "absent" BY <1>0 DEF RemoveContainer, TearInv, Docking, Listing
<1>3. Frame BY <1>0, <1>1, <1>2 DEF Frame, Pending
<1>4. framework /\ StopNodesOnExit => ContainersDown'
  <2>1. \A m \in docked : Removed(m) => Removed(m)'
    BY <1>0, <1>1 DEF Removed, DataOK
  <2> QED BY <1>0, <1>1, <2>1 DEF Downs, ContainersDown, Removed, DataOK
<1>5. Downs'
  BY <1>0, <1>1, <1>3, <1>4, LateDowns DEF BitcoinsDown, FromDocker, FromBitcoin
<1> QED BY <1>0, <1>1, <1>3, <1>5, EndingRest DEF Ending

LEMMA ContainersKept ==
  ASSUME Downs, Frame, framework, StopNodesOnExit, docked \subseteq Node, UNCHANGED network,
         pc \in FromBitcoin \cup {"stop_postgres"}, pc' # "remove"
  PROVE  ContainersDown'
<1>1. \A n \in docked : Removed(n) => Removed(n)'
  BY DEF Frame, Removed, FromBitcoin, Pending
<1>2. daemonErr \/ (~network /\ \A n \in docked : Removed(n))
  BY DEF Downs, ContainersDown, FromDocker, FromBitcoin
<1> QED BY <1>1, <1>2 DEF ContainersDown, Frame

LEMMA LateTear ==
  ASSUME Inv, TearInv, CleanupDocker \/ StopPostgres \/ StopBitcoin \/ CleanUpAndReturn
  PROVE  TearInv'
<1>0. /\ DataOK /\ FlagsOK /\ Docking /\ Downs /\ docked \subseteq Node
      /\ pc \in Ending /\ framework
  BY DEF Inv, TearInv, DataOK, CleanupDocker, StopPostgres, StopBitcoin, CleanUpAndReturn, Ending
<1> USE DEF GoTo, bodyVars, leftVars, nodeVars, FromDocker, FromBitcoin, Ending
<1>1. CASE CleanupDocker
  <2>1. /\ pc \in {"stop_docker", "remove"} /\ pc' = "stop_postgres"
        /\ UNCHANGED <<framework, owned, fresh, strays, unanswered, docked, lost, proc>>
        /\ \/ pc = "remove" /\ listed = {} /\ network' = FALSE /\ UNCHANGED daemonErr
           \/ daemonErr' = TRUE
    BY <1>1 DEF CleanupDocker
  <2>2. Frame BY <2>1 DEF Frame
  <2>3. StopNodesOnExit /\ pc = "remove" /\ listed = {} => \A n \in docked : Removed(n)
    BY <1>0 DEF Downs, ContainersDown
  <2>4. StopNodesOnExit => ContainersDown' BY <2>1, <2>3 DEF ContainersDown, Removed
  <2>5. Downs' BY <1>0, <2>1, <2>2, <2>4, LateDowns DEF BitcoinsDown
  <2> QED BY <1>0, <2>1, <2>2, <2>5, EndingRest
<1>2. CASE StopPostgres
  <2>1. /\ pc = "stop_postgres" /\ pc' = "stop_bitcoin"
        /\ UNCHANGED <<framework, owned, fresh, strays, unanswered, docked, lost, network>>
    BY <1>2 DEF StopPostgres
  <2>2. Frame
    <3>1. CASE Postgres # <<>>
      <4>1. StopSucceeds(Postgres[1]) \/ StopFails(Postgres[1]) BY <1>2, <3>1 DEF StopPostgres
      <4> QED BY <1>0, <2>1, <3>1, <4>1, StopFrame, ListNodes
    <3>2. CASE Postgres = <<>> BY <1>2, <2>1, <3>2, IdleFrame DEF StopPostgres
    <3> QED BY <3>1, <3>2
  <2>3. StopNodesOnExit => ContainersDown' BY <1>0, <2>1, <2>2, ContainersKept
  <2>4. Downs' BY <1>0, <2>1, <2>2, <2>3, LateDowns DEF BitcoinsDown
  <2> QED BY <1>0, <2>1, <2>2, <2>4, EndingRest
<1>3. CASE StopBitcoin
  <2>1. /\ pc = "stop_bitcoin" /\ pc' \in {"stop_bitcoin", "cleanup"}
        /\ UNCHANGED <<framework, owned, fresh, strays, unanswered, docked, lost, network>>
    BY <1>3 DEF StopBitcoin
  <2>2. Frame
    <3>1. CASE UNCHANGED <<proc, daemonErr>> BY <2>1, <3>1, IdleFrame
    <3>2. CASE pos \in DOMAIN Bitcoins /\ StopSucceeds(Bitcoins[pos])
      BY <1>0, <2>1, <3>2, StopFrame, ListNodes
    <3>3. CASE /\ pos \in DOMAIN Bitcoins
               /\ proc[Bitcoins[pos]] = "up" /\ proc' = [proc EXCEPT ![Bitcoins[pos]] = "term"]
               /\ daemonErr' = daemonErr \/ daemonErr' = TRUE
      <4>1. Bitcoins[pos] \in ToSet(Bitcoins) /\ Bitcoins[pos] \in Node
        BY <3>3, ListNodes DEF ToSet
      <4>2. /\ proc'[Bitcoins[pos]] = "term"
            /\ \A n \in Node : n # Bitcoins[pos] => proc'[n] = proc[n]
        BY <1>0, <3>3, <4>1 DEF DataOK
      <4> QED BY <2>1, <3>3, <4>1, <4>2 DEF Frame, Pending
    <3> QED BY <1>3, <3>1, <3>2, <3>3 DEF StopBitcoin
  <2>3. StopNodesOnExit => ContainersDown' BY <1>0, <2>1, <2>2, ContainersKept
  <2>4. Downs' BY <1>0, <2>1, <2>2, <2>3, LateDowns DEF BitcoinsDown
  <2> QED BY <1>0, <2>1, <2>2, <2>4, EndingRest
<1>4. CASE CleanUpAndReturn
  <2>1. /\ pc = "cleanup" /\ pc' = "returned" /\ Drop(owned)
        /\ UNCHANGED <<framework, owned, fresh, strays, unanswered, docked, lost, network, daemonErr>>
    BY <1>4 DEF CleanUpAndReturn
  <2>2. \A n \in Node :
          /\ \/ proc'[n] = proc[n]
             \/ proc[n] = "up" /\ proc'[n] = "term" /\ n \in ToSet(Bitcoins) \ docked
          /\ n \in owned \cap ToSet(Bitcoins) => n \in docked \/ proc'[n] # "up"
    BY <2>1, DropsOnly
  <2>3. Frame BY <2>1, <2>2 DEF Frame, Pending
  <2>4. StopNodesOnExit => ContainersDown' BY <1>0, <2>1, <2>3, ContainersKept
  <2>5. BitcoinsDown' BY <2>1, <2>2, ListNodes DEF BitcoinsDown
  <2>6. Downs' BY <1>0, <2>1, <2>3, <2>4, <2>5, LateDowns
  <2> QED BY <1>0, <2>1, <2>3, <2>6, EndingRest
<1> QED BY <1>1, <1>2, <1>3, <1>4

-----------------------------------------------------------------------------
(* The theorems                                                            *)

LEMMA TearStep ==
  ASSUME Inv, TearInv, Listing, [Next]_vars
  PROVE  TearInv'
<1>1. CASE BodyGoesOn BY <1>1, BodyTear
<1>2. CASE TestPasses \/ BodyFails \/ Recv \/ Interrupt
  <2>1. pc \in Body
    BY <1>2 DEF TestPasses, BodyFails, Recv, RecvReport, RecvClosed, Interrupt, Body
  <2>2. \E v : EndBody(v)
    BY <1>2 DEF TestPasses, BodyFails, Recv, RecvReport, RecvClosed, Interrupt
  <2> QED BY <2>1, <2>2, EndBodyTear
<1>3. CASE TestStep BY <1>3, TestTear
<1>4. CASE NodeStep \/ \E n \in Node : AskStart(n) BY <1>4, NodeTear
<1>5. CASE EndingStep
  BY <1>5, ClementineTear, SequencersTear, RolesTear, ListTear, RemoveTear, LateTear
  DEF EndingStep
<1>6. CASE Done \/ UNCHANGED vars
  <2> USE <1>6 DEF Done, vars
  <2>1. Origin' /\ Docking' /\ Requests' /\ Progress' /\ Gone'
    BY DEF TearInv, Origin, Docking, Requests, Waiting, Progress, Gone
  <2>2. Downs' BY DownsKept DEF TearInv, Inv, DataOK, Removed
  <2>3. (pc \in Ending => framework /\ Clusters)' BY DEF TearInv, Clusters, AllOrNone
  <2> QED BY <2>1, <2>2, <2>3 DEF TearInv
<1> QED BY <1>1, <1>2, <1>3, <1>4, <1>5, <1>6 DEF Next, BodyStep, BodyGoesOn

LEMMA TearHolds == Spec => [](Inv /\ TearInv)
<1>1. Init => TearInv /\ Listing BY TearInit DEF Init, Listing
<1>2. Inv /\ TearInv /\ Listing /\ [Next]_vars => (TearInv /\ Listing)'
  BY TearStep, ListingStep
<1> QED BY <1>1, <1>2, InvHolds, PTL DEF Spec

(* What a run leaves running was cut off while being created, or is a      *)
(* container the daemon would not stop, or follows such a sequencer.       *)
THEOREM LeftoversCorrect == Spec => []LeftoversExplained
<1>1. ASSUME Inv, TearInv PROVE LeftoversExplained
  <2> SUFFICES ASSUME pc = "returned", framework, StopNodesOnExit, NEW n \in Node, proc[n] = "up"
               PROVE  n \in strays \/ Unstoppable(n) \/ GivenUp(n)
    BY DEF LeftoversExplained, GivenUp
  <2> USE DEF FromSequencers, FromRoles, FromDocker, FromBitcoin
  <2>0. Origin /\ Docking /\ Downs BY <1>1 DEF TearInv
  <2>1. fresh = {} BY <2>0 DEF Origin, Body
  <2>2. n \in owned \/ n \in strays BY <2>0, <2>1 DEF Origin
  <2>3. n \in Spawned BY <2>0, <2>2 DEF Origin, Spawned
  <2>4. n \in docked => Unstoppable(n)
    BY <2>0 DEF Downs, ContainersDown, Removed, Unstoppable
  <2>5. CASE n \in ToSet(Postgres)
    <3>1. n \in docked BY <2>0, <2>5, WhatIsInDocker, Disjoint DEF Docking
    <3> QED BY <2>4, <3>1
  <2>6. CASE n \in ToSet(Bitcoins) BY <2>0, <2>2, <2>4, <2>6 DEF Downs, BitcoinsDown
  <2>7. CASE n \in ToSet(Sequencers)
    BY <2>0, <2>2, <2>7 DEF Downs, SequencersDown, Settled, ToSet
  <2>8. CASE n \in ToSet(Roles) BY <2>0, <2>2, <2>8 DEF Downs, RolesDown, Settled
  <2>9. CASE n \in ToSet(Clementine) BY <2>0, <2>2, <2>9 DEF Downs, ClementineDown, Settled
  <2> QED BY <2>3, <2>5, <2>6, <2>7, <2>8, <2>9, Disjoint DEF Spawned
<1> QED BY <1>1, TearHolds, PTL

(* If the daemon does what it is asked a run leaves no network and, of     *)
(* containers, only what it was still asked to create when the body was    *)
(* cut short; that never runs.                                             *)
THEOREM NoContainerLeft == Spec => []LeavesNoContainer
<1>1. TearInv => LeavesNoContainer
  BY DEF TearInv, Downs, ContainersDown, Removed, LeavesNoContainer, FromDocker, FromBitcoin
<1> QED BY <1>1, TearHolds, PTL

(* Who of the clients is settled when.                                     *)
LEMMA ClientsSettled ==
  ASSUME TearInv, pc \in Ending, StopNodesOnExit
  PROVE  /\ pc \in FromSequencers => \A c \in ToSet(Clementine) : Settled(c)
         /\ pc \in FromDocker => \A server \in Node : \A c \in Clients(server) : Settled(c)
<1>1. ClementineDown /\ SequencersDown /\ RolesDown BY DEF TearInv, Downs
<1>2. pc \in FromSequencers => \A c \in ToSet(Clementine) : Settled(c)
  BY <1>1 DEF ClementineDown
<1>3. ASSUME pc \in FromDocker, NEW server \in Node, NEW c \in Clients(server)
      PROVE  Settled(c)
  <2>1. \/ c \in ToSet(Clementine) \/ c \in ToSet(Roles)
        \/ \E i \in DOMAIN Sequencers : i = 1 /\ c = Sequencers[i]
    BY <1>3 DEF Clients
  <2>2. pc \in FromSequencers /\ pc \in FromRoles BY <1>3 DEF FromSequencers, FromRoles
  <2>3. ASSUME NEW i \in DOMAIN Sequencers, i = 1, c = Sequencers[i] PROVE Settled(c)
    BY <1>1, <2>2, <2>3 DEF SequencersDown
  <2> QED BY <1>1, <1>2, <1>3, <2>1, <2>2, <2>3 DEF RolesDown
<1> QED BY <1>2, <1>3

(* The nodes that are nobody's server, and those Clementine alone uses.    *)
LEMMA WhoServes ==
  /\ \A n \in ToSet(Clementine) \cup ToSet(Sequencers) : Clients(n) = {}
  /\ \A n \in ToSet(Roles) : Clients(n) \subseteq ToSet(Clementine)
<1>1. \A n \in ToSet(Clementine) \cup ToSet(Sequencers) :
        n \notin ToSet(Bitcoins) /\ n \notin ToSet(Postgres) /\ n \notin ToSet(Roles)
  BY Disjoint
<1>2. \A n \in ToSet(Roles) : n \notin ToSet(Bitcoins) BY Disjoint
<1> QED BY <1>1, <1>2 DEF Clients

LEMMA ClientsAre ==
  ASSUME NEW server \in Node, NEW c \in Clients(server)
  PROVE  c \in Node /\ c \notin ToSet(Bitcoins)
<1>1. c \in ToSet(Clementine) \cup ToSet(Citrea)
  BY Disjoint, Members DEF Clients
<1> QED BY <1>1, Disjoint, Members DEF Spawned

(* Tear-down stops no node before it has told those that use it to stop,   *)
(* but for what the daemon refuses and what was cut short.  A child may    *)
(* still run then: it has its signal, which nobody waits for.              *)
THEOREM TearDownOrder == Spec => ServersOutliveClients
<1> DEFINE Kept == pc \in Ending /\ StopNodesOnExit =>
                     \A server \in Node :
                       proc[server] = "up" /\ proc'[server] \in {"term", "exited", "gone"} =>
                         \A c \in Clients(server) \cap (owned \ strays) :
                           ToldToStop(c) \/ (c \in docked /\ daemonErr)
<1>1. ASSUME Inv, TearInv, [Next]_vars PROVE Kept
  <2> SUFFICES ASSUME pc \in Ending, StopNodesOnExit, NEW server \in Node,
                      proc[server] = "up", proc'[server] \in {"term", "exited", "gone"},
                      NEW c \in Clients(server), c \in owned \ strays
               PROVE  ToldToStop(c) \/ (c \in docked /\ daemonErr)
    OBVIOUS
  <2> SUFFICES Settled(c)
    <3>1. c \in Node /\ c \notin ToSet(Bitcoins) BY ClientsAre
    <3>2. c \in docked => proc[c] # "term" BY <1>1, <3>1 DEF TearInv, Docking
    <3> QED BY <3>2 DEF Settled, Unstoppable, ToldToStop
  <2>0. /\ DataOK /\ FlagsOK /\ pos \in Nat \ {0} /\ pc \notin Body
        /\ pc \in FromSequencers => \A n \in ToSet(Clementine) : Settled(n)
        /\ pc \in FromDocker => Settled(c)
    BY <1>1, ClientsSettled DEF Inv, DataOK, Ending, Body
  <2>1. CASE StopClementine
    <3>1. /\ pos \in DOMAIN Clementine
          /\ StopSucceeds(Clementine[pos]) \/ StopFails(Clementine[pos])
      BY <2>1 DEF StopClementine
    <3>2. \A n \in Node : n # Clementine[pos] => proc'[n] = proc[n]
      BY <2>0, <3>1, StopOutcome, ListNodes
    <3>3. server \in ToSet(Clementine) BY <3>1, <3>2, Members
    <3> QED BY <3>3, WhoServes
  <2>2. CASE StopSequencers
    <3>1. /\ pos \in DOMAIN Sequencers
          /\ StopSucceeds(Sequencers[pos]) \/ StopFails(Sequencers[pos])
      BY <2>2 DEF StopSequencers
    <3>2. \A n \in Node : n # Sequencers[pos] => proc'[n] = proc[n]
      BY <2>0, <3>1, StopOutcome, ListNodes
    <3>3. server \in ToSet(Sequencers) BY <3>1, <3>2, Members
    <3> QED BY <3>3, WhoServes
  <2>3. CASE StopRoles
    <3>1. /\ pos \in DOMAIN Roles
          /\ StopSucceeds(Roles[pos]) \/ StopFails(Roles[pos])
      BY <2>3 DEF StopRoles
    <3>2. \A n \in Node : n # Roles[pos] => proc'[n] = proc[n]
      BY <2>0, <3>1, StopOutcome, ListNodes
    <3>3. server \in ToSet(Roles) BY <3>1, <3>2, Members
    <3>4. c \in ToSet(Clementine) BY <3>3, WhoServes
    <3>5. pc \in FromSequencers BY <2>3 DEF StopRoles, FromSequencers, FromRoles
    <3> QED BY <2>0, <3>4, <3>5
  <2>4. CASE \/ ListContainers \/ \E n \in Node : RemoveContainer(n)
             \/ CleanupDocker \/ StopPostgres \/ StopBitcoin \/ CleanUpAndReturn
    <3>1. pc \in FromDocker
      BY <2>4 DEF ListContainers, RemoveContainer, CleanupDocker, StopPostgres, StopBitcoin,
                  CleanUpAndReturn, FromDocker, FromBitcoin
    <3> QED BY <2>0, <3>1
  <2>5. CASE NodeStep
    <3>1. PICK n \in Node :
            \/ ProcessExits(n) \/ Crash(n) \/ PanicLine(n) \/ ReportPanic(n) \/ OpenFails(n)
            \/ DaemonCreates(n) \/ DaemonStarts(n)
      BY <2>5 DEF NodeStep
    <3>2. /\ \A m \in Node : m # n => proc'[m] = proc[m]
          /\ proc'[n] = proc[n] \/ proc[n] # "up" \/ proc'[n] = "crashed"
      BY <2>0, <3>1
      DEF ProcessExits, Crash, PanicLine, ReportPanic, OpenFails, DaemonCreates, DaemonStarts,
          DataOK
    <3> QED BY <3>2
  <2>6. CASE Done \/ UNCHANGED vars BY <2>6 DEF Done, vars
  <2>7. CASE TestStep
    BY <2>0, <2>7
    DEF TestStep, TestStops, TestReaps, TestStarts, TestStarted, TestRuns, Body
  <2>8. CASE BodyStep \/ Recv \/ Interrupt
    BY <2>0, <2>8, BodyMoves, <1>1
    DEF BodyStep, BodyGoesOn, AskStart, TestPasses, BodyFails, Recv, RecvReport, RecvClosed,
        Interrupt, Body
  <2> QED BY <1>1, <2>1, <2>2, <2>3, <2>4, <2>5, <2>6, <2>7, <2>8 DEF Next, EndingStep
<1> QED BY <1>1, TearHolds, PTL DEF Spec, ServersOutliveClients
=============================================================================
