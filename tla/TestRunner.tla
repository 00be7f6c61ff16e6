----------------------------- MODULE TestRunner -----------------------------
(***************************************************************************)
(* One call of TestCaseRunner::run (src/src/test_case.rs) together with    *)
(* the framework it builds and tears down (src/src/framework.rs) and the   *)
(* processes it spawns (src/src/node.rs, bitcoin.rs, postgres.rs,          *)
(* clementine/nodes.rs).                                                   *)
(*                                                                         *)
(* `run` races three futures in one tokio::select!: the body (build the    *)
(* framework, prepare it, run the test), ctrl_c, and failure_rx.recv().    *)
(* The body is a sequence of segments between awaits; another branch may   *)
(* win at any await, and then the body future is dropped where it stands.  *)
(* Whatever wins, `run` goes on to stop the framework, if there is one.    *)
(*                                                                         *)
(* A container takes three requests to the docker daemon, each an await of *)
(* its own; the daemon carries out what it was asked even when the future  *)
(* that asked has been dropped in the meantime.                            *)
(*                                                                         *)
(* A process is a member of Node.  proc[n] is                              *)
(*   absent   never spawned          asked    the daemon is to create it   *)
(*   created  a container, not run   starting the daemon is to start it    *)
(*   up       running                                                      *)
(*   term     SIGTERM or SIGKILL delivered, not ended yet                   *)
(*   exited   ended because it was asked to    crashed  ended by itself    *)
(*   gone     reaped by wait(), or its container removed                   *)
(***************************************************************************)
EXTENDS Naturals, Sequences, SequencesExt

CONSTANTS
  Node,              \* every process the configuration asks for
  Bitcoins,          \* config.bitcoin, in order
  Postgres,          \* <<p>> with_clementine, <<>> without
  Sequencers,        \* config.sequencer: one Sequencer, or a SequencerCluster
  Roles,             \* the enabled ones of batch_prover, light_client_prover, full_node
  Verifiers, Operators, Aggregator,   \* of Clementine, the last like Postgres
  DockerBitcoin,     \* TestCaseDockerConfig: bitcoin nodes are containers,
  DockerCitrea,      \* so are Citrea nodes, unless restarted otherwise,
  DockerClementine,  \* and so are Clementine nodes
  StopNodesOnExit    \* TestCaseConfig::stop_nodes_on_exit

Citrea == Sequencers \o Roles       \* in the order init_citrea_nodes creates them
Infra  == Bitcoins \o Postgres      \* in the order TestFramework::new creates them

(* In the order ClementineCluster::stop_all stops them.                    *)
Clementine == Aggregator \o Verifiers \o Operators
WithClementine == Postgres # <<>>

(* The nodes that NodeT::spawn creates as containers.                      *)
InDocker ==
  ToSet(Postgres) \cup (IF DockerBitcoin THEN ToSet(Bitcoins) ELSE {})
                  \cup (IF DockerCitrea THEN ToSet(Citrea) ELSE {})
                  \cup (IF DockerClementine THEN ToSet(Clementine) ELSE {})

ASSUME ConfigAssumption ==
  /\ Bitcoins \in Seq(Node) /\ Postgres \in Seq(Node)
  /\ Sequencers \in Seq(Node) /\ Roles \in Seq(Node)
  /\ Verifiers \in Seq(Node) /\ Operators \in Seq(Node) /\ Aggregator \in Seq(Node)
  /\ IsInjective(Infra \o Citrea \o Clementine)
  /\ WithClementine <=> Aggregator # <<>>
  /\ Clementine # <<>> => WithClementine
  /\ DockerBitcoin \in BOOLEAN /\ DockerCitrea \in BOOLEAN /\ DockerClementine \in BOOLEAN
  /\ StopNodesOnExit \in BOOLEAN

VARIABLES
  pc,          \* where `run` is: a segment of the body, or a step after the select!
  pos,         \* index of the node the current loop is at
  framework,   \* `framework` is Some
  owned,       \* nodes stored in a field of the framework
  fresh,       \* nodes spawned by the body whose spawn_output no field holds yet
  strays,      \* nodes that were fresh when the body future was dropped
  unanswered,  \* those of them whose container the daemon had not created yet
  listed,      \* containers that the clean-up has listed and not removed yet
  tx,          \* the body still holds the original failure_tx
  proc,        \* state of each process
  docked,      \* nodes that were last spawned as a container
  lost,        \* nodes that ended other than by the framework, and were not restarted
  watch,       \* nodes with a live watch_log_for_panics task
  logged,      \* nodes whose watched log has an unread panic line
  chan,        \* nodes a report about which is in failure_rx
  passed,      \* T::run_test returned Ok
  verdict,     \* `result`, and after "returned" what `run` returned
  network,     \* the docker network of the test exists
  daemonErr    \* some docker request of the tear-down has failed

bodyVars == <<framework, owned, fresh, tx>>
leftVars == <<strays, unanswered, listed>>
nodeVars == <<proc, docked, lost, watch, logged, chan>>
vars == <<pc, pos, framework, owned, fresh, strays, unanswered, listed, tx, proc,
          docked, lost, watch, logged, chan, passed, verdict, network, daemonErr>>

Body == {"network", "infra", "rpc", "fund", "spawn", "client", "clementine",
         "connect", "ready", "setup", "test"}
Ending == {"stop_clementine", "stop_sequencers", "stop_roles", "stop_docker",
           "remove", "stop_postgres", "stop_bitcoin", "cleanup"}

(* A container that its creator has not been told of as running.           *)
Pending == {"asked", "created", "starting"}

ProcStates == {"absent", "up", "term", "exited", "crashed", "gone"} \cup Pending

FlagsOK ==
  /\ framework \in BOOLEAN /\ tx \in BOOLEAN
  /\ passed \in BOOLEAN /\ network \in BOOLEAN /\ daemonErr \in BOOLEAN

TypeOK ==
  /\ FlagsOK
  /\ pc \in Body \cup Ending \cup {"returned"}
  /\ pos \in Nat \ {0}
  /\ owned \subseteq Node /\ fresh \subseteq Node /\ strays \subseteq Node
  /\ unanswered \subseteq Node /\ listed \subseteq Node
  /\ proc \in [Node -> ProcStates] /\ docked \subseteq Node
  /\ lost \subseteq Node /\ watch \subseteq Node
  /\ logged \subseteq Node /\ chan \subseteq Node
  /\ verdict \in {"none", "ok", "err", "panic"}

Init ==
  /\ pc = "network" /\ pos = 1
  /\ framework = FALSE /\ tx = TRUE /\ passed = FALSE
  /\ network = FALSE /\ daemonErr = FALSE
  /\ owned = {} /\ fresh = {} /\ strays = {}
  /\ unanswered = {} /\ listed = {}
  /\ proc = [n \in Node |-> "absent"] /\ docked = {}
  /\ lost = {} /\ watch = {} /\ logged = {} /\ chan = {}
  /\ verdict = "none"

-----------------------------------------------------------------------------
(* The end of the select!                                                  *)

(* Mutant: only the log watchers hold senders.                             *)
WatchersOnly == watch # {}

(* Whoever still holds an UnboundedSender: the body, a Node, or the task   *)
(* that watches the log of one.                                            *)
Senders == tx \/ watch # {} \/ (owned \cup fresh) \cap ToSet(Citrea) # {}

(* Dropping a node leaves its process alone, except that a local bitcoind  *)
(* is spawned with kill_on_drop.                                           *)
Drop(nodes) ==
  proc' = [n \in Node |->
             IF n \in (nodes \cap ToSet(Bitcoins)) \ docked /\ proc[n] = "up"
             THEN "term" ELSE proc[n]]

(* The select! finishes with result v.  The body future is dropped with    *)
(* everything it owns; what no framework field holds is lost from sight,   *)
(* and the requests that are with the daemon stay there.                   *)
(* Without a framework, with_context(..)? returns before any cleanup;      *)
(* otherwise the tear-down begins, at node `first` of step `stop`.         *)
LeaveBody(v, stop, first) ==
  /\ Drop(fresh)
  /\ tx' = FALSE
  /\ strays' = fresh
  /\ unanswered' = {n \in fresh : proc[n] = "asked"}
  /\ fresh' = {}
  /\ pos' = first
  /\ verdict' = IF framework THEN v ELSE "err"
  /\ pc' = IF ~framework THEN "returned"
           ELSE IF StopNodesOnExit THEN stop ELSE "cleanup"
  /\ UNCHANGED <<framework, owned, listed, docked, lost, watch, logged, chan, network,
                 daemonErr>>

(* Mutants: the Citrea nodes are not stopped; the loops start too early.   *)
EndBodyAtDocker(v) == LeaveBody(v, "stop_docker", 1)
EndBodyAtZero(v) == LeaveBody(v, "stop_clementine", 0)

EndBody(v) == LeaveBody(v, "stop_clementine", 1)

(* A segment of the body returns Err, or panics under catch_unwind.        *)
BodyFails ==
  /\ pc \in Body
  /\ \E v \in {"err", "panic"} : EndBody(v)
  /\ UNCHANGED passed

(* The ctrl_c branch.                                                      *)
Interrupt ==
  /\ pc \in Body
  /\ EndBody("err")
  /\ UNCHANGED passed

(* Mutant: reports are received only once the test itself is running.      *)
RecvReportInTest ==
  /\ pc = "test"
  /\ chan # {}
  /\ EndBody("err")
  /\ UNCHANGED passed

(* The failure_rx.recv() branch: Some(e) fails the run, None ends it.      *)
RecvReport ==
  /\ pc \in Body
  /\ chan # {}
  /\ EndBody("err")
  /\ UNCHANGED passed

RecvClosed ==
  /\ pc \in Body
  /\ chan = {} /\ ~Senders
  /\ EndBody("ok")
  /\ UNCHANGED passed

-----------------------------------------------------------------------------
(* The body: TestFramework::new, prepare, setup, run_test                  *)

GoTo(label, i) == pc' = label /\ pos' = i

(* NodeT::spawn.  A child is there at once, of a container the daemon is   *)
(* asked.                                                                  *)
Spawns(n) ==
  /\ proc' = [proc EXCEPT ![n] = IF n \in InDocker THEN "asked" ELSE "up"]
  /\ docked' = docked \cup ({n} \cap InDocker)
  /\ fresh' = fresh \cup {n}

(* DockerEnv::spawn goes on when create_container has returned.            *)
AskStart(n) ==
  /\ pc \in Body
  /\ n \in fresh /\ proc[n] = "created"
  /\ proc' = [proc EXCEPT ![n] = "starting"]
  /\ UNCHANGED <<pc, pos, bodyVars, leftVars, docked, lost, watch, logged, chan, passed,
                 verdict, network, daemonErr>>

(* DockerEnv::new creates the network; the configuration is generated and  *)
(* must ask for at least one bitcoin node.                                 *)
CreateNetwork ==
  /\ pc = "network"
  /\ Bitcoins # <<>>
  /\ network' = (DockerBitcoin \/ DockerCitrea \/ DockerClementine \/ WithClementine)
  /\ GoTo("infra", 1)
  /\ UNCHANGED <<bodyVars, leftVars, nodeVars, passed, verdict, daemonErr>>

(* BitcoinNode::new and Postgres::new: spawn, then wait until it answers.  *)
SpawnInfra ==
  /\ pc = "infra"
  /\ Spawns(Infra[pos])
  /\ GoTo("rpc", pos)
  /\ UNCHANGED <<framework, owned, tx, leftVars, lost, watch, logged, chan,
                 passed, verdict, network, daemonErr>>

InfraReady ==
  /\ pc = "rpc"
  /\ proc[Infra[pos]] = "up"
  /\ IF pos < Len(Infra)
     THEN GoTo("infra", pos + 1) /\ UNCHANGED <<framework, owned, fresh>>
     ELSE /\ GoTo("fund", 1)
          /\ framework' = TRUE
          /\ owned' = fresh /\ fresh' = {}
  /\ UNCHANGED <<tx, leftVars, nodeVars, passed, verdict, network, daemonErr>>

(* init_clementine_nodes comes after init_citrea_nodes, which drops its    *)
(* failure_tx at its end.                                                  *)
AfterCitrea == IF WithClementine THEN "clementine" ELSE "connect"

FundWallets ==
  /\ pc = "fund"
  /\ \A i \in DOMAIN Bitcoins : proc[Bitcoins[i]] = "up"
  /\ GoTo(IF Citrea = <<>> THEN AfterCitrea ELSE "spawn", 1)
  /\ tx' = (Citrea # <<>>)
  /\ UNCHANGED <<framework, owned, fresh, leftVars, nodeVars, passed, verdict,
                 network, daemonErr>>

(* Node::new: spawn ...                                                    *)
SpawnCitrea ==
  /\ pc = "spawn"
  /\ Spawns(Citrea[pos])
  /\ GoTo("client", pos)
  /\ UNCHANGED <<framework, owned, tx, leftVars, lost, watch, logged, chan,
                 passed, verdict, network, daemonErr>>

(* ... then create the clients and start the log watcher.  The sequencers  *)
(* reach the framework together, when the last one exists.                 *)
BuildCitrea ==
  /\ pc = "client"
  /\ proc[Citrea[pos]] \notin Pending
  /\ watch' = watch \cup {Citrea[pos]}
  /\ IF pos < Len(Sequencers)
     THEN UNCHANGED <<owned, fresh>>
     ELSE owned' = owned \cup fresh /\ fresh' = {}
  /\ IF pos < Len(Citrea)
     THEN GoTo("spawn", pos + 1) /\ UNCHANGED tx
     ELSE GoTo(AfterCitrea, 1) /\ tx' = FALSE
  /\ UNCHANGED <<framework, leftVars, proc, docked, lost, logged, chan, passed, verdict,
                 network, daemonErr>>

(* ClementineCluster::new: the nodes of a list are started together, the   *)
(* lists one after the other.                                              *)
Batches == <<Verifiers, Operators, Aggregator>>

SpawnClementine(n) ==
  /\ pc = "clementine"
  /\ n \in ToSet(Batches[pos]) \ fresh
  /\ Spawns(n)
  /\ UNCHANGED <<pc, pos, framework, owned, tx, leftVars, lost, watch, logged, chan,
                 passed, verdict, network, daemonErr>>

(* try_join_all: each of them has answered, and may have ended since.  The *)
(* cluster reaches the framework when the aggregator has.                  *)
ClementineJoined ==
  /\ pc = "clementine"
  /\ ToSet(Batches[pos]) \subseteq {n \in fresh : proc[n] \notin Pending}
  /\ IF pos < Len(Batches)
     THEN GoTo("clementine", pos + 1) /\ UNCHANGED <<owned, fresh>>
     ELSE /\ GoTo("connect", 1)
          /\ owned' = owned \cup fresh /\ fresh' = {}
  /\ UNCHANGED <<framework, tx, leftVars, nodeVars, passed, verdict, network, daemonErr>>

ConnectBitcoins ==
  /\ pc = "connect"
  /\ \A i \in DOMAIN Bitcoins : proc[Bitcoins[i]] = "up"
  /\ GoTo(IF Citrea = <<>> THEN "setup" ELSE "ready", 1)
  /\ UNCHANGED <<bodyVars, leftVars, nodeVars, passed, verdict, network, daemonErr>>

WaitForReady ==
  /\ pc = "ready"
  /\ proc[Citrea[pos]] = "up"
  /\ IF pos < Len(Citrea) THEN GoTo("ready", pos + 1) ELSE GoTo("setup", 1)
  /\ UNCHANGED <<bodyVars, leftVars, nodeVars, passed, verdict, network, daemonErr>>

SetUpDone ==
  /\ pc = "setup"
  /\ GoTo("test", 1)
  /\ UNCHANGED <<bodyVars, leftVars, nodeVars, passed, verdict, network, daemonErr>>

TestPasses ==
  /\ pc = "test"
  /\ passed' = TRUE
  /\ EndBody("ok")

-----------------------------------------------------------------------------
(* What setup and run_test do to the nodes                                 *)

TestRuns == pc \in {"setup", "test"}

(* A process told to stop: a container has ended when the request returns, *)
(* a child only has the signal.                                            *)
Stopped(n) ==
  IF proc[n] = "up" THEN IF n \in docked THEN "exited" ELSE "term"
  ELSE IF proc[n] = "crashed" THEN "exited" ELSE proc[n]

(* NodeT::stop, the first half of wait_until_stopped.  BitcoinNode asks    *)
(* over RPC and so needs a running node; Node aborts its watcher before    *)
(* anything else.                                                          *)
TestStops(n) ==
  /\ TestRuns
  /\ n \in owned \ (fresh \cup ToSet(Postgres))
  /\ proc[n] # "gone"
  /\ n \in ToSet(Bitcoins) => proc[n] = "up"
  /\ proc' = [proc EXCEPT ![n] = Stopped(n)]
  /\ lost' = lost \cup {n}
  /\ watch' = watch \ {n} /\ logged' = logged \ {n}
  /\ UNCHANGED <<pc, pos, bodyVars, leftVars, docked, chan, passed, verdict, network,
                 daemonErr>>

(* The second half: wait() reaps the child, or the container is removed.   *)
(* Clementine nodes have no such half.                                     *)
TestReaps(n) ==
  /\ TestRuns
  /\ proc[n] = "exited" /\ n \notin ToSet(Clementine)
  /\ proc' = [proc EXCEPT ![n] = "gone"]
  /\ UNCHANGED <<pc, pos, bodyVars, leftVars, docked, lost, watch, logged, chan, passed,
                 verdict, network, daemonErr>>

(* Restart::start after wait_until_stopped: spawn, for a Citrea node as    *)
(* its restart_policy says.  A child is back at once; until a container is *)
(* the node keeps the spawn_output it had.                                 *)
TestStarts(n) ==
  /\ TestRuns
  /\ proc[n] = "gone"
  /\ docked' \in IF DockerCitrea /\ n \in ToSet(Citrea)
                  THEN {docked \cup {n}, docked \ {n}} ELSE {docked}
  /\ IF n \in docked'
     THEN /\ proc' = [proc EXCEPT ![n] = "asked"]
          /\ fresh' = fresh \cup {n}
          /\ UNCHANGED <<lost, watch>>
     ELSE /\ proc' = [proc EXCEPT ![n] = "up"]
          /\ lost' = lost \ {n}
          /\ watch' = watch \cup ({n} \cap ToSet(Citrea))
          /\ UNCHANGED fresh
  /\ UNCHANGED <<pc, pos, framework, owned, tx, leftVars, logged, chan, passed, verdict,
                 network, daemonErr>>

(* The container is there: the node takes its spawn_output, a Citrea node  *)
(* also a new watcher, which starts at the end of the log.                 *)
TestStarted(n) ==
  /\ TestRuns
  /\ n \in fresh /\ proc[n] \notin Pending
  /\ fresh' = fresh \ {n}
  /\ lost' = IF proc[n] = "up" THEN lost \ {n} ELSE lost
  /\ watch' = watch \cup ({n} \cap ToSet(Citrea))
  /\ UNCHANGED <<pc, pos, framework, owned, tx, leftVars, proc, docked, logged, chan,
                 passed, verdict, network, daemonErr>>

-----------------------------------------------------------------------------
(* After the select!: TestFramework::stop, T::cleanup, return              *)

(* NodeT::stop fails on a child that was reaped and on a container that    *)
(* was removed, which is what a node has at hand whose restart was cut     *)
(* short; a docker request may also fail by itself.                        *)
StopSucceeds(n) ==
  /\ proc[n] # "gone" /\ n \notin strays
  /\ proc' = [proc EXCEPT ![n] = Stopped(n)]
  /\ UNCHANGED daemonErr

StopFails(n) ==
  \/ (proc[n] = "gone" \/ n \in strays) /\ UNCHANGED <<proc, daemonErr>>
  \/ n \in docked /\ daemonErr' = TRUE /\ UNCHANGED proc

PreStop(n) == watch' = watch \ {n} /\ logged' = logged \ {n}

(* ClementineCluster::stop_all gives up at the first node that fails to    *)
(* stop; the framework goes on.                                            *)
StopClementine ==
  /\ pc = "stop_clementine"
  /\ IF pos \in DOMAIN Clementine /\ Clementine[pos] \in owned
     THEN \/ StopSucceeds(Clementine[pos]) /\ GoTo(pc, pos + 1)
          \/ StopFails(Clementine[pos]) /\ GoTo("stop_sequencers", 1)
     ELSE GoTo("stop_sequencers", 1) /\ UNCHANGED <<proc, daemonErr>>
  /\ UNCHANGED <<bodyVars, leftVars, docked, lost, watch, logged, chan, passed, verdict,
                 network>>

(* NodeCluster::stop_all gives up at the first node that fails to stop;    *)
(* for a single sequencer there is nothing to give up.                     *)
StopSequencers ==
  /\ pc = "stop_sequencers"
  /\ IF pos \in DOMAIN Sequencers /\ Sequencers[pos] \in owned
     THEN /\ PreStop(Sequencers[pos])
          /\ \/ StopSucceeds(Sequencers[pos]) /\ GoTo(pc, pos + 1)
             \/ StopFails(Sequencers[pos]) /\ GoTo("stop_roles", 1)
     ELSE GoTo("stop_roles", 1) /\ UNCHANGED <<proc, watch, logged, daemonErr>>
  /\ UNCHANGED <<bodyVars, leftVars, docked, lost, chan, passed, verdict, network>>

(* The other roles are stopped one by one and each error is ignored.       *)
StopRoles ==
  /\ pc = "stop_roles"
  /\ IF pos \in DOMAIN Roles
     THEN /\ GoTo(pc, pos + 1)
          /\ IF Roles[pos] \in owned
             THEN /\ PreStop(Roles[pos])
                  /\ StopSucceeds(Roles[pos]) \/ StopFails(Roles[pos])
             ELSE UNCHANGED <<proc, watch, logged, daemonErr>>
     ELSE GoTo("stop_docker", 1) /\ UNCHANGED <<proc, watch, logged, daemonErr>>
  /\ UNCHANGED <<bodyVars, leftVars, docked, lost, chan, passed, verdict, network>>

(* Mutant: only running containers are listed.                             *)
RunningContainers == {n \in docked : proc[n] = "up"}

(* DockerEnv::cleanup: the containers of the network are listed, running   *)
(* or not; each is stopped and removed, in the order the daemon lists      *)
(* them; then the network is removed.  The first error ends it, also that  *)
(* of removing a container which an earlier request has started meanwhile. *)
Containers == {n \in docked : proc[n] \notin {"absent", "asked", "gone"}}

ListContainers ==
  /\ pc = "stop_docker"
  /\ listed' = Containers
  /\ GoTo("remove", 1)
  /\ UNCHANGED <<bodyVars, strays, unanswered, nodeVars, passed, verdict, network,
                 daemonErr>>

RemoveContainer(n) ==
  /\ pc = "remove"
  /\ n \in listed
  /\ listed' = listed \ {n}
  /\ proc' = [proc EXCEPT ![n] = "gone"]
  /\ UNCHANGED <<pc, pos, bodyVars, strays, unanswered, docked, lost, watch, logged, chan,
                 passed, verdict, network, daemonErr>>

CleanupDocker ==
  /\ \/ /\ pc = "remove" /\ listed = {}
        /\ network' = FALSE /\ UNCHANGED daemonErr
     \/ /\ pc \in {"stop_docker", "remove"} /\ network
        /\ daemonErr' = TRUE /\ UNCHANGED network
  /\ listed' = {}
  /\ GoTo("stop_postgres", 1)
  /\ UNCHANGED <<bodyVars, strays, unanswered, nodeVars, passed, verdict>>

StopPostgres ==
  /\ pc = "stop_postgres"
  /\ IF Postgres # <<>>
     THEN StopSucceeds(Postgres[1]) \/ StopFails(Postgres[1])
     ELSE UNCHANGED <<proc, daemonErr>>
  /\ GoTo("stop_bitcoin", 1)
  /\ UNCHANGED <<bodyVars, leftVars, docked, lost, watch, logged, chan, passed, verdict,
                 network>>

(* BitcoinNodeCluster::stop_all: the stop RPC, then NodeT::stop, node by   *)
(* node, up to the first error: a node that does not answer, or one whose  *)
(* NodeT::stop fails after the RPC has already begun the shutdown.         *)
StopBitcoin ==
  /\ pc = "stop_bitcoin"
  /\ IF pos \in DOMAIN Bitcoins
     THEN \/ /\ proc[Bitcoins[pos]] = "up"
             /\ StopSucceeds(Bitcoins[pos])
             /\ GoTo(pc, pos + 1)
          \/ /\ proc[Bitcoins[pos]] # "up"
             /\ GoTo("cleanup", 1)
             /\ UNCHANGED <<proc, daemonErr>>
          \/ /\ proc[Bitcoins[pos]] = "up"
             /\ \/ Bitcoins[pos] \in strays /\ UNCHANGED daemonErr
                \/ Bitcoins[pos] \in docked /\ daemonErr' = TRUE
             /\ proc' = [proc EXCEPT ![Bitcoins[pos]] = "term"]
             /\ GoTo("cleanup", 1)
     ELSE GoTo("cleanup", 1) /\ UNCHANGED <<proc, daemonErr>>
  /\ UNCHANGED <<bodyVars, leftVars, docked, lost, watch, logged, chan, passed, verdict,
                 network>>

(* Mutant: what T::cleanup returns is what `run` returns.                  *)
ReturnCleanup ==
  /\ pc = "cleanup"
  /\ GoTo("returned", 1)
  /\ Drop(owned)
  /\ verdict' \in {"ok", "err"}
  /\ UNCHANGED <<bodyVars, leftVars, docked, lost, watch, logged, chan, passed, network,
                 daemonErr>>

(* T::cleanup, whose error replaces the result, and the return of `run`,   *)
(* which drops the framework.                                              *)
CleanUpAndReturn ==
  /\ pc = "cleanup"
  /\ GoTo("returned", 1)
  /\ Drop(owned)
  /\ verdict' \in {verdict, "err"}
  /\ UNCHANGED <<bodyVars, leftVars, docked, lost, watch, logged, chan, passed, network,
                 daemonErr>>

-----------------------------------------------------------------------------
(* The processes, the docker daemon, and the tasks that watch the logs     *)

(* The daemon carries out what it was asked, whoever waits for it.         *)
DaemonCreates(n) ==
  /\ proc[n] = "asked"
  /\ proc' = [proc EXCEPT ![n] = "created"]
  /\ UNCHANGED <<pc, pos, bodyVars, leftVars, docked, lost, watch, logged, chan, passed,
                 verdict, network, daemonErr>>

DaemonStarts(n) ==
  /\ proc[n] = "starting"
  /\ proc' = [proc EXCEPT ![n] = "up"]
  /\ UNCHANGED <<pc, pos, bodyVars, leftVars, docked, lost, watch, logged, chan, passed,
                 verdict, network, daemonErr>>

(* A signalled child ends; any process may end by itself, silently or      *)
(* after a line that its watcher recognises.                               *)
ProcessExits(n) ==
  /\ proc[n] = "term"
  /\ proc' = [proc EXCEPT ![n] = "exited"]
  /\ UNCHANGED <<pc, pos, bodyVars, leftVars, docked, lost, watch, logged, chan, passed,
                 verdict, network, daemonErr>>

Crash(n) ==
  /\ proc[n] = "up"
  /\ proc' = [proc EXCEPT ![n] = "crashed"]
  /\ lost' = lost \cup {n}
  /\ logged' \in {logged} \cup {logged \cup ({n} \cap watch)}
  /\ UNCHANGED <<pc, pos, bodyVars, leftVars, docked, watch, chan, passed, verdict,
                 network, daemonErr>>

(* A thread of the node panics; the process lives on.                      *)
PanicLine(n) ==
  /\ proc[n] = "up"
  /\ n \in watch
  /\ logged' = logged \cup {n}
  /\ UNCHANGED <<pc, pos, bodyVars, leftVars, docked, proc, lost, watch, chan, passed,
                 verdict, network, daemonErr>>

(* watch_log_for_panics reports the first such line and returns.           *)
ReportPanic(n) ==
  /\ n \in watch \cap logged
  /\ chan' = chan \cup {n}
  /\ watch' = watch \ {n} /\ logged' = logged \ {n}
  /\ UNCHANGED <<pc, pos, bodyVars, leftVars, docked, proc, lost, passed, verdict,
                 network, daemonErr>>

(* A watcher whose File::open fails panics, and nobody is told.            *)
OpenFails(n) ==
  /\ n \in watch \ logged
  /\ watch' = watch \ {n}
  /\ UNCHANGED <<pc, pos, bodyVars, leftVars, docked, proc, lost, logged, chan, passed,
                 verdict, network, daemonErr>>

-----------------------------------------------------------------------------

Recv == RecvReport \/ RecvClosed

BodyStep ==
  \/ CreateNetwork \/ SpawnInfra \/ InfraReady \/ FundWallets \/ SpawnCitrea
  \/ BuildCitrea \/ (\E n \in Node : SpawnClementine(n) \/ AskStart(n))
  \/ ClementineJoined
  \/ ConnectBitcoins \/ WaitForReady \/ SetUpDone \/ TestPasses
  \/ BodyFails

TestStep ==
  \E n \in Node : TestStops(n) \/ TestReaps(n) \/ TestStarts(n) \/ TestStarted(n)

EndingStep ==
  \/ StopClementine \/ StopSequencers \/ StopRoles
  \/ ListContainers \/ (\E n \in Node : RemoveContainer(n))
  \/ CleanupDocker \/ StopPostgres \/ StopBitcoin \/ CleanUpAndReturn

NodeStep ==
  \E n \in Node :
    \/ ProcessExits(n) \/ Crash(n) \/ DaemonCreates(n) \/ DaemonStarts(n)
    \/ PanicLine(n) \/ ReportPanic(n) \/ OpenFails(n)

Done == pc = "returned" /\ UNCHANGED vars

Next == BodyStep \/ TestStep \/ Recv \/ Interrupt \/ EndingStep \/ NodeStep \/ Done

Spec == Init /\ [][Next]_vars

(* tokio polls the recv branch as long as the select! is pending, and the  *)
(* runner's own steps and the watchers go on; nothing makes a test return. *)
Fairness ==
  /\ WF_vars(Recv)
  /\ WF_vars(EndingStep)
  /\ \A n \in Node : WF_vars(ReportPanic(n))

FairSpec == Spec /\ Fairness

-----------------------------------------------------------------------------
(* Properties                                                              *)

(* `run` returns Ok only for a test whose run_test returned Ok: neither a  *)
(* cancelled body nor a closed failure channel may look like a pass.       *)
OkOnlyAfterPass == verdict = "ok" => passed

Before(m, n, s) == \E i, j \in DOMAIN s : i < j /\ s[i] = m /\ s[j] = n

(* A process that is still running when `run` has returned and had a       *)
(* framework to stop was never handed to the framework (its creation or    *)
(* restart was cut short), or is a container the daemon failed to stop, or *)
(* comes after a sequencer of its cluster that had ended by itself, had    *)
(* been stopped by the test or is such a container: there stop_all gives   *)
(* up.                                                                     *)
Unstoppable(m) == m \in docked /\ daemonErr

LeftoversExplained ==
  pc = "returned" /\ framework /\ StopNodesOnExit =>
    \A n \in Node : proc[n] = "up" =>
      \/ n \in strays
      \/ Unstoppable(n)
      \/ \E m \in Node : (m \in lost \/ Unstoppable(m)) /\ Before(m, n, Sequencers)

(* A run that had a framework and a daemon that did what it was asked      *)
(* leaves neither its network nor a container on it, not even one that had *)
(* ended or was not running yet when the body was cut short.  The one      *)
(* exception is a container whose create request was still with the daemon *)
(* then: it may come to exist after the clean-up has listed what there is, *)
(* but nobody asks for its start, so it never runs.                        *)
LeavesNoContainer ==
  pc = "returned" /\ framework /\ StopNodesOnExit /\ ~daemonErr =>
    /\ ~network
    /\ \A n \in docked :
         proc[n] = "gone" \/ (n \in unanswered /\ proc[n] \in {"asked", "created"})

(* Whose peers tear-down has to leave running: all nodes but the later     *)
(* sequencers of a cluster, which it may have given up.  Clementine nodes  *)
(* use postgres, the full node and the light client prover, too.           *)
Clients(server) ==
  LET Bridge == ToSet(Clementine) IN
  IF server \in ToSet(Bitcoins)
  THEN Bridge \cup ToSet(Roles) \cup {Sequencers[i] : i \in DOMAIN Sequencers \cap {1}}
  ELSE IF server \in ToSet(Postgres) \cup ToSet(Roles) THEN Bridge ELSE {}

(* A child has the signal, which nobody waits for; a container has ended.  *)
ToldToStop(c) == proc[c] # "up" /\ (c \in docked => proc[c] # "term")

(* Tear-down never stops a node before it has told those that use it to    *)
(* stop: a client that is a container has ended by then, one that is a     *)
(* child process has got its signal and may still be running.  The daemon  *)
(* may have failed to stop a client, and of one whose creation or restart  *)
(* was cut short the framework knows nothing.  Where nothing is to be      *)
(* stopped there is no such order: a local bitcoind goes with the          *)
(* framework while its clients run on.                                     *)
ServersOutliveClients ==
  [][ (pc \in Ending /\ StopNodesOnExit) =>
        \A server \in Node :
          proc[server] = "up" /\ proc'[server] \in {"term", "exited", "gone"} =>
            \A c \in Clients(server) \cap (owned \ strays) :
              ToldToStop(c) \/ (c \in docked /\ daemonErr)
    ]_vars

(* A panic report reaches `run` and ends it, however long the test runs.   *)
PanicEndsRun == (chan # {}) ~> (pc = "returned")

(* What a caller of `run` may rely on, whatever the nodes do.              *)
Contract == INSTANCE RunContract WITH
  stage <- CASE pc \in Body   -> "running"
             [] pc \in Ending -> "ending"
             [] OTHER         -> "returned",
  asked <- {n \in Node : proc[n] = "starting"},
  live <- {n \in Node : proc[n] \in {"up", "term"}}

(* `run` is one of the behaviours RunContract allows: once the outcome is  *)
(* decided a process comes up only if its start was requested before, and  *)
(* only a passing test makes the outcome "ok".                             *)
ImplementsContract == Contract!Spec

-----------------------------------------------------------------------------
(* What a comment of the source says of `run`, and the code does not do in *)
(* every run                                                               *)

(* "takes care of cleaning up and stopping the child processes", even when *)
(* the test did not get as far as having a framework.                      *)
StopsItsProcesses ==
  pc = "returned" /\ StopNodesOnExit => \A n \in Node : proc[n] # "up"
=============================================================================
