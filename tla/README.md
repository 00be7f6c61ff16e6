# Verification of citrea-e2e

`citrea-e2e` is a framework for end-to-end tests of Citrea.  A test case states which nodes it
needs; the framework generates their configuration, spawns them as child processes or docker
containers, funds and connects them, runs the test, and stops everything.  This directory holds
TLA+ models of that machinery, TLC configurations that check them on small instances, and TLAPS
proofs of their safety properties for every value of their constants.

Paths below are relative to the crate (`src/`): `test_case.rs:97` is `src/test_case.rs`, line 97.

## Inventory

| Part | Code | State | Operations | What makes it correct |
|---|---|---|---|---|
| Test runner | `test_case.rs` | `framework`, the failure channel, `result` | `run`, `prepare`, `run_test_case` | Ok only for a test that passed; always reaches its end; whatever it started is stopped |
| Framework | `framework.rs` | the nodes it owns, the docker environment | `new`, `fund_da_wallets`, `init_nodes`, `dump_logs`, `stop` | no node is told to stop before those that use it, up to known failures |
| Log watcher | `test_case.rs:306-350`, `docker.rs:386-410` | position in a log, a sender | `watch_log_for_panics`, `extract_container_logs` | a panic line of this run reaches `run` |
| Node | `node.rs`, `traits.rs`, `utils.rs` | `spawn_output`, `config`, `panic_watcher`, static `INDEX` | `new`, `stop`, `wait_until_stopped`, `start`, `wait_for_*` | a restart keeps the database, overwrites no earlier one, and the process can reach its peers |
| Node cluster | `node.rs:408-490` | a list of nodes | `new`, `stop_all`, `wait_for_sync` | all or none stopped; ends when in sync |
| Bitcoin cluster | `bitcoin.rs` | a list of nodes, their peers and chains | `connect_nodes`, `disconnect_nodes`, `wait_for_sync`, `generate`, `stop_all`, restart | Ok means connected, disconnected, in sync |
| Docker environment | `docker.rs`, `config/docker.rs` | network, volumes, container ids | `new`, `create_volume`, `spawn`, `cleanup` | everything created is removed |
| Postgres | `postgres.rs` | `spawn_output` | `new`, `stop` | ready when used, stopped last but bitcoin |
| Configuration generator | `framework.rs:403-756`, `config/` | none; writes files, reserves ports | `generate_test_config`, `generate_sequencer_configs` | each node is given URLs under which its peers listen, and ports no other has |
| Clementine cluster | `clementine/`, `config/clementine.rs` | verifiers, operators, aggregator, file locks | `new`, `stop_all`, certificate and docker-client download | starts in order, with its own databases and whole certificates, no deadlock on the locks |
| RPC clients, CLI, log providers, config types | `client.rs`, `citrea_cli.rs`, `log_provider.rs`, `citrea_config/` | none | one request or command each | not modelled: no state |

How they interact.  `run` owns an `Option<TestFramework>` and a channel.  The body of its
`select!` builds the framework and hands the only sender to `init_citrea_nodes`, which clones it
into every Citrea node and into a task per node that follows the node's log.  The test calls the
nodes through the framework.  When the `select!` ends the body is dropped where it stands, and
`run` calls `TestFramework::stop`, which stops node by node and then asks the docker
environment to remove what is on its network.  Tests of one process run concurrently and share
`INDEX` and the environment; tests of all processes share the ports of the host, the
certificates, the docker client and their lock files.

What is hard: any `await` of the body may be its last; a process can end at any time; `Drop`
stops some processes and not others; the docker daemon can fail between two requests; bitcoind
opens and closes connections long after the RPC that asked for it; a restart is a sequence of
copies any of which may fail; `INDEX` is shared by threads and wraps.  PROJECT.json lists these
as hazards, each at its line with the properties that cover it.

## Plan

| Module | Status | Subject |
|---|---|---|
| `TestRunner`, `RunContract` | done | `run`, the framework's start and stop, all its processes, watchers; its contract |
| `TestRunnerProofs` | done | type correctness, OkOnlyAfterPass, refinement of the contract |
| `TearDownProofs` | done | LeftoversExplained, LeavesNoContainer, ServersOutliveClients |
| `NodeRestart` | done | `Restart for Node`, directories, storage, URLs |
| `NodeRestartProofs` | done | type correctness, all four properties |
| `BitcoinNetwork` | done | connect, disconnect, sync, restart |
| `BitcoinNetworkProofs` | done | type correctness, all four properties |
| `Topology` | done | which URL each generated config holds and whether it leads to its node from where the owner runs |
| `TopologyProofs` | done | type correctness, all four properties |
| `Clementine` | done | starting Clementine containers: the docker client and its lock, volumes, clean-up after a cut-off start |
| `ClementineProofs` | done | type correctness, all three safety properties |
| `ClusterWaits` | done | `NodeCluster::wait_for_sync`, `wait_for_l1_height`, `wait_for_l2_height` |
| `LogWatcher`, `PanicWatch` | done | the way of a line to the log and to a report; what `TestRunner` assumes of it |
| `LogWatcherProofs` | done | type correctness, ReportsAreFresh, MissesExplained, every step refines `PanicWatch` |
| `HostSetup` | done | certificates, ports and databases of tests that start together |
| `HostSetupProofs` | done | type correctness, CertsComplete, OwnBitcoin, OwnDatabases |

## TestRunner

One call of `run`.  `pc` is the segment of the body between two awaits (`network` ... `test`) or
the step after the `select!` (`stop_sequencers` ... `cleanup`, `returned`); `pos` is the index of
a loop over nodes.

| Model | Code |
|---|---|
| `CreateNetwork`, `SpawnInfra`, `InfraReady` | `TestFramework::new`: docker network, bitcoin nodes, postgres; `framework` becomes `Some` only at the end |
| `FundWallets`, `SpawnCitrea`, `BuildCitrea`, `ConnectBitcoins`, `WaitForReady`, `SetUpDone`, `TestPasses` | `prepare`, `setup`, `run_test` |
| `BodyFails`, `Interrupt`, `RecvReport`, `RecvClosed` | the ways the `select!` ends; `LeaveBody` drops the body |
| `Spawns`, `AskStart`, `DaemonCreates`, `DaemonStarts` | `NodeT::spawn`: a child is there at once; a container takes `create_container`, `start_container` and `inspect_container` (`docker.rs:256-277`), an await each, of the daemon (external), which carries out what it was asked even when the body has been dropped since |
| `fresh`, `owned`, `strays` | nodes spawned but not yet in a field, in a field, and dropped before they reached one. The sequencers of a cluster reach the framework together; a node that the test is restarting as a container is both in a field and `fresh` |
| `unanswered` | strays whose create request the daemon had not carried out when the body was dropped |
| `Drop` | a local bitcoind has `kill_on_drop` (`bitcoin.rs:154`); no other process has |
| `tx`, `watch`, `Senders` | who holds an `UnboundedSender`: the body until `init_citrea_nodes` returns, each Citrea node, each watcher |
| `SpawnClementine`, `ClementineJoined` | `ClementineCluster::new`: the nodes of a list are spawned in any order, the lists one after the other |
| `TestStops`, `TestReaps`, `TestStarts`, `TestStarted` | the test stops nodes (`NodeT::stop`), reaps and restarts them (`Restart`, which Clementine nodes and postgres do not have); until a container is there the node keeps the `spawn_output` it had |
| `StopClementine`, `StopSequencers`, `StopRoles`, `StopPostgres`, `StopBitcoin` | `TestFramework::stop` in its order, with `NodeT::stop` as `StopSucceeds` or `StopFails` |
| `ListContainers`, `RemoveContainer`, `CleanupDocker`, `listed` | `DockerEnv::cleanup` between the roles and postgres: the list, the containers on it in the daemon's order, the network, up to the first error |
| `CleanUpAndReturn` | `T::cleanup`, the verdict, and the drop of the framework |
| `ProcessExits`, `Crash`, `PanicLine`, `ReportPanic` | the processes (external) and the watchers |

A process is `term` from the signal on and `exited` later; a container has ended when the stop
request returns.  A child that ended by itself is a zombie until it is reaped, so a signal to it
succeeds; a reaped child and a removed container make `stop` fail.

Abstracted: the contents of configuration and logs; the timeouts of the waits, which are
`BodyFails`; that a test goes on after a restart that failed in docker, and tries it again: here
such a failure ends the test, as the `?` in the repository's tests does.  What each Clementine node
waits for before `try_join_all` returns is left out of `ClementineJoined`: a node that has answered
may have ended by then, so that nothing about its process can be a guard.

`RunContract` is what a caller may rely on: the start of a process is requested only while the test
runs, and one that was requested by then may come up later; the outcome is decided once, only the
test makes it "ok", and afterwards it can only become "err".

Properties:

- `OkOnlyAfterPass`: the verdict is Ok only when `run_test` returned Ok.
- `LeftoversExplained`: a process still running when `run` has returned (with a framework and
  `stop_nodes_on_exit`) was cut off while being created or restarted, or is a container the daemon
  failed to stop, or follows in its sequencer cluster a node at which `stop_all` gave up.
- `LeavesNoContainer`: after such a run, if no docker request failed, its network is gone, and so is
  every container of the test, running or not, but for one case: a container whose create request
  the daemon had not carried out when the body was dropped (`unanswered`) may appear after the
  clean-up has listed the containers.  Nobody asks for its start, so that it never runs.
- `ServersOutliveClients`: tear-down never stops a node before it has told those that use it to stop:
  Citrea and Clementine nodes use bitcoin; Clementine nodes use postgres and the other roles (full
  node, light client prover) too.  A client that is a container has ended by then.  A client that is
  a child has got its signal, which nobody waits for (`traits.rs:50-66`), and may still be running.
  Excepted are clients that are containers whose stop request failed, later sequencers of a
  cluster, and nodes whose creation or restart was cut short.  It is about runs with
  `stop_nodes_on_exit`: without it nothing is stopped, but the drop of the framework kills a local
  bitcoind (`kill_on_drop`) under the Citrea nodes, which have no such flag and run on.
- `PanicEndsRun`: a report leads to the return of `run`.
- `ImplementsContract`: refinement of `RunContract`.

Fairness (only for `PanicEndsRun`): the receiving branch of the `select!`, the steps of the
tear-down, and each watcher.  tokio polls a pending `select!` branch whose waker fired, `stop` and
`cleanup` are plain sequences of awaits (their requests are assumed to be answered), and a watcher
polls its file every 100 ms.  Nothing is assumed of the test: it may hang.

## NodeRestart

`Restart for Node`, for several nodes of several tests.  `disk` maps every directory to the set of
database versions its files come from; a start copies the config directory and the storage to
`{kind}-{INDEX}`.  `FetchAdd` (which notes `oldDir`, the directory of the config it replaces, and
then replaces it), `CopyAndConfigure` and `Spawn` are separate steps because other tests run between
them; nodes of one test do not, since there is no await from `fetch_add` to the copies.  Every `?` in
between is an action that leaves what the code leaves: the new config with its own directory and a
copy of the old one that may be partial (`CopyDirectoryFails`), the new directory in the config and
a copy of the storage that may be partial (`CopyStorageFails`), or both whole (`SpawnFails`).

- `KeepsState`: the storage a node is configured with holds exactly what it wrote last.
- `KeepsPreviousDatadirs`: a step changes the directory of a running node or an empty one.
- `OwnStorage`: two nodes never share a storage directory.
- `ChildUsesLocalUrls`: a child is never configured with a docker-only name.

All four are stated for the first `IndexSize` (256) starts of the process: the counter wraps, and
nothing in the repository claims more.  A test may pass any config it has kept to `start`.  One from
before an earlier start has an older storage path: the node goes back to what it had written by then,
and as a child it may be given URLs of docker.  The history variable `stale` says that such a config
has been passed.  `KeepsState` and `ChildUsesLocalUrls` are stated until then
(`EveryConfigIsCurrent`), `OwnStorage` and `KeepsPreviousDatadirs` whatever is passed.
`ChildUsesLocalUrls` needs new indices too: once one is used again, a config the test kept can name
the storage directory of the current one together with docker's URLs.

## BitcoinNetwork

`connect_nodes`, `disconnect_nodes`, `wait_for_sync`, mining and the restart of a node, against a
bitcoind that opens the two ends of a connection separately, may refuse or delay it, closes ends late
and relays the longer chain.  Peers are told apart by their subversion, as in the code.  The number of
nodes, `N`, is chosen in `Init` among `Sizes` and stays.  `disconnect_nodes` lists the peers of a pair, asks for the
end of each in turn (`DropPeer`) and may fail after any of them.

- `FirstConnectLinksAll`: the first successful `connect_nodes` links node 0 to every other node.
- `DisconnectCutsAll`: with no more than two nodes, the case the tests use, a successful
  `disconnect_nodes` leaves no two nodes linked, unless a connection asked for earlier was still
  undecided when it began.  With three, the early return at `bitcoin.rs:440` can leave a link.
- `ConnectLinksPair`: with two nodes, every `connect_nodes` that returns Ok has linked them, also
  when it comes after a disconnect or a restart, while a node still lists a peer that is gone.
- `SyncedIfOneMiner`: when only node 0 has mined, nodes that `wait_for_sync` accepts have one chain.
  After a fork equal heights say nothing about equal chains.

The comment at `bitcoin.rs:365`, "Connect all bitcoin nodes between them", is not a property: with
one subversion the waits of the pair (1, 2) are satisfied by the links with node 0, so
`connect_nodes` may return Ok with nodes 1 and 2 unlinked.  PROJECT.json has it as a hazard.

`WaitUntilStopped` closes the node's own ends at once and leaves those of its peers to close
later; `StartNode` starts without connections, since `onetry` is not repeated.

## Topology

The URLs `generate_test_config` and the Clementine configuration write, for every test case with a
sequencer: any mix of docker and local nodes and any optional nodes.  A URL is its role in the
config, a host (`127.0.0.1`, `0.0.0.0` or a docker name) and the node whose port it has; ports of a
test are taken to be distinct.

| Model | Code |
|---|---|
| `TestCase`, `Nodes`, `Place` | `TestCaseConfig`, the branch taken by each `NodeT::spawn` |
| `Hostname` | `DockerEnv::get_hostname`: one name per kind, but for verifiers and operators |
| `DaUrl`, `SequencerUrl`, `SequencerUrls`, `RollupUrls` | `generate_test_config`, `generate_sequencer_configs` |
| `ConfigUrls`, `EntityUrls`, `Endpoints` | `ClementineConfig::from_configs`, `generate_cluster_config` |
| `Stage`, `Earlier`, `Launch` | the order of `TestFramework::new`, `init_nodes`, `ClementineCluster::new` |
| `Stop`, `StartCitrea`, `Normalized`, `StartBitcoin` | `wait_until_stopped`, `Node::start` with `normalize_network_for_local_process`, `BitcoinNode::start` |
| `Listens`, `Resolve`, `Leads` | the addresses containers bind, docker's name service, published ports |

A start is modelled without a new config: a test that passes one chooses the URLs itself.

- `LaunchedAfterPeers`: a node is spawned after every node of the test that its config names.
- `LocalCitreaReachesPeers`: a Citrea process on the host reaches its running peers, at first and
  after any restarts that moved it or them out of docker or back.
- `WorksCharacterized`: which of the test cases work at all; every URL of every node leads to its
  node exactly if Citrea containers have a single bitcoin container and a single sequencer, and
  Clementine runs where Citrea does, with a full node and a light client prover.  The single
  sequencer is there because the URL that `framework.rs:705` hands to the other sequencers is the
  address the first one binds, `0.0.0.0` in docker, which leads a container to itself.
- `ContainersKeepPeers`: in these, restarts inside docker lose no peer.  A container that has been a
  child in between is exempt: its URLs were rewritten and are not written back.

## Clementine

`ClementineCluster::new` for tests in docker that start at once, with the files they share.  `pc` is
the await at which the future of a node is.  The futures of one test are polled by one thread,
which the loop that waits for the lock blocks (`Sleeping`).

| Model | Code |
|---|---|
| `CheckClient`, `TryLock`, `LockTimesOut`, `CurlReturns`, `TarReturns`, `BinaryReturns` | `ensure_docker_client_if_needed`, for the URL of an archive (the default) or of a single binary |
| `CreateVolume`, `VolumeCreated`, `Mounts`, `ContainerCreated`, `Ready` | `create_volume`, `DockerEnv::spawn`, the waits of the constructors |
| `BatchJoined`, `StartAborts` | `try_join_all` of verifiers, then operators, then the aggregator; the drop of all futures by an error or by `run` |
| `TestEnds`, `RemoveContainers`, `RemoveVolumes`, `CleanupFails` | `stop_all` and `cleanup` |
| `CurlOpens`, `CurlWrites`, `CurlFails`, `LateRequest` | curl, tar and the docker daemon (external), which go on when their future is dropped |

- `WholeClient`: no container is given a part of the docker client.  Excepted is an archive when a
  test was cut off while it unpacked one: its tar goes on and may be writing the file that another
  test moves into place.  So is a single binary when a test was cut off while it downloaded one:
  the curl that goes on truncates the file the next test has just written, which is renamed into
  place unchecked.
- `DownloadsDoNotRace`: what a node unpacks is whole, unless the curl of a dropped node is left.
- `LeavesOnlyWhatWasCut`: a clean-up without an error leaves nothing in docker but what came from
  requests that were dropped without an answer.
- `StartEnds`: a start ends, even when a node waits for a lock that its sibling on the same thread
  holds; the timeout is needed for that.

`ClementineAssumption` gives every test at least one list of nodes: the code always joins three,
empty or not.

Fairness (only for `StartEnds`) is of threads, not of nodes: the thread of a test goes on with one of
the futures that can (`Thread`), because the daemon answers and 30 s pass; and some curl goes on.
Nothing is assumed of the other test or of clean-up.

## ClusterWaits

`NodeCluster::wait_for_sync` over sequencers whose heights grow by themselves: the two requests to
node 0, the waits of each node with their own timeouts, and the loop around them.
`FailsOnlyOutOfSync` is violated: the loop has no exit with Ok.

## LogWatcher

One Citrea node over its starts, as a child or a container, and the two tasks between what it
prints and a report.  A log is a sequence of pieces, each written at once: a line without a
keyword, one with a keyword, the two parts of such a line, or one that is not UTF-8.  Positions
count pieces; nothing is between two pieces that a read could return.

| Model | Code |
|---|---|
| `Launch`, `Start`, `Attach`, `Stop` | `Node::start` with its copy of the directory, `watch_log_for_panics`, `pre_stop` |
| `Prints`, `ProcessEnds` | the process (external): a child writes its stdout to the log, a container to its terminal |
| `CreateLog`, `CopyPiece`, `StreamEnds`, `TaskFails` | `extract_container_logs`, whose result nobody reads (`docker.rs:290-298`) |
| `Open`, `OpenFails`, `SeekToEnd`, `ReadPanic`, `ReadOther` | `watch_log_for_panics`; the `unwrap` of `File::open` ends the task, and nobody is told |
| `ends` | the positions at which the watcher stood at the end of the file after a read |

- `ReportsAreFresh`: a report is about a line of the run of the node that is being watched, although
  the copy of its directory brings its old log along.
- `MissesExplained`: a watcher has passed a line with a keyword for one of four reasons only.  The
  line, or its first part, was printed before the watcher had its position; or the log was truncated
  under the watcher, as happens when that of a restarted container is at the end of the old log as
  `File::create` empties it; or the line is not UTF-8, which is an error of `read_line`; or its first
  part was the last thing in the log when it was read, so that the watcher saw it in two parts.
- `ImplementsWatch`: refinement of `PanicWatch`, the watcher `TestRunner` has as `PanicLine` and
  `ReportPanic`: a line in the log ahead of the watcher leads to one report or to the node's stop.
- `PanicReported`: so does a line printed behind the position of the watcher, the extractor in
  between, unless that fails.

What the code does not see, and the model has: a line read in two parts, since `read_line` at the
end of the file returns what there is; a line that is not UTF-8; whatever follows the first report.
What it leaves out: a child's stderr goes to a file of its own that nobody watches, while a
container has a terminal with both; `abort` is taken to be immediate (the watcher has an await in
each turn of its loop); the log is not changed by a test.

Fairness: the watcher polls its file every 100 ms, and the extractor goes on while the daemon sends.
Nothing is assumed of the process.

## HostSetup

Several Clementine tests that set up on one host, all in one process (`cargo test`) or each in its
own (`cargo nextest`).  `pc` is the await, or the synchronous part, at which a test is; at any of
them `End` may be its last step.

| Model | Code |
|---|---|
| `TakeLock`, `RunClause`, `ScriptFails`, `ScriptReturns`, `CopyResources` | `generate_certs_if_needed`, `generate-certs.sh`, `copy_resources` |
| `GetAvailablePort`, `SpawnBitcoin`, `Bind`, `BindFails`, `RpcReady` | `get_available_port`, `BitcoinNode::new` with a local bitcoind, `wait_for_rpc_ready` |
| `PostgresReady`, `SetEnv`, `DropDb`, `CreateDb` | `Postgres::new`, `setup_clementine_databases` |

- `CertsComplete`: a test goes on with certificates that are all there and of one script, unless some
  script failed half way or outlived its test: only `ca.pem` is looked for, which is made first.
- `OwnBitcoin`: the bitcoind that answers a test is its own, unless two tests were given one port
  before either bound it.  `raced` is that condition as it happens, not its effect.
- `OwnDatabases`: after `setup_clementine_databases` every database of the test is in its own postgres
  and made by it, unless the loops of two tests of a process overlapped: PGHOST and PGPORT belong to
  the process.
- `CertsEnd`: nobody waits on the lock or for a script for ever.  Fairness, only for this: scripts go
  on, and the kernel hands on the lock.

Left out: each test has one bitcoind, and other ports are taken in the same way; the databases are
those of verifiers and operators, of which there is at least one; `dropdb` or `createdb` of a test
that was cut off has ended with it.

## Runs

| Run | Instance | Shows |
|---|---|---|
| `local` | bitcoin, 2 sequencers, aggregator, all local | OkOnlyAfterPass, LeftoversExplained, PanicEndsRun |
| `docker` | bitcoin, a sequencer and a full node in containers, each of which the test may restart, the Citrea nodes also as children | TypeOK, LeftoversExplained, LeavesNoContainer, ServersOutliveClients, ImplementsContract |
| `nocitrea` | 2 bitcoin nodes and postgres in containers, local verifier and aggregator, no Citrea node: the channel may close under the body | LeftoversExplained, ServersOutliveClients |
| `vacuous` | one bitcoin node, no Citrea node | OkOnlyAfterPass is violated: the closed channel reads as Ok |
| `abandoned` | local bitcoin, 2 local sequencers | StopsItsProcesses is violated: a child of an unfinished constructor survives |
| `restart` | 2 nodes of one test, 1 of another, IndexSize 2, 2 starts, 2 versions, any kept config | the properties of NodeRestart |
| `bitcoin` | 2 or 3 bitcoin nodes, 2 blocks; 3 until the first disconnect or stop | the properties of BitcoinNetwork |
| `topology` | up to 2 bitcoin nodes, 2 sequencers, 2 verifiers and 1 operator, with or without each other Citrea node, postgres and aggregator; 3 restarts | the properties of Topology |
| `clementine` | a test with 2 verifiers and an aggregator, another with a verifier; a download of 2 parts, as an archive or a binary | the properties of Clementine |
| `clustersync` | 2 sequencers, heights up to 1 | FailsOnlyOutOfSync is violated |
| `logs` | 2 runs of a node, 3 pieces each | the properties of LogWatcher |
| `setup` | 2 tests, 2 ports, 2 databases | the properties of HostSetup |

Why the bounds are enough.  `TestRunner` has no counters: the instances contain each kind of
process (child, container, restarted as the other), lists of two bitcoin nodes, two sequencers and
two kinds of Clementine nodes, and an unbounded number of crashes and restarts.  In `NodeRestart`
two starts let one node start twice, two nodes of one test start one after the other, and two
tests interleave; with two indices they use up the counter; `MaxVersion` lets a database change
between two copies.
In `BitcoinNetwork` two blocks are needed for heights that differ by more than one; the number of
calls and restarts is unbounded.  Three nodes are needed for one link to satisfy the wait for
another, which `FirstConnectLinksAll` is about; the constraint `Followed` ends the behaviours of
three at the first disconnect or stop, and loses nothing of that property, whose `~parted` is false
from then on.  `ConnectLinksPair` and `DisconnectCutsAll` are about two nodes, which are followed
without end; for `SyncedIfOneMiner` and `TypeOK` with three nodes beyond that point there are the
theorems.  `restart` identifies states that differ by exchanging the two nodes of one test, which nothing
distinguishes.  In `Topology` two of a kind are enough for names to clash and for listen mode, and
three restarts move a node out of docker and back while a peer moves.  In `Clementine` two siblings
compete for the lock and a third node, of another test, waits on a thread of its own; two parts make
an archive that can be incomplete; each node downloads at most once, so the runs of the lock are
bounded by the nodes.  In `LogWatcher` the second run meets the log of the first, and three pieces
are a line before the watcher's position, one at it and one ahead, or a line in two parts beside
another.  In `HostSetup` two tests are enough for every race the properties name.  For all safety
properties the theorems cover every size.

The three violations are disagreements between a comment and the code; PROJECT.json quotes the
comments.

## Proofs

`TestRunnerProofs` proves, for every set of nodes and every configuration that satisfies
`ConfigAssumption` (lists of distinct nodes):

- `TypeCorrect`: `Spec => []TypeOK`.
- `OkMeansPassed`: with at least one Citrea node, `Spec => []OkOnlyAfterPass`.
- `RunImplementsContract`: with at least one Citrea node, `Spec => ImplementsContract`.

The assumption on Citrea nodes is needed: run `vacuous` is the counterexample without it.  The
refinement has `asked <- {n : proc[n] = "starting"}`: a process that comes up after the outcome is
decided is a container whose start the daemon had been asked for before.

The inductive invariant `Inv` has five parts.  `FlagsOK` and `DataOK` are the types, apart because
the provers differ in what they are good at.  `Position` keeps `pos` inside the list a loop is
about.  `HasSender` is the heart of `OkMeansPassed`: the body holds a sender until the last Citrea
node is built, and from then on the framework owns a Citrea node, which holds one; so `recv` cannot
yield `None` while the body runs (`ChannelOpen`).  `Outcome` says that the verdict is open until
the body ends.  In the refinement a step of the body either starts a process, ends one or changes
nothing the contract sees (`Launches`, `Quits`, `Same`); the end of the body is `Decides`.

`TearDownProofs`, under the same assumption and without any on Citrea nodes:

- `LeftoversCorrect`: `Spec => []LeftoversExplained`, `NoContainerLeft`: `Spec => []LeavesNoContainer`.
- `TearDownOrder`: `Spec => ServersOutliveClients`, an action property.

What the tear-down finds depends on where the body was cut off, so that `TearInv` follows every node
from its spawn on.  `Origin`: whatever exists is owned, fresh or a stray.  `Requests`: who waits for
the daemon, which while the body runs is what the body awaits, and later what was cut.  `Progress`: how far the
body has got with handing nodes to the framework, from which `Clusters`: the nodes of a cluster are
owned all or none when the tear-down begins.  `Docking`: only a restart changes what is a container.
`Gone`: before the containers are removed only a node the test has reaped, or whose restart was cut
short, makes `stop` fail, so that `stop_all` of the Clementine nodes gives up at a daemon error only.  `Downs` has a part per step of the tear-down,
which says of the nodes behind `pos`, and of the whole list once the step is past, that they are
`Settled` (down, or kept up by the daemon, or cut short) or follow a sequencer at which the step gave
up; of the containers that they are removed, listed, or came too late for the list.
`TearDownOrder` compares that with who uses whom: a node is stopped in a step after all of its
clients' steps (`ClientsSettled`, `WhoServes`).

`NodeRestartProofs`, for all sets of nodes and tests, every size of the index and any number of
starts:

- `TypeCorrect`, `OwnStorageCorrect`, `PreviousDatadirsKept` (an action property), whatever older
  config a test passes to `start`.
- `StateKept`, `ChildrenUseLocalUrls`, until such a config brings an older storage path back.

No property is inductive, because each depends on the directory a start is about to take.  `DirsInv`
is about that: a start is alone in its test (`AloneInv`), the index is the number of starts until it
wraps (`IndexInv`), a directory that holds anything or that is named by a config, a kept config or
`oldDir` (`Mine`) has an index already given out, and lower than that of a start in progress (`FreshInv`), and no two nodes name a common
one (`OwnInv`).  So the new directory is empty and nobody's (`NewDirFree`), and a copy to it mixes
nothing.  `StateInv` adds that the directory copied first, `oldDir`, holds no other version of the
database than the storage copied over it; `UrlInv` that URLs are local whenever the node is a child,
also those of a kept config that may replace the current one.

`BitcoinNetworkProofs`, for every number of nodes and all subversions:

- `TypeCorrect`, and `FirstConnectCorrect`: `Spec => []FirstConnectLinksAll`.
- `ConnectPairCorrect`: `Spec => ConnectLinksPair`, which is about two nodes.
- `DisconnectPairCorrect`: `Spec => DisconnectCutsAll`, which is about no more than two nodes.
- `SyncCorrect`: `Spec => []SyncedIfOneMiner`.

The invariant of `FirstConnectCorrect`, `LinkInv`, is needed because `connect_nodes` does not know
which peer it sees.  Until the first disconnect or stop (`PartedIfDropping`) the inbound end of a
link opens last (`InboundLast`), and no node but 0 asks for links before 0 is linked to all
(`ZeroFirst`): until then every peer that node 0 lists, or that lists node 0, is of a link of node
0.  `PairsLinked` says how far the loop over the pairs has got.

`PairInv` is about two nodes, where the peer a node sees can only be the other (`OnePeer`): a link
over which there was a pong stays up (`PongedLinked`), so that the pairs the loop has been through
are linked (`PairsPonged`); and when nothing was being opened as `disconnect_nodes` began, nothing is
opened while it runs (`PairsCut`).  Neither needs the history `LinkInv` has, so that both hold after
any disconnects, stops and failures.

`SyncInv`: no node has a block of node 0 above the chain of node 0 (`MinedByZero`), since chains only
grow and node 0 gives up blocks only for longer chains that end in those of another miner; the
heights read so far are still there (`HeightsRead`), as are those of the nodes called synced
(`NoneBehind`).

`HostSetupProofs`, for all sets of tests and ports and every finite set of databases that is not
empty:

- `TypeCorrect`, `CertsCorrect`, `BitcoinCorrect`, `DatabasesCorrect`.

`CertInv`: the lock is held while a script is waited for, so that without failures the certificates
are those the running script has made so far, or all of one script.  `PortInv`: of two tests that
count on one port, each is in `raced`, and a bitcoind that is up is the one listening.  `DbInv`: the
environment leads a loop that has not overlapped with another to its own postgres, where what is
not in `todo` is made.  `LoopHasName` types the loop.

`LogWatcherProofs`, for any number of runs and pieces:

- `TypeCorrect`, `ReportsFresh`, `MissesCorrect`.
- `WatchSteps`: `Spec => Watch!Init /\ [][Watch!Next]_(Watch!vars)`, the safety part of the refinement
  `ImplementsWatch`.

`LogInv` says whose pieces the log holds and that it holds no more of this run than was printed;
`AheadInv` that everything ahead of the watcher is of its run, and that only a truncation puts the
end of the log behind it.  `NotStarted` and `TaskInv` relate the tasks to the process.

For the refinement a truncation must be a stutter of the abstract watcher, which it is because
nothing is ahead of the watcher before the task of the log runs (`NothingBeforeTask`); a longer log
can only put a line there (`GrowAhead`), and only a read that reports takes one away (`ReadAhead`).

`TopologyProofs`, for any number of nodes of each kind and of restarts:

- `TypeCorrect`, `LaunchOrder`, `LocalCitreaReaches`, `WhichTestsWork`, `RestartsKeepPeers`.

`CitreaUrls` and `EntityUrlsAre` say which URLs a generated config can hold.  The invariant keeps
track of what restarts do to them: a URL is as generated or moved to the loopback, all are as
generated in a node that was never started on the host, and all are local in a Citrea process that
runs there (`UrlInv`); a node that is not where its spawn puts it is a Citrea node moved to the host
(`PlaceInv`).  `WhichTestsWork` is an equivalence.  In one direction every name in the config of a
container is the name of one container (`OneOfThatName`); in the other, each condition that fails
comes with a URL that leads nowhere or to two nodes (`CitreaNeeds`, `ClementineNeeds`).

`ClementineProofs`, for any tests, lists of nodes and length of the download:

- `TypeCorrect`, `DownloadsExclusive`, `ClientsWhole`, `LeftInDocker`.

`LockInv` says who holds the lock.  `CurlInv` relates a curl to the node that started it or was
dropped while it ran, `LoadInv` what is in the file to what the curl of the node that holds the lock
has written, as long as no `Stray` curl writes too; `CleanInv` keeps the client whole until a test is
cut off where one is written.  `DockerInv` explains each container and volume of a test in each phase
of its clean-up: one still tracked, one of a refused request, or one of a request that was lost.

Every safety property that a passing run checks is stated by a theorem.  The only hypothesis beyond
the assumptions on constants is a Citrea node, for `OkMeansPassed` and `RunImplementsContract`; run
`vacuous` shows that it is needed.  The sections above say which cases a property itself excepts.

Only model-checked are `PanicEndsRun`, `PanicReported`, `StartEnds`, `CertsEnd` and the liveness part
of `ImplementsWatch`.  They hold under fairness, about which TLAPS can prove nothing.

## What is left

- The parts PROJECT.json lists as partly or not modelled.
- `ClusterWaits` has no theorem: its one property is violated.
- Not modelled: the RPC clients, the CLI, the log providers and the configuration types, which keep
  no state; the wallets and the wait for a transaction in the mempool, which are one request in a
  loop; `dump_logs`, which prints; that `pgrep -f` in `bitcoin.rs:120-127` matches a data directory
  whose name begins with the one it looks for; images and their download.
