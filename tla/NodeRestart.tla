---------------------------- MODULE NodeRestart ----------------------------
(***************************************************************************)
(* Stopping a Citrea node and starting it again (impl Restart for Node in  *)
(* src/src/node.rs), for the nodes of several tests that run in one        *)
(* process.  Every start moves the node to a new directory, named after a  *)
(* process-wide AtomicU8, and copies its storage there; it may also move   *)
(* the node from a container to a local process, which changes the URLs it *)
(* has to use.                                                             *)
(*                                                                         *)
(* A storage directory is abstracted to the set of versions of the         *)
(* database its files come from: {} does not exist or holds nothing        *)
(* usable, {v} is a database as it was written, and two versions are a     *)
(* mixture no node can open.                                               *)
(***************************************************************************)
EXTENDS Naturals, FiniteSets

CONSTANTS
  Node,            \* the nodes that are restarted
  Test,            \* the tests, each on a thread of its own
  TestOf,          \* the test of each node; its nodes share one parent directory
  IndexSize,       \* number of values of INDEX: 256
  DockerCitrea,    \* the test has a docker environment with citrea() = true
  MaxStarts,       \* bound: calls of start
  MaxVersion       \* bound: versions of a database

ASSUME RestartAssumption ==
  /\ TestOf \in [Node -> Test]
  /\ IndexSize \in Nat \ {0} /\ MaxStarts \in Nat /\ MaxVersion \in Nat
  /\ DockerCitrea \in BOOLEAN

Index == 0 .. IndexSize - 1

(* The directories: the two generate_test_config made, for the node's      *)
(* config files (Home) and for its storage (Database), and those of the    *)
(* restarts, {kind}-{INDEX}, which hold both.                              *)
Home(n) == [home |-> n]
Database(n) == [database |-> n]
Restarted(t, k) == [test |-> t, index |-> k]
Path == {Home(n) : n \in Node} \cup {Database(n) : n \in Node}
          \cup {Restarted(t, k) : t \in Test, k \in Index}

Version == 1 .. MaxVersion + 1

(* The part of FullL2NodeConfig a restart reads or writes: rollup.storage  *)
(* .path, base.dir, the host in the URLs of the DA node and the sequencer, *)
(* and restart_policy.                                                     *)
Config == [store : Path, dir : Path, host : {"network", "local"},
           policy : {"Docker", "Spawn"}]

VARIABLES
  INDEX,      \* the static AtomicU8
  starts,     \* calls of start so far
  stale,      \* one of them was given a config with a storage the node had left
  phase,      \* where each node is in its life
  place,      \* the variant of spawn_output
  config,     \* each node's config
  oldDir,     \* old_dir in the last call of start
  saved,      \* a config of the node that the test has kept, its first at the start
  disk,       \* what each storage directory holds
  version     \* the version each node wrote last

vars == <<INDEX, starts, stale, phase, place, config, oldDir, saved, disk, version>>

Phases == {"up", "down", "added", "spawning"}

TypeOK ==
  /\ INDEX \in Index
  /\ starts \in Nat
  /\ stale \in BOOLEAN
  /\ phase \in [Node -> Phases]
  /\ place \in [Node -> {"container", "child"}]
  /\ config \in [Node -> Config]
  /\ oldDir \in [Node -> Path]
  /\ saved \in [Node -> Config]
  /\ disk \in [Path -> SUBSET Version]
  /\ version \in [Node -> Version]

Generated(n) ==
  [store |-> Database(n), dir |-> Home(n),
   host |-> IF DockerCitrea THEN "network" ELSE "local", policy |-> "Docker"]

Init ==
  /\ INDEX = 0
  /\ starts = 0
  /\ stale = FALSE
  /\ phase = [n \in Node |-> "up"]
  /\ place = [n \in Node |-> IF DockerCitrea THEN "container" ELSE "child"]
  /\ config = [n \in Node |-> Generated(n)]
  /\ oldDir = [n \in Node |-> Home(n)]
  /\ saved = config
  /\ version = [n \in Node |-> 1]
  /\ disk = [p \in Path |-> IF \E n \in Node : p = Database(n) THEN {1} ELSE {}]

-----------------------------------------------------------------------------

(* A running node that can open its database writes to it.                 *)
Write(n) ==
  /\ phase[n] = "up"
  /\ version[n] <= MaxVersion
  /\ disk[config[n].store] = {version[n]}
  /\ version' = [version EXCEPT ![n] = @ + 1]
  /\ disk' = [disk EXCEPT ![config[n].store] = {version[n] + 1}]
  /\ UNCHANGED <<INDEX, starts, stale, phase, place, config, oldDir, saved>>

(* Node::wait_until_stopped, successful.                                   *)
WaitUntilStopped(n) ==
  /\ phase[n] = "up"
  /\ phase' = [phase EXCEPT ![n] = "down"]
  /\ UNCHANGED <<INDEX, starts, stale, place, config, oldDir, saved, disk, version>>

(* The test keeps a copy of the config, or sets the restart policy, which  *)
(* it may as well do when the node is down: only a start reads either.     *)
SaveConfig(n) ==
  /\ phase[n] = "down"
  /\ saved' = [saved EXCEPT ![n] = config[n]]
  /\ UNCHANGED <<INDEX, starts, stale, phase, place, config, oldDir, disk, version>>

SetPolicy(n) ==
  /\ phase[n] = "down"
  /\ \E p \in {"Docker", "Spawn"} :
       config' = [config EXCEPT ![n].policy = p]
  /\ UNCHANGED <<INDEX, starts, stale, phase, place, oldDir, saved, disk, version>>

(* Node::start up to INDEX.fetch_add.  From here to the copy there is no   *)
(* await: another node of the same test cannot run in between, but other   *)
(* tests can.  old_dir is the directory of the config being replaced; the  *)
(* new one brings its own, until set_dir.                                  *)
Begin(n, nextIndex) ==
  /\ phase[n] = "down"
  /\ \A m \in Node : phase[m] = "added" => TestOf[m] # TestOf[n]
  /\ starts < MaxStarts
  /\ starts' = starts + 1
  /\ \/ UNCHANGED <<config, stale>>
     \/ /\ config' = [config EXCEPT ![n] = saved[n]]
        /\ stale' = (stale \/ saved[n].store # config[n].store)
  /\ oldDir' = [oldDir EXCEPT ![n] = config[n].dir]
  /\ INDEX' = nextIndex
  /\ phase' = [phase EXCEPT ![n] = "added"]
  /\ UNCHANGED <<place, saved, disk, version>>

(* Mutants: every start uses one index; the counter does not wrap.         *)
FetchAddForgotten(n) == Begin(n, INDEX)
FetchAddUnbounded(n) == Begin(n, INDEX + 1)

FetchAdd(n) == Begin(n, (INDEX + 1) % IndexSize)

(* copy_directory: files of the same name are overwritten, others stay; a  *)
(* directory copied onto itself is truncated.                              *)
Overlay(d, from, to) ==
  [d EXCEPT ![to] = IF from = to THEN {} ELSE @ \cup d[from]]

RestartInDocker(n) == config[n].policy = "Docker" /\ DockerCitrea

(* What a failure of the `?` after a copy leaves: that copy may be partial *)
(* (what it copied is of the versions there are), the config is the new one*)
(* and has the new directory if the first copy was complete, its storage is*)
(* not the copy, and spawn_output is still the old one.                    *)
NewDir(n) == Restarted(TestOf[n], INDEX)

(* copy_directory(&old_dir, &new_dir).                                     *)
DirCopied(n) == Overlay(disk, oldDir[n], NewDir(n))

(* Then copy_directory(&old_storage, &new_storage), if there is a storage. *)
StorageCopied(n) == Overlay(DirCopied(n), config[n].store, NewDir(n))

CopyDirectoryFails(n) ==
  /\ phase[n] = "added"
  /\ disk' \in {disk, DirCopied(n)}
  /\ phase' = [phase EXCEPT ![n] = "down"]
  /\ UNCHANGED <<INDEX, starts, stale, place, config, oldDir, saved, version>>

CopyStorageFails(n) ==
  /\ phase[n] = "added"
  /\ DirCopied(n)[config[n].store] # {}
  /\ disk' \in {DirCopied(n), StorageCopied(n)}
  /\ config' = [config EXCEPT ![n].dir = NewDir(n)]
  /\ phase' = [phase EXCEPT ![n] = "down"]
  /\ UNCHANGED <<INDEX, starts, stale, place, oldDir, saved, version>>

(* INDEX.load, both copies, the update of the config, in which the URLs    *)
(* get host h.                                                             *)
Copy(n, h) ==
  LET stored == DirCopied(n)[config[n].store] # {} IN
  /\ phase[n] = "added"
  /\ disk' = IF stored THEN StorageCopied(n) ELSE DirCopied(n)
  /\ config' = [config EXCEPT ![n] =
       [config[n] EXCEPT !.dir = NewDir(n), !.host = h,
                         !.store = IF stored THEN NewDir(n) ELSE config[n].store]]
  /\ phase' = [phase EXCEPT ![n] = "spawning"]
  /\ UNCHANGED <<INDEX, starts, stale, place, oldDir, saved, version>>

(* Mutant: the URLs of the docker network are kept.                        *)
CopyWithoutNormalize(n) == Copy(n, config[n].host)

(* normalize_network_for_local_process when a container becomes a child.   *)
CopyAndConfigure(n) ==
  Copy(n, IF place[n] = "container" /\ ~RestartInDocker(n)
          THEN "local" ELSE config[n].host)

(* The spawn: a container, or a child of the test process.                 *)
Spawn(n) ==
  /\ phase[n] = "spawning"
  /\ place' = [place EXCEPT ![n] = IF RestartInDocker(n) THEN "container" ELSE "child"]
  /\ phase' = [phase EXCEPT ![n] = "up"]
  /\ UNCHANGED <<INDEX, starts, stale, config, oldDir, saved, disk, version>>

SpawnFails(n) ==
  /\ phase[n] = "spawning"
  /\ phase' = [phase EXCEPT ![n] = "down"]
  /\ UNCHANGED <<INDEX, starts, stale, place, config, oldDir, saved, disk, version>>

Next ==
  \E n \in Node :
    \/ Write(n) \/ WaitUntilStopped(n) \/ SaveConfig(n) \/ SetPolicy(n)
    \/ FetchAdd(n) \/ CopyDirectoryFails(n) \/ CopyStorageFails(n)
    \/ CopyAndConfigure(n) \/ Spawn(n) \/ SpawnFails(n)

Spec == Init /\ [][Next]_vars

-----------------------------------------------------------------------------
(* Properties                                                              *)

(* An AtomicU8 tells the first 256 starts of a process apart.              *)
EveryIndexIsNew == starts <= IndexSize

(* A config that a test kept from before an earlier start brings the older *)
(* storage back, and the URLs of that time.                                *)
EveryConfigIsCurrent == EveryIndexIsNew /\ ~stale

(* The storage a node is configured with holds exactly what the node wrote *)
(* last, across any number of starts that succeed or fail half way, as     *)
(* long as no test has passed a config with an older storage path.         *)
KeepsState ==
  EveryConfigIsCurrent =>
    \A n \in Node : disk[config[n].store] = {version[n]}

(* A step changes the storage directory of a running node, by its own      *)
(* write, or one that was empty.                                           *)
DatadirsKept ==
  \A p \in Path : disk'[p] # disk[p] =>
    \/ disk[p] = {}
    \/ \E n \in Node : phase[n] = "up" /\ config[n].store = p

(* "not to overwrite the previous datadir": no start, whatever config it is*)
(* given and wherever it fails, writes to a directory that holds a database*)
(* while indices are new.                                                  *)
KeepsPreviousDatadirs == [][EveryIndexIsNew => DatadirsKept]_vars

(* No two nodes use one storage directory.                                 *)
OwnStorage ==
  EveryIndexIsNew =>
    \A m, n \in Node : m # n => config[m].store # config[n].store

(* A spawned binary is never configured with a name that only the docker   *)
(* network can resolve, with the same exceptions: once an index is used    *)
(* again, a config the test kept can have the storage path of the current  *)
(* one and the URLs of an earlier.                                         *)
ChildUsesLocalUrls ==
  EveryConfigIsCurrent =>
    \A n \in Node :
      phase[n] = "up" /\ place[n] = "child" => config[n].host = "local"
=============================================================================
