----------------------------- MODULE Clementine -----------------------------
(***************************************************************************)
(* Starting the Clementine nodes of several tests in docker:               *)
(* ClementineCluster::new, spawn_clementine_node and                       *)
(* ensure_docker_client_if_needed (src/src/clementine/nodes.rs) with       *)
(* DockerEnv::spawn, create_volume and cleanup (src/src/docker.rs).        *)
(*                                                                         *)
(* The futures of the nodes of one test are polled by one thread.  The     *)
(* loop that waits for the lock of the docker client sleeps on that        *)
(* thread, so while one node is in it no other node of the test can take a *)
(* step.  Tests run on threads, and in processes, of their own.            *)
(*                                                                         *)
(* A file is the set of the parts of the download it holds.                *)
(***************************************************************************)
EXTENDS Naturals, FiniteSets, Sequences

CONSTANTS
  Test,         \* the tests that start Clementine
  Node,         \* all their nodes
  Batches,      \* for each test the lists that are joined, one after the other:
                \* verifiers, operators, the aggregator
  Role,         \* the role of each node
  Parts,        \* number of parts of the download
  None

ASSUME ClementineAssumption ==
  /\ Batches \in [Test -> Seq(SUBSET Node) \ {<<>>}]
  /\ \A n \in Node : \E t \in Test : \E k \in DOMAIN Batches[t] :
       /\ n \in Batches[t][k]
       /\ \A u \in Test : \A j \in DOMAIN Batches[u] :
            n \in Batches[u][j] => u = t /\ j = k
  /\ DOMAIN Role = Node
  /\ Parts \in Nat \ {0}
  /\ None \notin Node

Members == [t \in Test |-> UNION {Batches[t][k] : k \in DOMAIN Batches[t]}]
TestOf == [n \in Node |-> CHOOSE t \in Test : n \in Members[t]]

(* create_volume: the name is the role, and the id of the test.            *)
Volume(n) == <<TestOf[n], Role[n]>>

Whole == 1 .. Parts

NoCurl == [state |-> "none", wrote |-> 0]

VARIABLES
  phase,      \* each test's
  batch,      \* the index of the list being joined
  pc,         \* where the future of each node is
  tracked,    \* DockerEnv.volumes
  refused,    \* a request of the test's cleanup failed
  client,     \* the docker client mounted into each container
  lock,       \* .docker.lock: the node whose future holds it
  url,        \* CLEMENTINE_DOCKER_BINARY_URL: a tar archive, the default, or the binary
  binary,     \* docker-linux-amd64
  partial,    \* docker-linux-amd64.tgz.partial or .partial
  curl,       \* the curl process of each node: its state and the parts it wrote
  volumes, containers,   \* of the docker daemon
  late,       \* requests and tars that go on although nobody waits for them
  cut         \* all that were dropped without an answer

testVars == <<phase, batch, tracked, refused>>
fileVars == <<lock, binary, partial, curl>>
daemonVars == <<volumes, containers, late>>
vars == <<testVars, pc, client, fileVars, daemonVars, cut, url>>

Request == {"volume", "container", "tar", "curl"} \X Node

(* The content of a file, if there is one.                                 *)
IsFile(f) == f = None \/ f \subseteq Whole

TypeOK ==
  /\ phase \in [Test -> {"starting", "running", "cleanup", "volumes", "ended"}]
  /\ batch \in [Test -> Nat] /\ \A t \in Test : batch[t] \in DOMAIN Batches[t]
  /\ pc \in [Node -> {"new", "lock", "curl", "tar", "volume", "volume_req",
                      "create_req", "ready", "done", "dropped"}]
  /\ tracked \in [Test -> SUBSET {Volume(n) : n \in Node}]
  /\ refused \in [Test -> BOOLEAN]
  /\ DOMAIN client = Node /\ \A n \in Node : IsFile(client[n])
  /\ lock \in Node \cup {None}
  /\ url \in {"archive", "binary"}
  /\ IsFile(binary) /\ IsFile(partial)
  /\ curl \in [Node -> [state : {"none", "started", "open", "moved", "ok", "failed"},
                        wrote : 0 .. Parts]]
  /\ volumes \subseteq {Volume(n) : n \in Node}
  /\ containers \subseteq Node
  /\ late \subseteq cut /\ cut \subseteq Request

Init ==
  /\ phase = [t \in Test |-> "starting"]
  /\ batch = [t \in Test |-> 1]
  /\ pc = [n \in Node |-> "new"]
  /\ tracked = [t \in Test |-> {}]
  /\ refused = [t \in Test |-> FALSE]
  /\ client = [n \in Node |-> None]
  /\ url \in {"archive", "binary"}
  /\ lock = None /\ binary = None /\ partial = None
  /\ curl = [n \in Node |-> NoCurl]
  /\ volumes = {} /\ containers = {} /\ late = {} /\ cut = {}

Current(t) == Batches[t][batch[t]]

(* The thread of the test is in the loop that waits for the lock.          *)
Sleeping(t) == \E n \in Current(t) : pc[n] = "lock"

(* The future of n is polled.                                              *)
Polled(n, at) ==
  /\ pc[n] = at
  /\ phase[TestOf[n]] = "starting" /\ n \in Current(TestOf[n])
  /\ at # "lock" => ~Sleeping(TestOf[n])

Goto(n, to) == pc' = [pc EXCEPT ![n] = to]

-----------------------------------------------------------------------------
(* ensure_docker_client_if_needed.  Its result is ignored: every way out   *)
(* leads to create_volume.                                                 *)

CheckClient(n) ==
  /\ Polled(n, "new")
  /\ Goto(n, IF binary # None THEN "volume" ELSE "lock")
  /\ UNCHANGED <<testVars, client, fileVars, daemonVars, cut, url>>

(* With the lock it looks again, and starts curl if it has to.             *)
Locked(n) ==
  /\ Polled(n, "lock")
  /\ IF binary # None
     THEN Goto(n, "volume") /\ UNCHANGED <<lock, curl>>
     ELSE /\ Goto(n, "curl")
          /\ lock' = n
          /\ curl' = [curl EXCEPT ![n].state = "started"]
  /\ UNCHANGED <<testVars, client, binary, partial, daemonVars, cut, url>>

(* Mutant: whether try_lock_exclusive succeeds is not looked at.           *)
TakeLock(n) == Locked(n)

TryLock(n) == lock = None /\ Locked(n)

(* Mutant: no timeout.                                                     *)
WaitForever(n) == FALSE /\ UNCHANGED vars

(* "Failed to acquire docker client lock within timeout": the future goes  *)
(* on, and with it the others of the test.                                 *)
LockTimesOut(n) ==
  /\ Polled(n, "lock") /\ lock # None
  /\ Goto(n, "volume")
  /\ UNCHANGED <<testVars, client, fileVars, daemonVars, cut, url>>

Unlock == lock' = None

CurlReturns(n) ==
  /\ Polled(n, "curl") /\ curl[n].state \in {"ok", "failed"}
  /\ curl[n].state = "ok" => url = "archive"
  /\ IF curl[n].state = "ok"
     THEN Goto(n, "tar") /\ UNCHANGED lock
     ELSE Goto(n, "volume") /\ Unlock
  /\ curl' = [curl EXCEPT ![n] = NoCurl]
  /\ UNCHANGED <<testVars, client, binary, partial, daemonVars, cut, url>>

(* A single binary is renamed into place, whatever it holds: a curl that   *)
(* has it open goes on writing to it there.                                *)
BinaryReturns(n) ==
  /\ Polled(n, "curl") /\ curl[n].state = "ok" /\ url = "binary"
  /\ binary' = partial /\ partial' = None
  /\ curl' = [m \in Node |-> IF m = n THEN NoCurl
                            ELSE IF curl[m].state = "open"
                            THEN [curl[m] EXCEPT !.state = "moved"] ELSE curl[m]]
  /\ Unlock
  /\ Goto(n, "volume")
  /\ UNCHANGED <<testVars, client, daemonVars, cut, url>>

(* Mutant: the status of tar is not looked at.                             *)
TarUnchecked == TRUE

(* tar succeeds on a whole archive only.                                   *)
TarSucceeds == partial = Whole

(* What is found in .docker-extract: a tar that was left running may be    *)
(* writing the same file again.                                            *)
Extracted ==
  {partial} \cup IF late \cap ({"tar"} \X Node) # {} THEN SUBSET Whole ELSE {}

(* tar may fail for other reasons.  If not, the binary is renamed into     *)
(* place and the archive is removed: a curl that has it open writes to no  *)
(* file any more.                                                          *)
TarReturns(n) ==
  /\ Polled(n, "tar")
  /\ \/ /\ TarSucceeds
        /\ \E file \in Extracted : binary' = file
        /\ partial' = None
        /\ curl' = [m \in Node |-> IF curl[m].state = "open"
                                   THEN NoCurl ELSE curl[m]]
     \/ UNCHANGED <<binary, partial, curl>>
  /\ Unlock
  /\ Goto(n, "volume")
  /\ UNCHANGED <<testVars, client, daemonVars, cut, url>>

-----------------------------------------------------------------------------
(* DockerEnv::spawn, and the waits of Clementine*::new                     *)

(* The mounts are collected right after create_volume, before the next     *)
(* await.                                                                  *)
Mounts(n) == client' = [client EXCEPT ![n] = binary]

CreateVolume(n) ==
  /\ Polled(n, "volume")
  /\ IF Volume(n) \in tracked[TestOf[n]]
     THEN Goto(n, "create_req") /\ Mounts(n)
     ELSE Goto(n, "volume_req") /\ UNCHANGED client
  /\ UNCHANGED <<testVars, fileVars, daemonVars, cut, url>>

VolumeExists(n, track) ==
  /\ Polled(n, "volume_req")
  /\ volumes' = volumes \cup {Volume(n)}
  /\ tracked' = IF track THEN [tracked EXCEPT ![TestOf[n]] = @ \cup {Volume(n)}]
                         ELSE tracked
  /\ Goto(n, "create_req") /\ Mounts(n)
  /\ UNCHANGED <<phase, batch, refused, fileVars, containers, late, cut, url>>

(* Mutant: the new volume is not inserted.                                 *)
VolumeCreatedOnly(n) == VolumeExists(n, FALSE)

VolumeCreated(n) == VolumeExists(n, TRUE)

(* ensure_image_exists and the request for the container; the first can    *)
(* only fail, or leave an image.                                           *)
ContainerCreated(n) ==
  /\ Polled(n, "create_req")
  /\ containers' = containers \cup {n}
  /\ Goto(n, "ready")
  /\ UNCHANGED <<testVars, client, fileVars, volumes, late, cut, url>>

(* The container is started and inspected, its port accepts connections    *)
(* and its gRPC client is connected.                                       *)
Ready(n) ==
  /\ Polled(n, "ready")
  /\ Goto(n, "done")
  /\ UNCHANGED <<testVars, client, fileVars, daemonVars, cut, url>>

-----------------------------------------------------------------------------
(* ClementineCluster::new and the end of the test                          *)

(* Mutant: one list too many.                                              *)
PastLastBatch(t) == batch[t] > Len(Batches[t])

LastBatch(t) == batch[t] = Len(Batches[t])

BatchJoined(t) ==
  /\ phase[t] = "starting"
  /\ \A n \in Current(t) : pc[n] = "done"
  /\ IF LastBatch(t)
     THEN phase' = [phase EXCEPT ![t] = "running"] /\ UNCHANGED batch
     ELSE batch' = [batch EXCEPT ![t] = @ + 1] /\ UNCHANGED phase
  /\ UNCHANGED <<tracked, refused, pc, client, fileVars, daemonVars, cut, url>>

(* A node fails, which drops the futures of the others, or run drops them  *)
(* all.  The lock goes with the file; curl and tar go on; the daemon may   *)
(* have got a request that was under way.                                  *)
StartAborts(t) ==
  LET Open == {n \in Current(t) : pc[n] = "volume_req"}
      Asked == {n \in Current(t) : pc[n] = "create_req"}
      Untarring == {n \in Current(t) : pc[n] = "tar"}
      Loading == {n \in Current(t) : pc[n] = "curl"}
      lost == ({"volume"} \X Open) \cup ({"container"} \X Asked)
                \cup ({"tar"} \X Untarring)
  IN
  /\ phase[t] = "starting" /\ ~Sleeping(t)
  /\ phase' = [phase EXCEPT ![t] = "cleanup"]
  /\ pc' = [n \in Node |-> IF n \in Current(t) THEN "dropped" ELSE pc[n]]
  /\ lock' = IF lock \in Current(t) THEN None ELSE lock
  /\ late' = late \cup lost /\ cut' = cut \cup lost \cup ({"curl"} \X Loading)
  /\ UNCHANGED <<batch, tracked, refused, client, url, binary, partial, curl, volumes, containers>>

TestEnds(t) ==
  /\ phase[t] = "running"
  /\ phase' = [phase EXCEPT ![t] = "cleanup"]
  /\ UNCHANGED <<batch, tracked, refused, pc, client, fileVars, daemonVars, cut, url>>

(* DockerEnv::cleanup: the containers on the network of the test, the      *)
(* network, the tracked volumes; the first error ends it.                  *)
RemoveContainers(t) ==
  /\ phase[t] = "cleanup"
  /\ containers' = containers \ Members[t]
  /\ client' = [n \in Node |-> IF n \in Members[t] THEN None ELSE client[n]]
  /\ phase' = [phase EXCEPT ![t] = "volumes"]
  /\ UNCHANGED <<batch, tracked, refused, pc, fileVars, volumes, late, cut, url>>

(* The end of the test, with the DockerEnv.                                *)
Ended(t) ==
  /\ phase' = [phase EXCEPT ![t] = "ended"]
  /\ tracked' = [tracked EXCEPT ![t] = {}]

(* A volume that a container uses cannot be removed.                       *)
Used == {Volume(n) : n \in containers}

RemoveVolumes(t) ==
  /\ phase[t] = "volumes"
  /\ tracked[t] \cap Used = {}
  /\ volumes' = volumes \ tracked[t]
  /\ Ended(t)
  /\ UNCHANGED <<batch, refused, pc, client, fileVars, containers, late, cut, url>>

CleanupFails(t) ==
  /\ \/ /\ phase[t] = "cleanup"
        /\ \E S \in SUBSET (containers \cap Members[t]) : containers' = containers \ S
        /\ UNCHANGED volumes
     \/ /\ phase[t] = "volumes"
        /\ \E S \in SUBSET (tracked[t] \ Used) : volumes' = volumes \ S
        /\ UNCHANGED containers
  /\ Ended(t)
  /\ refused' = [refused EXCEPT ![t] = TRUE]
  /\ UNCHANGED <<batch, pc, client, fileVars, late, cut, url>>

-----------------------------------------------------------------------------
(* Curl and the docker daemon                                              *)

(* curl creates, or truncates, its output when the first bytes arrive.     *)
CurlOpens(n) ==
  /\ curl[n].state = "started"
  /\ curl' = [curl EXCEPT ![n].state = "open"]
  /\ partial' = {}
  /\ UNCHANGED <<testVars, pc, client, lock, binary, daemonVars, cut, url>>

CurlWrites(n) ==
  /\ curl[n].state \in {"open", "moved"}
  /\ LET part == curl[n].wrote + 1 IN
       /\ IF curl[n].state = "open"
          THEN partial' = partial \cup {part} /\ UNCHANGED binary
          ELSE binary' = binary \cup {part} /\ UNCHANGED partial
       /\ curl' = [curl EXCEPT ![n].wrote = part,
                               ![n].state = IF part = Parts THEN "ok" ELSE @]
  /\ UNCHANGED <<testVars, pc, client, lock, daemonVars, cut, url>>

CurlFails(n) ==
  /\ curl[n].state \in {"started", "open", "moved"}
  /\ curl' = [curl EXCEPT ![n].state = "failed"]
  /\ UNCHANGED <<testVars, pc, client, lock, binary, partial, daemonVars, cut, url>>

(* A request nobody waits for is carried out, or dropped.  A container is  *)
(* created together with the volume it mounts.  A tar ends.                *)
LateRequest(request) ==
  /\ request \in late
  /\ late' = late \ {request}
  /\ \/ UNCHANGED <<volumes, containers>>
     \/ /\ request[1] # "tar"
        /\ volumes' = volumes \cup {Volume(request[2])}
        /\ containers' = IF request[1] = "container" THEN containers \cup {request[2]}
                                                     ELSE containers
  /\ UNCHANGED <<testVars, pc, client, fileVars, cut, url>>

-----------------------------------------------------------------------------

NodeStep(n) ==
  \/ CheckClient(n) \/ TryLock(n) \/ LockTimesOut(n) \/ CurlReturns(n)
  \/ BinaryReturns(n) \/ TarReturns(n)
  \/ CreateVolume(n) \/ VolumeCreated(n) \/ ContainerCreated(n) \/ Ready(n)

CurlStep(n) == CurlOpens(n) \/ CurlWrites(n) \/ CurlFails(n)

TestStep(t) ==
  \/ BatchJoined(t) \/ StartAborts(t) \/ TestEnds(t)
  \/ RemoveContainers(t) \/ RemoveVolumes(t) \/ CleanupFails(t)

Next ==
  \/ \E n \in Node : NodeStep(n) \/ CurlStep(n)
  \/ \E t \in Test : TestStep(t)
  \/ \E request \in Request : LateRequest(request)

Spec == Init /\ [][Next]_vars

(* The thread of a test goes on, be it with one future or another: the     *)
(* daemon answers and the time of a wait runs out.  So do the curls.       *)
Thread(t) == (\E n \in Members[t] : NodeStep(n)) \/ BatchJoined(t)

Fairness ==
  /\ \A t \in Test : WF_vars(Thread(t))
  /\ WF_vars(\E n \in Node : CurlStep(n))

FairSpec == Spec /\ Fairness

-----------------------------------------------------------------------------
(* Properties                                                              *)

(* A container that is given a docker client is given a whole one, even if *)
(* tests were cut off in the middle of downloading it.  The exceptions: an *)
(* archive was being unpacked where a test was cut off, or a single binary *)
(* was being downloaded there, which nobody looks at before it is used.    *)
WholeClient ==
  \A n \in Node :
    \/ client[n] \in {None, Whole}
    \/ \E m \in Node : <<IF url = "archive" THEN "tar" ELSE "curl", m>> \in cut

(* "Under an exclusive file lock so concurrent test runs do not race": the *)
(* archive a node has downloaded is whole, unless the curl of a node that  *)
(* was dropped has run on without the lock.                                *)
DownloadsDoNotRace ==
  \A n \in Node : pc[n] = "tar" =>
    \/ partial = Whole
    \/ \E m \in Node : pc[m] = "dropped" /\ curl[m].state # "none"

(* When a test has cleaned up without an error, nothing of it exists in    *)
(* docker but what came from requests that were dropped without an answer, *)
(* although two nodes of one role may create their common volume at once.  *)
LeavesOnlyWhatWasCut ==
  \A t \in Test : phase[t] = "ended" /\ ~refused[t] =>
    LET lost == {r[2] : r \in {c \in cut : c[1] \in {"volume", "container"}}} IN
    /\ containers \cap Members[t] \subseteq lost
    /\ \A v \in volumes : v[1] = t => v \in {Volume(n) : n \in lost}

(* "With timeout to avoid deadlocks": the start of a cluster ends, even    *)
(* when a node waits for the lock on the thread of the node that holds it. *)
StartEnds == \A t \in Test : phase[t] = "starting" ~> phase[t] # "starting"
=============================================================================
