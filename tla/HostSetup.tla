----------------------------- MODULE HostSetup ------------------------------
(***************************************************************************)
(* What tests that start on one host share, and the steps of a Clementine  *)
(* test that use it, up to the start of its Clementine nodes:              *)
(*   - the TLS certificates in resources/clementine, which the first test  *)
(*     generates under a file lock (src/src/clementine/nodes.rs) with a    *)
(*     script (src/resources/clementine/generate-certs.sh) and every test  *)
(*     copies into its directory;                                          *)
(*   - the ports of the host, which get_available_port (src/src/utils.rs)  *)
(*     finds free and releases again; here that of a local bitcoind;       *)
(*   - the environment of the process, through which                       *)
(*     setup_clementine_databases tells dropdb and createdb where the      *)
(*     postgres container of the test is.                                  *)
(*                                                                         *)
(* pc[t] is the await, or the synchronous part, that test t is at:         *)
(*   lock -> script -> config -> ports -> spawn -> ready -> postgres       *)
(*        -> env -> drop <-> create -> run -> ended                        *)
(* The clauses of the script are key (ca.key), pem (ca.pem, made of it)    *)
(* and leaf (the server, client and aggregator certificates, signed with   *)
(* both), each with the test whose script made it.                         *)
(***************************************************************************)
EXTENDS Naturals, Sequences, FiniteSets, SequencesExt

CONSTANTS
  Test,        \* the tests
  Port,        \* the ports of the host
  DbName,      \* names of the databases: clementine-0, clementine-1, ...
  None

ASSUME HostAssumption ==
  /\ Test # {} /\ None \notin Test \cup Port
  /\ DbName # {} /\ IsFiniteSet(DbName)

VARIABLES
  process,     \* which process a test runs in, named by one of its tests
  pc,
  lock,        \* the test whose open file holds .certs.lock
  script,      \* the next clause of each test's script
  certs,       \* the certificates in resources/clementine/certs
  copy,        \* those each test has copied
  spoiled,     \* a script has failed, or its test was cut off
  port,        \* the RPC port in the config of each test's bitcoind
  node,        \* that bitcoind
  listener,    \* the test whose bitcoind has bound a port
  raced,       \* tests given a port that another had not bound yet, and the other
  env,         \* PGHOST and PGPORT of each process: a test's postgres
  todo,        \* the databases each test has still to set up
  db,          \* who has created each database of each postgres
  overlapped   \* tests that set up databases while one of their process did

certVars == <<lock, script, certs, copy, spoiled>>
portVars == <<port, node, listener, raced>>
dbVars == <<env, todo, db, overlapped>>
vars == <<process, pc, certVars, portVars, dbVars>>

Clauses == {"key", "pem", "leaf"}
Certs == [Clauses -> Test \cup {None}]
NoCerts == [c \in Clauses |-> None]
NoDbs == [d \in DbName |-> None]

TypeOK ==
  /\ process \in [Test -> Test]
  /\ pc \in [Test -> {"lock", "script", "config", "ports", "spawn", "ready",
                      "postgres", "env", "drop", "create", "run", "ended"}]
  /\ lock \in Test \cup {None}
  /\ script \in [Test -> Clauses \cup {"none", "done", "failed"}]
  /\ certs \in Certs /\ copy \in [Test -> Certs] /\ spoiled \in BOOLEAN
  /\ port \in [Test -> Port \cup {None}]
  /\ node \in [Test -> {"none", "starting", "up", "down"}]
  /\ listener \in [Port -> Test \cup {None}]
  /\ raced \subseteq Test /\ overlapped \subseteq Test
  /\ env \in [Test -> Test \cup {None}]
  /\ todo \in [Test -> Seq(DbName)]
  /\ db \in [Test -> [DbName -> Test \cup {None}]]

(* `cargo nextest` runs every test in a process of its own, `cargo test`   *)
(* the tests of a file in one.                                             *)
Init ==
  /\ \/ process = [t \in Test |-> t]
     \/ \E p \in Test : process = [t \in Test |-> p]
  /\ pc = [t \in Test |-> "lock"]
  /\ lock = None /\ script = [t \in Test |-> "none"]
  /\ certs = NoCerts /\ copy = [t \in Test |-> NoCerts] /\ spoiled = FALSE
  /\ port = [t \in Test |-> None] /\ node = [t \in Test |-> "none"]
  /\ listener = [p \in Port |-> None] /\ raced = {}
  /\ env = [t \in Test |-> None] /\ todo = [t \in Test |-> <<>>]
  /\ db = [t \in Test |-> NoDbs] /\ overlapped = {}

GoTo(t, label) == pc' = [pc EXCEPT ![t] = label] /\ UNCHANGED process

-----------------------------------------------------------------------------
(* generate_certs_if_needed                                                *)

Decide(t) ==
  IF certs["pem"] # None
  THEN GoTo(t, "config") /\ UNCHANGED <<lock, script>>
  ELSE /\ GoTo(t, "script")
       /\ lock' = t /\ script' = [script EXCEPT ![t] = "key"]

(* Mutant: no lock is taken.                                               *)
DecideUnlocked(t) ==
  /\ pc[t] = "lock"
  /\ Decide(t)
  /\ UNCHANGED <<certs, copy, spoiled, portVars, dbVars>>

(* lock_exclusive blocks the thread; under the lock the script is started  *)
(* if there is no ca.pem, and the lock released at once if there is one.   *)
TakeLock(t) ==
  /\ pc[t] = "lock" /\ lock = None
  /\ Decide(t)
  /\ UNCHANGED <<certs, copy, spoiled, portVars, dbVars>>

(* The clauses of the script, which ends at its first failing command:     *)
(* openssl signs nothing with a key to which ca.pem does not belong.       *)
RunClause(t) ==
  /\ script[t] \in Clauses
  /\ LET matches == script[t] = "leaf" => certs["pem"] = certs["key"]
         made == IF script[t] = "key" THEN t ELSE certs["key"]
         next == [key |-> "pem", pem |-> "leaf", leaf |-> "done"]
     IN IF matches
        THEN /\ certs' = [certs EXCEPT ![script[t]] = made]
             /\ script' = [script EXCEPT ![t] = next[@]]
        ELSE /\ script' = [script EXCEPT ![t] = "failed"]
             /\ UNCHANGED certs
  /\ UNCHANGED <<process, pc, lock, copy, spoiled, portVars, dbVars>>

(* A command fails, or the script is killed with its test.                 *)
ScriptFails(t) ==
  /\ script[t] \in Clauses
  /\ script' = [script EXCEPT ![t] = "failed"]
  /\ spoiled' = TRUE
  /\ UNCHANGED <<process, pc, lock, certs, copy, portVars, dbVars>>

(* Mutant: the lock is released after a success only.                      *)
KeepLockOnError(t) ==
  /\ pc[t] = "script" /\ script[t] \in {"done", "failed"}
  /\ lock' = IF script[t] = "done" THEN None ELSE lock
  /\ GoTo(t, IF script[t] = "done" THEN "config" ELSE "ended")
  /\ UNCHANGED <<script, certs, copy, spoiled, portVars, dbVars>>

(* "Ensure we always release the lock"; an error ends the test.            *)
ScriptReturns(t) ==
  /\ pc[t] = "script" /\ script[t] \in {"done", "failed"}
  /\ lock' = None
  /\ GoTo(t, IF script[t] = "done" THEN "config" ELSE "ended")
  /\ UNCHANGED <<script, certs, copy, spoiled, portVars, dbVars>>

-----------------------------------------------------------------------------
(* generate_test_config                                                    *)

(* copy_resources.  The files are copied one by one; that matters only     *)
(* while a script runs, which then is that of a test that was cut off.     *)
CopyResources(t) ==
  /\ pc[t] = "config"
  /\ copy' = [copy EXCEPT ![t] = certs]
  /\ GoTo(t, "ports")
  /\ UNCHANGED <<lock, script, certs, spoiled, portVars, dbVars>>

(* Tests that were given p and whose bitcoind has yet to bind it.          *)
Awaiting(p) ==
  {u \in Test : port[u] = p /\ (pc[u] = "spawn" \/ node[u] = "starting")}

TakePort(t, free) ==
  /\ pc[t] = "ports"
  /\ \E p \in free :
       /\ port' = [port EXCEPT ![t] = p]
       /\ raced' = IF Awaiting(p) = {} THEN raced ELSE raced \cup {t} \cup Awaiting(p)
  /\ GoTo(t, "spawn")
  /\ UNCHANGED <<certVars, node, listener, dbVars>>

(* Mutants: the port asked for is taken for the one that was bound; ports  *)
(* are chosen without binding them.                                        *)
UsePortZero(t) == TakePort(t, {0})
GetAnyPort(t) == TakePort(t, Port)

(* Port 0 binds a port that no one has bound; dropping the listener frees  *)
(* it.                                                                     *)
GetAvailablePort(t) == TakePort(t, {p \in Port : listener[p] = None})

-----------------------------------------------------------------------------
(* BitcoinNode::new with a local bitcoind                                  *)

SpawnBitcoin(t) ==
  /\ pc[t] = "spawn"
  /\ node' = [node EXCEPT ![t] = "starting"]
  /\ GoTo(t, "ready")
  /\ UNCHANGED <<certVars, port, listener, raced, dbVars>>

Bind(t) ==
  /\ node[t] = "starting" /\ listener[port[t]] = None
  /\ node' = [node EXCEPT ![t] = "up"]
  /\ listener' = [listener EXCEPT ![port[t]] = t]
  /\ UNCHANGED <<process, pc, certVars, port, raced, dbVars>>

(* bitcoind exits when it cannot bind its port.                            *)
BindFails(t) ==
  /\ node[t] = "starting" /\ listener[port[t]] # None
  /\ node' = [node EXCEPT ![t] = "down"]
  /\ UNCHANGED <<process, pc, certVars, port, listener, raced, dbVars>>

(* wait_for_rpc_ready asks whoever answers at the port; every test uses    *)
(* the same user and password.                                             *)
RpcReady(t) ==
  /\ pc[t] = "ready" /\ listener[port[t]] # None
  /\ GoTo(t, "postgres")
  /\ UNCHANGED <<certVars, portVars, dbVars>>

-----------------------------------------------------------------------------
(* Postgres::new and setup_clementine_databases                            *)

(* The container is new and has no database yet.  Its published port       *)
(* accepts connections from the time docker has started it, which is all   *)
(* wait_for_tcp_bound can see.                                             *)
PostgresReady(t) ==
  /\ pc[t] = "postgres"
  /\ GoTo(t, "env")
  /\ UNCHANGED <<certVars, portVars, dbVars>>

HasPostgres(t) == pc[t] \in {"env", "drop", "create", "run"}

(* Other tests of t's process that are in the loop over the databases.     *)
Siblings(t) ==
  {u \in Test \ {t} : process[u] = process[t] /\ pc[u] \in {"drop", "create"}}

(* The names come out of a HashSet, in any order.                          *)
Orders == SetToSeqs(DbName)

(* Four set_var calls without an await in between; user and password are   *)
(* those of every test.                                                    *)
SetEnvTo(t, target) ==
  /\ pc[t] = "env"
  /\ env' = [env EXCEPT ![process[t]] = target]
  /\ \E names \in Orders : todo' = [todo EXCEPT ![t] = names]
  /\ overlapped' = IF Siblings(t) = {} THEN overlapped
                   ELSE overlapped \cup {t} \cup Siblings(t)
  /\ GoTo(t, "drop")
  /\ UNCHANGED <<certVars, portVars, db>>

(* Mutant: a variable that is set already is kept.                         *)
SetEnvOnce(t) ==
  SetEnvTo(t, IF env[process[t]] = None THEN t ELSE env[process[t]])

SetEnv(t) == SetEnvTo(t, t)

(* dropdb of the next name reads the environment when it is started; its   *)
(* errors are ignored.                                                     *)
DropDb(t) ==
  /\ pc[t] = "drop"
  /\ db' \in {db, [db EXCEPT ![env[process[t]]][Head(todo[t])] = None]}
  /\ GoTo(t, "create")
  /\ UNCHANGED <<certVars, portVars, env, todo, overlapped>>

(* createdb needs a postgres without such a database.                      *)
CreateDb(t) ==
  LET target == env[process[t]] IN
  /\ pc[t] = "create"
  /\ HasPostgres(target) /\ db[target][Head(todo[t])] = None
  /\ db' = [db EXCEPT ![target][Head(todo[t])] = t]
  /\ todo' = [todo EXCEPT ![t] = Tail(@)]
  /\ GoTo(t, IF Len(todo[t]) = 1 THEN "run" ELSE "drop")
  /\ UNCHANGED <<certVars, portVars, env, overlapped>>

-----------------------------------------------------------------------------
(* The end of a test                                                       *)

(* The test ends, or any await of its setup returns an error or is its     *)
(* last.  A dropped future closes the lock file, but leaves its script     *)
(* running; postgres is removed.                                           *)
End(t) ==
  /\ pc[t] # "ended"
  /\ lock' = IF lock = t THEN None ELSE lock
  /\ spoiled' = (spoiled \/ (pc[t] = "script" /\ script[t] \in Clauses))
  /\ db' = [db EXCEPT ![t] = NoDbs]
  /\ GoTo(t, "ended")
  /\ UNCHANGED <<script, certs, copy, portVars, env, todo, overlapped>>

(* Some time later its bitcoind, killed by kill_on_drop or stopped, ends.  *)
BitcoinEnds(t) ==
  /\ pc[t] = "ended" /\ node[t] \in {"starting", "up"}
  /\ node' = [node EXCEPT ![t] = "down"]
  /\ listener' = [p \in Port |-> IF listener[p] = t THEN None ELSE listener[p]]
  /\ UNCHANGED <<process, pc, certVars, port, raced, dbVars>>

-----------------------------------------------------------------------------

CertStep(t) == TakeLock(t) \/ RunClause(t) \/ ScriptReturns(t)

Next ==
  \E t \in Test :
    \/ CertStep(t) \/ ScriptFails(t)
    \/ CopyResources(t) \/ GetAvailablePort(t)
    \/ SpawnBitcoin(t) \/ Bind(t) \/ BindFails(t) \/ RpcReady(t)
    \/ PostgresReady(t) \/ SetEnv(t) \/ DropDb(t) \/ CreateDb(t)
    \/ End(t) \/ BitcoinEnds(t)

Spec == Init /\ [][Next]_vars

(* Scripts end, tokio polls the future that waits for one, and the kernel  *)
(* gives a free lock to a thread that is blocked on it.  Each test is a    *)
(* #[tokio::test] with a thread of its own, so that one that is blocked    *)
(* keeps no other from being polled.                                       *)
FairSpec == Spec /\ \A t \in Test : WF_vars(CertStep(t))

-----------------------------------------------------------------------------
(* Properties                                                              *)

(* A test goes on with certificates that are all there and belong to each  *)
(* other, unless a script has failed half way or outlived its test: only   *)
(* ca.pem, which the script makes first, is looked for.                    *)
CertsComplete ==
  \A t \in Test :
    pc[t] \notin {"lock", "script", "config", "ended"} /\ ~spoiled =>
      \E u \in Test : copy[t] = [c \in Clauses |-> u]

(* A test that its bitcoind seems ready to is answered by its own, unless  *)
(* two tests were given one port before either had bound it.               *)
OwnBitcoin ==
  \A t \in Test :
    HasPostgres(t) \/ pc[t] = "postgres" =>
      listener[port[t]] = t \/ t \in raced

(* When setup_clementine_databases has returned Ok, every database the     *)
(* nodes of the test will use is in the postgres of the test and was made  *)
(* by it, unless the loop of another test ran in the process meanwhile.    *)
OwnDatabases ==
  \A t \in Test : pc[t] = "run" /\ t \notin overlapped =>
    \A d \in DbName : db[t][d] = t

(* No test is blocked on the lock, or waits for its script, for ever,      *)
(* whether scripts succeed, fail or are left behind by their tests.        *)
CertsEnd ==
  \A t \in Test : pc[t] \in {"lock", "script"} ~> pc[t] \notin {"lock", "script"}
=============================================================================
