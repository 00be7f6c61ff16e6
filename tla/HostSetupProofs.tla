-------------------------- MODULE HostSetupProofs ---------------------------
(***************************************************************************)
(* Theorems about HostSetup, for every number of tests, ports and          *)
(* databases, in one process or in several: type correctness, and that     *)
(* certificates, bitcoind and databases are not mixed up but in the cases  *)
(* the properties name.                                                    *)
(***************************************************************************)
EXTENDS HostSetup, TLAPS, FiniteSetTheorems, SequenceTheorems

-----------------------------------------------------------------------------
(* The inductive invariant                                                 *)

InLoop(t) == pc[t] \in {"drop", "create"}

(* The loop over the databases ends with the last of them.                 *)
LoopHasName == \A t \in Test : InLoop(t) => todo[t] # <<>>

Whole(c) == \E u \in Test : c = [k \in Clauses |-> u]

(* What a script that is at a clause has made.                             *)
Before == [key |-> {}, pem |-> {"key"}, leaf |-> {"key", "pem"}]
MadeBy(t) == [k \in Clauses |-> IF k \in Before[script[t]] THEN t ELSE None]

(* The lock is held while a script is waited for.  Until one has failed or *)
(* has been left behind, a script that runs is that of the holder and      *)
(* alone has made what there is, and without one there is all or nothing.  *)
CertInv ==
  /\ \A t \in Test : pc[t] = "script" <=> lock = t
  /\ ~spoiled =>
       /\ \A t \in Test :
            /\ script[t] # "failed"
            /\ script[t] \in Clauses => pc[t] = "script" /\ certs = MadeBy(t)
            /\ script[t] = "done" \/ pc[t] = "config" => Whole(certs)
            /\ pc[t] \notin {"lock", "script", "config", "ended"} => Whole(copy[t])
       /\ (\A t \in Test : script[t] \notin Clauses) => certs = NoCerts \/ Whole(certs)

(* Tests that count on a port: they will bind it, or have bound it.        *)
Active(t) == pc[t] = "spawn" \/ node[t] \in {"starting", "up"}

Launched == {"ready", "postgres", "env", "drop", "create", "run"}

PortInv ==
  /\ \A t \in Test :
       /\ Active(t) \/ pc[t] \in Launched => port[t] \in Port
       /\ pc[t] \in {"lock", "script", "config", "ports", "spawn"} => node[t] = "none"
       /\ node[t] = "up" => listener[port[t]] = t
       /\ pc[t] \in Launched /\ t \notin raced => node[t] \in {"starting", "up"}
       /\ pc[t] \in Launched \ {"ready"} /\ t \notin raced => node[t] = "up"
  /\ \A p \in Port : listener[p] # None =>
       node[listener[p]] = "up" /\ port[listener[p]] = p
  /\ \A t, u \in Test :
       t # u /\ Active(t) /\ Active(u) /\ port[t] = port[u] => t \in raced

(* The environment leads a loop to the postgres of its test, and no other  *)
(* loop there, unless two loops overlapped.                                *)
DbInv ==
  /\ \A t \in Test : InLoop(t) /\ t \notin overlapped => env[process[t]] = t
  /\ \A t, u \in Test :
       InLoop(u) /\ u # t /\ env[process[u]] = t => t \in overlapped
  /\ \A t \in Test : InLoop(t) /\ t \notin overlapped =>
       \A d \in DbName : db[t][d] = t \/ \E k \in DOMAIN todo[t] : todo[t][k] = d
  /\ \A t \in Test : pc[t] = "run" /\ t \notin overlapped =>
       \A d \in DbName : db[t][d] = t

-----------------------------------------------------------------------------
(* Type correctness                                                        *)

Labels == {"lock", "script", "config", "ports", "spawn", "ready", "postgres", "env",
           "drop", "create", "run", "ended"}

LEMMA GoToType ==
  ASSUME TypeOK, NEW t \in Test, NEW label \in Labels, GoTo(t, label)
  PROVE  /\ process' \in [Test -> Test] /\ pc' \in [Test -> Labels]
         /\ pc' = [pc EXCEPT ![t] = label] /\ process' = process
  BY DEF GoTo, TypeOK, Labels

(* The order in which the names come is a sequence with every name.        *)
LEMMA OrderFacts ==
  ASSUME NEW names \in Orders
  PROVE  /\ names \in Seq(DbName) /\ names # <<>>
         /\ \A d \in DbName : \E k \in DOMAIN names : names[k] = d
<1> DEFINE n == Cardinality(DbName)
           D == 1 .. n
<1>1. n \in Nat /\ n # 0
  BY HostAssumption, FS_CardinalityType, FS_EmptySet DEF HostAssumption
<1>2. names \in [D -> DbName] /\ \A a, b \in D : a # b => names[a] # names[b]
  BY DEF Orders, SetToSeqs
<1>3. names \in Seq(DbName) /\ Len(names) = n
  BY <1>1, <1>2
<1>4. names \in Injection(D, DbName)
  BY <1>2 DEF Injection, IsInjective
<1>5. IsFiniteSet(D) /\ Cardinality(D) = n
  BY <1>1, FS_Interval
<1>6. names \in Surjection(D, DbName)
  BY <1>4, <1>5, HostAssumption, FS_Injection DEF HostAssumption
<1>7. \A d \in DbName : \E k \in D : names[k] = d
  BY <1>6 DEF Surjection
<1> QED BY <1>1, <1>2, <1>3, <1>7

(* What a clause of the script does.                                       *)
LEMMA ClauseFacts ==
  ASSUME TypeOK, NEW t \in Test, RunClause(t)
  PROVE  /\ script' \in [Test -> Clauses \cup {"none", "done", "failed"}]
         /\ certs' \in Certs
         /\ \A u \in Test \ {t} : script'[u] = script[u]
         /\ script[t] = "key" => script'[t] = "pem" /\ certs' = [certs EXCEPT !["key"] = t]
         /\ script[t] = "pem" =>
              script'[t] = "leaf" /\ certs' = [certs EXCEPT !["pem"] = certs["key"]]
         /\ script[t] = "leaf" /\ certs["pem"] = certs["key"] =>
              script'[t] = "done" /\ certs' = [certs EXCEPT !["leaf"] = certs["key"]]
<1>1. script[t] \in {"key", "pem", "leaf"} BY DEF RunClause, Clauses
<1>2. script \in [Test -> Clauses \cup {"none", "done", "failed"}] BY DEF TypeOK
<1>3. certs \in [Clauses -> Test \cup {None}] BY DEF TypeOK, Certs
<1>4. certs["key"] \in Test \cup {None} BY <1>3 DEF Clauses
<1>5. CASE script[t] = "key"
  <2>1. script' = [script EXCEPT ![t] = "pem"] /\ certs' = [certs EXCEPT !["key"] = t]
    BY <1>5 DEF RunClause
  <2> QED BY <1>2, <1>3, <1>5, <2>1 DEF Clauses, Certs
<1>6. CASE script[t] = "pem"
  <2>1. /\ script' = [script EXCEPT ![t] = "leaf"]
        /\ certs' = [certs EXCEPT !["pem"] = certs["key"]]
    BY <1>6 DEF RunClause
  <2> QED BY <1>2, <1>3, <1>4, <1>6, <2>1 DEF Clauses, Certs
<1>7. CASE script[t] = "leaf" /\ certs["pem"] = certs["key"]
  <2>1. /\ script' = [script EXCEPT ![t] = "done"]
        /\ certs' = [certs EXCEPT !["leaf"] = certs["key"]]
    BY <1>7 DEF RunClause
  <2> QED BY <1>2, <1>3, <1>4, <1>7, <2>1 DEF Clauses, Certs
<1>8. CASE script[t] = "leaf" /\ certs["pem"] # certs["key"]
  <2>1. script' = [script EXCEPT ![t] = "failed"] /\ certs' = certs
    BY <1>8 DEF RunClause
  <2> QED BY <1>2, <1>3, <1>8, <2>1 DEF Clauses, Certs
<1> QED BY <1>1, <1>5, <1>6, <1>7, <1>8

LEMMA CertStepType ==
  ASSUME TypeOK, NEW t \in Test, CertStep(t) \/ ScriptFails(t) \/ CopyResources(t)
  PROVE  TypeOK'
<1> USE GoToType DEF Labels, certVars, portVars, dbVars
<1>1. CASE TakeLock(t)
  <2>1. CASE certs["pem"] # None
    BY <1>1, <2>1 DEF TakeLock, Decide, TypeOK
  <2>2. CASE certs["pem"] = None
    <3> DEFINE S == Clauses \cup {"none", "done", "failed"}
    <3>0. script' = [script EXCEPT ![t] = "key"] BY <1>1, <2>2 DEF TakeLock, Decide
    <3>1. script' \in [Test -> S]
      <4>1. script \in [Test -> S] BY DEF TypeOK
      <4>2. "key" \in S BY DEF Clauses
      <4> HIDE DEF S
      <4> QED BY <3>0, <4>1, <4>2
    <3> QED BY <1>1, <2>2, <3>1 DEF TakeLock, Decide, TypeOK
  <2> QED BY <2>1, <2>2
<1>2. CASE RunClause(t)
  <2>1. certs' \in Certs BY <1>2, ClauseFacts DEF TypeOK
  <2>2. script' \in [Test -> Clauses \cup {"none", "done", "failed"}]
    BY <1>2, ClauseFacts
  <2> QED BY <1>2, <2>1, <2>2 DEF RunClause, TypeOK
<1>3. CASE ScriptReturns(t) BY <1>3 DEF ScriptReturns, TypeOK
<1>4. CASE ScriptFails(t) BY <1>4 DEF ScriptFails, TypeOK
<1>5. CASE CopyResources(t) BY <1>5 DEF CopyResources, TypeOK
<1> QED BY <1>1, <1>2, <1>3, <1>4, <1>5 DEF CertStep

LEMMA PortStepType ==
  ASSUME TypeOK, NEW t \in Test,
         \/ GetAvailablePort(t) \/ SpawnBitcoin(t) \/ Bind(t) \/ BindFails(t)
         \/ RpcReady(t) \/ PostgresReady(t)
  PROVE  TypeOK'
<1> USE GoToType DEF Labels, certVars, portVars, dbVars
<1>1. CASE GetAvailablePort(t)
  <2>1. \A p : Awaiting(p) \subseteq Test BY DEF Awaiting
  <2> QED BY <1>1, <2>1 DEF GetAvailablePort, TakePort, TypeOK
<1>2. CASE SpawnBitcoin(t) BY <1>2 DEF SpawnBitcoin, TypeOK
<1>3. CASE Bind(t) BY <1>3 DEF Bind, TypeOK
<1>4. CASE BindFails(t) BY <1>4 DEF BindFails, TypeOK
<1>5. CASE RpcReady(t) BY <1>5 DEF RpcReady, TypeOK
<1>6. CASE PostgresReady(t) BY <1>6 DEF PostgresReady, TypeOK
<1> QED BY <1>1, <1>2, <1>3, <1>4, <1>5, <1>6

LEMMA DbStepType ==
  ASSUME TypeOK, LoopHasName, NEW t \in Test,
         SetEnv(t) \/ DropDb(t) \/ CreateDb(t) \/ End(t) \/ BitcoinEnds(t)
  PROVE  TypeOK'
<1> USE GoToType DEF Labels, certVars, portVars, dbVars
<1>1. CASE SetEnv(t)
  <2>1. Siblings(t) \subseteq Test BY DEF Siblings
  <2>2. todo' \in [Test -> Seq(DbName)]
    BY <1>1, OrderFacts DEF SetEnv, SetEnvTo, TypeOK
  <2> QED BY <1>1, <2>1, <2>2 DEF SetEnv, SetEnvTo, TypeOK
<1>2. CASE DropDb(t)
  <2>1. db \in [Test -> [DbName -> Test \cup {None}]] BY DEF TypeOK
  <2>2. db' = db \/ db' = [db EXCEPT ![env[process[t]]][Head(todo[t])] = None]
    BY <1>2 DEF DropDb
  <2>3. db' \in [Test -> [DbName -> Test \cup {None}]] BY <2>1, <2>2
  <2> QED BY <1>2, <2>3 DEF DropDb, TypeOK
<1>3. CASE CreateDb(t)
  <2>1. db' \in [Test -> [DbName -> Test \cup {None}]] BY <1>3 DEF CreateDb, TypeOK
  <2>2. todo[t] \in Seq(DbName) /\ todo[t] # <<>>
    BY <1>3 DEF CreateDb, TypeOK, LoopHasName, InLoop
  <2>3. Tail(todo[t]) \in Seq(DbName) BY <2>2
  <2>4. todo' \in [Test -> Seq(DbName)] BY <1>3, <2>3 DEF CreateDb, TypeOK
  <2> QED BY <1>3, <2>1, <2>4 DEF CreateDb, TypeOK
<1>4. CASE End(t)
  <2>1. NoDbs \in [DbName -> Test \cup {None}] BY DEF NoDbs
  <2>2. db' \in [Test -> [DbName -> Test \cup {None}]] BY <1>4, <2>1 DEF End, TypeOK
  <2> QED BY <1>4, <2>2 DEF End, TypeOK
<1>5. CASE BitcoinEnds(t) BY <1>5 DEF BitcoinEnds, TypeOK
<1> QED BY <1>1, <1>2, <1>3, <1>4, <1>5

-----------------------------------------------------------------------------
(* Certificates                                                            *)

LEMMA NoneNotTest == None \notin Test
  BY HostAssumption DEF HostAssumption

LEMMA WholeFacts ==
  ASSUME Whole(certs)
  PROVE  \A k \in Clauses : certs[k] # None
  BY NoneNotTest DEF Whole

(* Steps of a test that is past its certificates.                          *)
LEMMA CertKept ==
  ASSUME TypeOK, CertInv, NEW t \in Test, NEW label \in Labels, UNCHANGED certVars,
         GoTo(t, label),
         pc[t] \notin {"lock", "script", "config", "ended"},
         label \notin {"lock", "script", "config"}
  PROVE  CertInv'
<1>1. pc' = [pc EXCEPT ![t] = label] /\ pc \in [Test -> Labels]
  BY DEF GoTo, TypeOK, Labels
<1>2. \A u \in Test : /\ pc'[u] = "script" <=> pc[u] = "script"
                      /\ pc'[u] = "config" <=> pc[u] = "config"
                      /\ pc'[u] \notin {"lock", "script", "config", "ended"} =>
                           pc[u] \notin {"lock", "script", "config", "ended"}
  BY <1>1
<1> QED BY <1>2 DEF CertInv, certVars, MadeBy, Whole

LEMMA TakeLockCerts ==
  ASSUME TypeOK, CertInv, NEW t \in Test, TakeLock(t)
  PROVE  CertInv'
<1>1. /\ pc \in [Test -> Labels] /\ script \in [Test -> Clauses \cup {"none", "done", "failed"}]
      /\ UNCHANGED <<certs, copy, spoiled>>
  BY DEF TypeOK, Labels, TakeLock
<1>2. \A u \in Test : pc[u] # "script" BY NoneNotTest DEF CertInv, TakeLock
<1>3. CASE certs["pem"] # None
  <2>1. pc' = [pc EXCEPT ![t] = "config"] /\ UNCHANGED <<lock, script>>
    BY <1>3 DEF TakeLock, Decide, GoTo
  <2>2. ASSUME ~spoiled PROVE Whole(certs)
    <3>1. certs = NoCerts \/ Whole(certs) BY <1>2, <2>2 DEF CertInv
    <3> QED BY <3>1, <1>3 DEF NoCerts, Clauses
  <2> QED BY <1>1, <1>2, <2>1, <2>2, NoneNotTest DEF CertInv, MadeBy, Whole, TakeLock
<1>4. CASE certs["pem"] = None
  <2>1. /\ pc' = [pc EXCEPT ![t] = "script"] /\ lock' = t
        /\ script' = [script EXCEPT ![t] = "key"]
    BY <1>4 DEF TakeLock, Decide, GoTo
  <2>2. \A u \in Test : pc'[u] = "script" <=> lock' = u
    BY <1>1, <1>2, <2>1
  <2>3. ASSUME ~spoiled PROVE certs = NoCerts /\ ~Whole(certs)
    <3>1. certs = NoCerts \/ Whole(certs) BY <1>2, <2>3 DEF CertInv
    <3>2. ~Whole(certs) BY <1>4, WholeFacts DEF Clauses
    <3> QED BY <3>1, <3>2
  <2>4. ASSUME ~spoiled', NEW u \in Test
        PROVE  /\ script'[u] # "failed"
               /\ script'[u] \in Clauses => pc'[u] = "script" /\ certs' = MadeBy(u)'
               /\ script'[u] = "done" \/ pc'[u] = "config" => Whole(certs')
               /\ pc'[u] \notin {"lock", "script", "config", "ended"} => Whole(copy'[u])
    <3>1. CASE u = t
      <4>1. script'[u] = "key" /\ pc'[u] = "script" BY <3>1, <1>1, <2>1
      <4>2. MadeBy(u)' = NoCerts BY <4>1 DEF MadeBy, NoCerts, Before
      <4> QED BY <4>1, <4>2, <1>1, <2>3, <2>4
    <3>2. CASE u # t
      <4>1. script'[u] = script[u] /\ pc'[u] = pc[u] BY <3>2, <1>1, <2>1
      <4> QED BY <4>1, <1>1, <1>2, <2>3, <2>4 DEF CertInv
    <3> QED BY <3>1, <3>2
  <2>5. script'[t] \in Clauses BY <1>1, <2>1 DEF Clauses
  <2> QED BY <2>2, <2>4, <2>5 DEF CertInv, Whole
<1> QED BY <1>3, <1>4

LEMMA RunClauseCerts ==
  ASSUME TypeOK, CertInv, NEW t \in Test, RunClause(t)
  PROVE  CertInv'
<1>1. /\ script[t] \in {"key", "pem", "leaf"}
      /\ UNCHANGED <<pc, lock, copy, spoiled>>
      /\ certs \in [Clauses -> Test \cup {None}]
  BY DEF RunClause, Clauses, TypeOK, Certs
<1>2. ASSUME ~spoiled
      PROVE  /\ pc[t] = "script" /\ certs = MadeBy(t)
             /\ \A u \in Test \ {t} : script[u] \notin Clauses /\ script[u] # "done"
             /\ \A u \in Test : pc[u] # "config"
  <2>1. pc[t] = "script" /\ certs = MadeBy(t)
    BY <1>1, <1>2 DEF CertInv, Clauses
  <2>2. certs["leaf"] = None BY <1>1, <2>1 DEF MadeBy, Before, Clauses
  <2>3. ~Whole(certs) BY <2>2, WholeFacts DEF Clauses
  <2> QED BY <1>2, <2>1, <2>3 DEF CertInv
<1>3. ASSUME ~spoiled
      PROVE  \/ script'[t] \in {"pem", "leaf"} /\ certs' = MadeBy(t)'
             \/ script'[t] = "done" /\ Whole(certs')
  <2>1. \A k \in Clauses : certs[k] = IF k \in Before[script[t]] THEN t ELSE None
    BY <1>2, <1>3 DEF MadeBy
  <2>2. CASE script[t] = "key"
    <3>1. script'[t] = "pem" /\ certs' = [certs EXCEPT !["key"] = t]
      BY <2>2, ClauseFacts
    <3>2. MadeBy(t)' = [k \in Clauses |-> IF k \in {"key"} THEN t ELSE None]
      BY <3>1 DEF MadeBy, Before
    <3>3. certs["pem"] = None /\ certs["leaf"] = None
      BY <2>1, <2>2 DEF Before, Clauses
    <3>4. certs' = [k \in Clauses |-> IF k \in {"key"} THEN t ELSE None]
      BY <1>1, <3>1, <3>3 DEF Clauses
    <3> QED BY <3>1, <3>2, <3>4
  <2>3. CASE script[t] = "pem"
    <3>1. script'[t] = "leaf" /\ certs' = [certs EXCEPT !["pem"] = certs["key"]]
      BY <2>3, ClauseFacts
    <3>2. MadeBy(t)' = [k \in Clauses |-> IF k \in {"key", "pem"} THEN t ELSE None]
      BY <3>1 DEF MadeBy, Before
    <3>3. certs["key"] = t /\ certs["leaf"] = None
      BY <2>1, <2>3 DEF Before, Clauses
    <3>4. certs' = [k \in Clauses |-> IF k \in {"key", "pem"} THEN t ELSE None]
      BY <1>1, <3>1, <3>3 DEF Clauses
    <3> QED BY <3>1, <3>2, <3>4
  <2>4. CASE script[t] = "leaf"
    <3>1. certs["key"] = t /\ certs["pem"] = t BY <2>1, <2>4 DEF Before, Clauses
    <3>2. script'[t] = "done" /\ certs' = [certs EXCEPT !["leaf"] = t]
      BY <2>4, <3>1, ClauseFacts
    <3>3. certs' = [k \in Clauses |-> t] BY <1>1, <3>1, <3>2 DEF Clauses
    <3> QED BY <3>2, <3>3 DEF Whole
  <2> QED BY <1>1, <2>2, <2>3, <2>4
<1>4. \A u \in Test \ {t} : script'[u] = script[u] BY ClauseFacts
<1>5. ASSUME ~spoiled', NEW u \in Test
      PROVE  /\ script'[u] # "failed"
             /\ script'[u] \in Clauses => pc'[u] = "script" /\ certs' = MadeBy(u)'
             /\ script'[u] = "done" \/ pc'[u] = "config" => Whole(certs')
             /\ pc'[u] \notin {"lock", "script", "config", "ended"} => Whole(copy'[u])
  <2>1. ~spoiled BY <1>1, <1>5
  <2>2. CASE u = t BY <1>1, <1>2, <1>3, <2>1, <2>2 DEF CertInv, Clauses
  <2>3. CASE u # t BY <1>1, <1>2, <1>4, <2>1, <2>3 DEF CertInv
  <2> QED BY <2>2, <2>3
<1>6. ~spoiled' /\ (\A u \in Test : script'[u] \notin Clauses) => Whole(certs')
  BY <1>1, <1>3 DEF Clauses
<1>7. \A u \in Test : pc'[u] = "script" <=> lock' = u BY <1>1 DEF CertInv
<1> QED BY <1>5, <1>6, <1>7 DEF CertInv, Whole

LEMMA CertInduction ==
  ASSUME TypeOK, CertInv, [Next]_vars
  PROVE  CertInv'
<1> USE DEF Labels
<1>1. ASSUME NEW t \in Test, ScriptReturns(t) PROVE CertInv'
  <2>1. /\ pc \in [Test -> Labels] /\ UNCHANGED <<script, certs, copy, spoiled>>
        /\ pc[t] = "script" /\ script[t] \in {"done", "failed"} /\ lock' = None
        /\ pc' = [pc EXCEPT ![t] = IF script[t] = "done" THEN "config" ELSE "ended"]
    BY <1>1 DEF TypeOK, ScriptReturns, GoTo
  <2>2. \A u \in Test \ {t} : pc[u] # "script" BY <2>1 DEF CertInv
  <2>3. \A u \in Test : pc'[u] = "script" <=> lock' = u
    BY <2>1, <2>2, NoneNotTest
  <2>4. ~spoiled => \A u \in Test : script[u] \in Clauses => u # t
    BY <2>1 DEF Clauses
  <2> QED BY <2>1, <2>2, <2>3, <2>4 DEF CertInv, MadeBy, Whole
<1>2. ASSUME NEW t \in Test, ScriptFails(t) PROVE CertInv'
  BY <1>2 DEF ScriptFails, CertInv
<1>3. ASSUME NEW t \in Test, CopyResources(t) PROVE CertInv'
  <2>1. /\ pc \in [Test -> Labels] /\ UNCHANGED <<lock, script, certs, spoiled>>
        /\ pc[t] = "config" /\ pc' = [pc EXCEPT ![t] = "ports"]
        /\ copy \in [Test -> Certs] /\ copy' = [copy EXCEPT ![t] = certs]
    BY <1>3 DEF TypeOK, CopyResources, GoTo
  <2>2. \A u \in Test : pc'[u] = "script" <=> pc[u] = "script" BY <2>1
  <2> QED BY <2>1, <2>2 DEF CertInv, MadeBy, Whole
<1>4. ASSUME NEW t \in Test, GetAvailablePort(t) PROVE CertInv'
  BY <1>4, CertKept DEF GetAvailablePort, TakePort
<1>5. ASSUME NEW t \in Test, SpawnBitcoin(t) PROVE CertInv'
  BY <1>5, CertKept DEF SpawnBitcoin
<1>6. ASSUME NEW t \in Test, RpcReady(t) PROVE CertInv'
  BY <1>6, CertKept DEF RpcReady
<1>7. ASSUME NEW t \in Test, PostgresReady(t) PROVE CertInv'
  BY <1>7, CertKept DEF PostgresReady
<1>8. ASSUME NEW t \in Test, SetEnv(t) PROVE CertInv'
  BY <1>8, CertKept DEF SetEnv, SetEnvTo
<1>9. ASSUME NEW t \in Test, DropDb(t) PROVE CertInv'
  BY <1>9, CertKept DEF DropDb
<1>10. ASSUME NEW t \in Test, CreateDb(t) PROVE CertInv'
  BY <1>10, CertKept DEF CreateDb
<1>11. ASSUME NEW t \in Test, End(t) PROVE CertInv'
  <2>1. /\ pc \in [Test -> Labels] /\ UNCHANGED <<script, certs, copy>>
        /\ pc' = [pc EXCEPT ![t] = "ended"]
        /\ lock' = IF lock = t THEN None ELSE lock
        /\ spoiled' = (spoiled \/ (pc[t] = "script" /\ script[t] \in Clauses))
    BY <1>11 DEF TypeOK, End, GoTo
  <2>2. \A u \in Test : pc'[u] = "script" <=> lock' = u
    BY <2>1, NoneNotTest DEF CertInv
  <2>3. ~spoiled' => ~spoiled /\ (pc[t] = "script" => script[t] \notin Clauses)
    BY <2>1
  <2> QED BY <2>1, <2>2, <2>3 DEF CertInv, MadeBy, Whole
<1>12. ASSUME NEW t \in Test, Bind(t) \/ BindFails(t) \/ BitcoinEnds(t) PROVE CertInv'
  BY <1>12 DEF Bind, BindFails, BitcoinEnds, certVars, CertInv, MadeBy, Whole
<1>13. CASE UNCHANGED vars
  BY <1>13 DEF vars, certVars, CertInv, MadeBy, Whole
<1> QED
  BY <1>1, <1>2, <1>3, <1>4, <1>5, <1>6, <1>7, <1>8, <1>9, <1>10, <1>11, <1>12, <1>13,
     TakeLockCerts, RunClauseCerts DEF Next, CertStep

-----------------------------------------------------------------------------
(* Ports                                                                   *)

(* Steps that change no port and no bitcoind, and launch none.             *)
LEMMA PortKept ==
  ASSUME TypeOK, PortInv, NEW t \in Test, NEW label \in Labels, UNCHANGED portVars,
         pc' = [pc EXCEPT ![t] = label],
         label = "spawn" => pc[t] = "spawn",
         label \in {"lock", "script", "config", "ports"} => node[t] = "none",
         label = "ready" => pc[t] \in Launched,
         label \in Launched \ {"ready"} =>
           /\ pc[t] \in Launched
           /\ pc[t] = "ready" /\ t \notin raced => node[t] = "up"
  PROVE  PortInv'
<1>1. pc \in [Test -> Labels] BY DEF TypeOK, Labels
<1>2. \A u \in Test : /\ pc'[u] = "spawn" => pc[u] = "spawn"
                      /\ pc'[u] \in Launched => pc[u] \in Launched
                      /\ pc'[u] \in {"lock", "script", "config", "ports", "spawn"} =>
                           node[u] = "none"
                      /\ pc'[u] \in Launched \ {"ready"} /\ u \notin raced => node[u] = "up"
  BY <1>1 DEF Launched, PortInv
<1> QED BY <1>2 DEF PortInv, portVars, Active

LEMMA TakePortKeeps ==
  ASSUME TypeOK, PortInv, NEW t \in Test, GetAvailablePort(t)
  PROVE  PortInv'
<1>1. PICK p \in Port :
        /\ listener[p] = None
        /\ port' = [port EXCEPT ![t] = p]
        /\ raced' = IF Awaiting(p) = {} THEN raced ELSE raced \cup {t} \cup Awaiting(p)
  BY DEF GetAvailablePort, TakePort
<1>2. /\ pc[t] = "ports" /\ pc' = [pc EXCEPT ![t] = "spawn"]
      /\ UNCHANGED <<node, listener>>
      /\ pc \in [Test -> Labels] /\ port \in [Test -> Port \cup {None}]
  BY DEF GetAvailablePort, TakePort, GoTo, TypeOK, Labels
<1>3. raced \subseteq raced' BY <1>1
<1>4. node[t] = "none" BY <1>2 DEF PortInv
<1>5. ASSUME NEW u \in Test, u # t, Active(u), port[u] = p
      PROVE  t \in raced' /\ u \in raced'
  <2>1. node[u] # "up" BY <1>1, <1>5, NoneNotTest DEF PortInv
  <2>2. u \in Awaiting(p) BY <1>5, <2>1 DEF Active, Awaiting
  <2> QED BY <1>1, <2>2
<1>6. \A u \in Test \ {t} : port'[u] = port[u] /\ pc'[u] = pc[u] /\ (Active(u)' <=> Active(u))
  BY <1>1, <1>2 DEF Active
<1>7. port'[t] = p /\ pc'[t] = "spawn" BY <1>1, <1>2
<1>8. \A u, v \in Test :
        u # v /\ Active(u)' /\ Active(v)' /\ port'[u] = port'[v] => u \in raced'
  BY <1>3, <1>5, <1>6, <1>7 DEF PortInv
<1>9. ASSUME NEW u \in Test
      PROVE  /\ Active(u)' \/ pc'[u] \in Launched => port'[u] \in Port
             /\ pc'[u] \in {"lock", "script", "config", "ports", "spawn"} => node'[u] = "none"
             /\ node'[u] = "up" => listener'[port'[u]] = u
             /\ pc'[u] \in Launched /\ u \notin raced' => node'[u] \in {"starting", "up"}
             /\ pc'[u] \in Launched \ {"ready"} /\ u \notin raced' => node'[u] = "up"
  <2>1. CASE u = t BY <1>2, <1>4, <1>7, <2>1 DEF Launched
  <2>2. CASE u # t BY <1>2, <1>3, <1>6, <2>2 DEF PortInv
  <2> QED BY <2>1, <2>2
<1>10. \A q \in Port : listener'[q] # None =>
         node'[listener'[q]] = "up" /\ port'[listener'[q]] = q
  <2> SUFFICES ASSUME NEW q \in Port, listener[q] # None
               PROVE  node[listener[q]] = "up" /\ port'[listener[q]] = q
    BY <1>2
  <2>1. listener[q] \in Test BY DEF TypeOK
  <2>2. node[listener[q]] = "up" /\ port[listener[q]] = q BY DEF PortInv
  <2> QED BY <1>4, <1>6, <2>1, <2>2
<1> QED BY <1>8, <1>9, <1>10 DEF PortInv

(* Whoever answers at a port that only one test counts on is its bitcoind. *)
LEMMA RpcReadyKeeps ==
  ASSUME TypeOK, PortInv, NEW t \in Test, RpcReady(t)
  PROVE  PortInv'
<1>1. pc[t] = "ready" /\ pc' = [pc EXCEPT ![t] = "postgres"] /\ UNCHANGED portVars
  BY DEF RpcReady, GoTo
<1>2. ASSUME t \notin raced PROVE node[t] = "up"
  <2>1. port[t] \in Port /\ node[t] \in {"starting", "up"}
    BY <1>1, <1>2 DEF PortInv, Launched
  <2>2. listener[port[t]] \in Test
    BY <2>1 DEF RpcReady, TypeOK
  <2>3. node[listener[port[t]]] = "up" /\ port[listener[port[t]]] = port[t]
    BY <2>1, <2>2, NoneNotTest DEF PortInv
  <2>4. listener[port[t]] = t BY <1>2, <2>1, <2>2, <2>3 DEF PortInv, Active
  <2> QED BY <2>3, <2>4
<1> QED BY <1>1, <1>2, PortKept DEF Labels, Launched

LEMMA NodeStepKeeps ==
  ASSUME TypeOK, PortInv, NEW t \in Test,
         SpawnBitcoin(t) \/ Bind(t) \/ BindFails(t) \/ BitcoinEnds(t)
  PROVE  PortInv'
<1>1. /\ pc \in [Test -> Labels] /\ port \in [Test -> Port \cup {None}]
      /\ node \in [Test -> {"none", "starting", "up", "down"}]
      /\ listener \in [Port -> Test \cup {None}]
  BY DEF TypeOK, Labels
<1>2. CASE SpawnBitcoin(t)
  <2>1. /\ pc[t] = "spawn" /\ pc' = [pc EXCEPT ![t] = "ready"]
        /\ node' = [node EXCEPT ![t] = "starting"] /\ UNCHANGED <<port, listener, raced>>
    BY <1>2 DEF SpawnBitcoin, GoTo
  <2>2. \A u \in Test : Active(u)' <=> Active(u) BY <1>1, <2>1 DEF Active
  <2>3. node[t] = "none" BY <2>1 DEF PortInv
  <2>4. \A q \in Port : listener[q] # t BY <2>3, NoneNotTest DEF PortInv
  <2>5. ASSUME NEW u \in Test
        PROVE  /\ Active(u)' \/ pc'[u] \in Launched => port'[u] \in Port
               /\ pc'[u] \in {"lock", "script", "config", "ports", "spawn"} => node'[u] = "none"
               /\ node'[u] = "up" => listener'[port'[u]] = u
               /\ pc'[u] \in Launched /\ u \notin raced' => node'[u] \in {"starting", "up"}
               /\ pc'[u] \in Launched \ {"ready"} /\ u \notin raced' => node'[u] = "up"
    <3>1. CASE u = t
      <4>1. node'[u] = "starting" /\ pc'[u] = "ready" BY <1>1, <2>1, <3>1
      <4>2. port[u] \in Port BY <2>1, <3>1 DEF PortInv, Active
      <4> QED BY <2>1, <4>1, <4>2
    <3>2. CASE u # t
      <4>1. node'[u] = node[u] /\ pc'[u] = pc[u] BY <1>1, <2>1, <3>2
      <4> QED BY <2>1, <2>2, <4>1 DEF PortInv
    <3> QED BY <3>1, <3>2
  <2>6. \A q \in Port : listener'[q] # None =>
          node'[listener'[q]] = "up" /\ port'[listener'[q]] = q
    BY <1>1, <2>1, <2>4 DEF PortInv
  <2>7. \A u, v \in Test :
          u # v /\ Active(u)' /\ Active(v)' /\ port'[u] = port'[v] => u \in raced'
    BY <2>1, <2>2 DEF PortInv
  <2> QED BY <2>5, <2>6, <2>7 DEF PortInv
<1>3. CASE Bind(t)
  <2>1. /\ node[t] = "starting" /\ listener[port[t]] = None
        /\ node' = [node EXCEPT ![t] = "up"]
        /\ listener' = [listener EXCEPT ![port[t]] = t] /\ UNCHANGED <<pc, port, raced>>
    BY <1>3 DEF Bind
  <2>2. \A u \in Test : Active(u)' <=> Active(u) BY <1>1, <2>1 DEF Active
  <2>3. port[t] \in Port BY <2>1 DEF PortInv, Active
  <2>4. \A u \in Test : node[u] = "up" => port[u] # port[t]
    BY <2>1, NoneNotTest DEF PortInv
  <2>5. \A u \in Test : node'[u] = "up" => listener'[port'[u]] = u
    <3> SUFFICES ASSUME NEW u \in Test, node'[u] = "up" PROVE listener'[port[u]] = u
      BY <2>1
    <3>1. CASE u = t BY <1>1, <2>1, <2>3, <3>1
    <3>2. CASE u # t
      <4>1. node[u] = "up" BY <1>1, <2>1, <3>2
      <4>2. port[u] \in Port /\ listener[port[u]] = u BY <4>1 DEF PortInv, Active
      <4> QED BY <1>1, <2>1, <2>4, <4>1, <4>2
    <3> QED BY <3>1, <3>2
  <2>6. \A q \in Port : listener'[q] # None =>
          node'[listener'[q]] = "up" /\ port'[listener'[q]] = q
    BY <1>1, <2>1, <2>3 DEF PortInv
  <2> QED BY <1>1, <2>1, <2>2, <2>5, <2>6 DEF PortInv
<1>4. CASE BindFails(t)
  <2>1. /\ node[t] = "starting" /\ listener[port[t]] # None
        /\ node' = [node EXCEPT ![t] = "down"] /\ UNCHANGED <<pc, port, listener, raced>>
    BY <1>4 DEF BindFails
  <2>2. \A u \in Test : Active(u)' => Active(u) BY <1>1, <2>1 DEF Active
  <2>3. port[t] \in Port BY <2>1 DEF PortInv, Active
  <2>4. t \in raced
    <3>1. listener[port[t]] \in Test BY <1>1, <2>1, <2>3
    <3>2. node[listener[port[t]]] = "up" /\ port[listener[port[t]]] = port[t]
      BY <2>1, <2>3 DEF PortInv
    <3> QED BY <2>1, <3>1, <3>2 DEF PortInv, Active
  <2>5. \A q \in Port : listener[q] # t BY <2>1, NoneNotTest DEF PortInv
  <2>6. pc[t] \notin {"lock", "script", "config", "ports", "spawn"} BY <2>1 DEF PortInv
  <2> QED BY <1>1, <2>1, <2>2, <2>4, <2>5, <2>6 DEF PortInv
<1>5. CASE BitcoinEnds(t)
  <2>1. /\ pc[t] = "ended" /\ node' = [node EXCEPT ![t] = "down"]
        /\ listener' = [p \in Port |-> IF listener[p] = t THEN None ELSE listener[p]]
        /\ UNCHANGED <<pc, port, raced>>
    BY <1>5 DEF BitcoinEnds
  <2>2. \A u \in Test : Active(u)' => Active(u) BY <1>1, <2>1 DEF Active
  <2>3. \A q \in Port : listener'[q] # None => listener'[q] = listener[q] /\ listener[q] # t
    BY <2>1
  <2>4. \A u \in Test : node'[u] = "up" => u # t /\ node[u] = "up" BY <1>1, <2>1
  <2>5. \A u \in Test : node'[u] = "up" => listener'[port'[u]] = u
    <3> SUFFICES ASSUME NEW u \in Test, node'[u] = "up" PROVE listener'[port[u]] = u
      BY <2>1
    <3>1. port[u] \in Port /\ listener[port[u]] = u BY <2>4 DEF PortInv, Active
    <3> QED BY <2>1, <2>4, <3>1
  <2>6. \A q \in Port : listener'[q] # None =>
          node'[listener'[q]] = "up" /\ port'[listener'[q]] = q
    BY <1>1, <2>1, <2>3 DEF PortInv
  <2> QED BY <1>1, <2>1, <2>2, <2>5, <2>6 DEF PortInv, Launched
<1> QED BY <1>2, <1>3, <1>4, <1>5

LEMMA PortInduction ==
  ASSUME TypeOK, PortInv, [Next]_vars
  PROVE  PortInv'
<1> USE DEF Labels, Launched, portVars
<1>1. ASSUME NEW t \in Test, CertStep(t) PROVE PortInv'
  <2>1. CASE TakeLock(t)
    <3>1. \/ pc' = [pc EXCEPT ![t] = "config"]
          \/ pc' = [pc EXCEPT ![t] = "script"]
      BY <2>1 DEF TakeLock, Decide, GoTo
    <3>2. node[t] = "none" /\ UNCHANGED portVars
      BY <2>1 DEF TakeLock, PortInv
    <3> QED BY <3>1, <3>2, PortKept
  <2>2. CASE RunClause(t)
    BY <2>2 DEF RunClause, PortInv, Active
  <2>3. CASE ScriptReturns(t)
    <3>1. \/ pc' = [pc EXCEPT ![t] = "config"]
          \/ pc' = [pc EXCEPT ![t] = "ended"]
      BY <2>3 DEF ScriptReturns, GoTo
    <3>2. node[t] = "none" /\ UNCHANGED portVars
      BY <2>3 DEF ScriptReturns, PortInv
    <3> QED BY <3>1, <3>2, PortKept
  <2> QED BY <1>1, <2>1, <2>2, <2>3 DEF CertStep
<1>2. ASSUME NEW t \in Test, ScriptFails(t) PROVE PortInv'
  BY <1>2 DEF ScriptFails, PortInv, Active
<1>3. ASSUME NEW t \in Test, CopyResources(t) PROVE PortInv'
  <2>1. node[t] = "none" BY <1>3 DEF CopyResources, PortInv
  <2> QED BY <1>3, <2>1, PortKept DEF CopyResources, GoTo
<1>4. ASSUME NEW t \in Test, PostgresReady(t) PROVE PortInv'
  BY <1>4, PortKept DEF PostgresReady, GoTo
<1>5. ASSUME NEW t \in Test, SetEnv(t) PROVE PortInv'
  BY <1>5, PortKept DEF SetEnv, SetEnvTo, GoTo
<1>6. ASSUME NEW t \in Test, DropDb(t) PROVE PortInv'
  BY <1>6, PortKept DEF DropDb, GoTo
<1>7. ASSUME NEW t \in Test, CreateDb(t) PROVE PortInv'
  <2>1. pc' = [pc EXCEPT ![t] = "run"] \/ pc' = [pc EXCEPT ![t] = "drop"]
    BY <1>7 DEF CreateDb, GoTo
  <2>2. pc[t] = "create" /\ UNCHANGED portVars BY <1>7 DEF CreateDb
  <2> QED BY <2>1, <2>2, PortKept
<1>8. ASSUME NEW t \in Test, End(t) PROVE PortInv'
  BY <1>8, PortKept DEF End, GoTo
<1>9. CASE UNCHANGED vars BY <1>9 DEF vars, PortInv, Active
<1> QED
  BY <1>1, <1>2, <1>3, <1>4, <1>5, <1>6, <1>7, <1>8, <1>9,
     TakePortKeeps, RpcReadyKeeps, NodeStepKeeps DEF Next

-----------------------------------------------------------------------------
(* Databases                                                               *)

(* Steps outside the loop over the databases.                              *)
LEMMA DbKept ==
  ASSUME TypeOK, LoopHasName, DbInv, UNCHANGED <<process, dbVars>>,
         \A t \in Test : pc'[t] \in {"drop", "create", "run"} => pc'[t] = pc[t]
  PROVE  LoopHasName' /\ DbInv'
<1>1. \A t \in Test : InLoop(t)' => InLoop(t) BY DEF InLoop
<1>2. LoopHasName' BY <1>1 DEF LoopHasName, dbVars
<1>3. DbInv' BY <1>1 DEF DbInv, dbVars
<1> QED BY <1>2, <1>3

LEMMA SetEnvKeeps ==
  ASSUME TypeOK, LoopHasName, DbInv, NEW t \in Test, SetEnv(t)
  PROVE  LoopHasName' /\ DbInv'
<1>1. PICK names \in Orders : todo' = [todo EXCEPT ![t] = names]
  BY DEF SetEnv, SetEnvTo
<1>2. /\ pc[t] = "env" /\ pc' = [pc EXCEPT ![t] = "drop"] /\ UNCHANGED <<process, db>>
      /\ env' = [env EXCEPT ![process[t]] = t]
      /\ overlapped' = IF Siblings(t) = {} THEN overlapped
                       ELSE overlapped \cup {t} \cup Siblings(t)
      /\ pc \in [Test -> Labels] /\ process \in [Test -> Test]
      /\ env \in [Test -> Test \cup {None}] /\ todo \in [Test -> Seq(DbName)]
  BY DEF SetEnv, SetEnvTo, GoTo, TypeOK, Labels
<1>3. overlapped \subseteq overlapped' BY <1>2
<1>4. InLoop(t)' /\ env'[process[t]] = t /\ todo'[t] = names
  BY <1>1, <1>2 DEF InLoop
<1>5. ASSUME NEW u \in Test \ {t}
      PROVE  /\ InLoop(u)' <=> InLoop(u)
             /\ pc'[u] = pc[u] /\ todo'[u] = todo[u]
  BY <1>1, <1>2 DEF InLoop
<1>6. ASSUME NEW u \in Test \ {t}, InLoop(u), process[u] = process[t]
      PROVE  u \in overlapped' /\ t \in overlapped'
  <2>1. u \in Siblings(t) BY <1>6 DEF Siblings, InLoop
  <2> QED BY <1>2, <2>1
<1>7. ASSUME NEW u \in Test, process[u] # process[t]
      PROVE  env'[process[u]] = env[process[u]]
  BY <1>2, <1>7
<1>8. LoopHasName' BY <1>1, <1>2, <1>4, <1>5, OrderFacts DEF LoopHasName
<1>9. ASSUME NEW u \in Test, InLoop(u)', u \notin overlapped'
      PROVE  /\ env'[process'[u]] = u
             /\ \A d \in DbName : db'[u][d] = u \/ \E k \in DOMAIN todo'[u] : todo'[u][k] = d
  <2>1. CASE u = t BY <1>2, <1>4, <2>1, OrderFacts
  <2>2. CASE u # t
    <3>1. process[u] # process[t] BY <1>5, <1>6, <1>9, <2>2
    <3> QED BY <1>2, <1>3, <1>5, <1>7, <1>9, <2>2, <3>1 DEF DbInv
  <2> QED BY <2>1, <2>2
<1>10. ASSUME NEW u \in Test, NEW v \in Test, InLoop(v)', v # u, env'[process'[v]] = u
       PROVE  u \in overlapped'
  <2>1. v # t BY <1>2, <1>4, <1>10
  <2>2. InLoop(v) BY <1>5, <1>10, <2>1
  <2>3. CASE process[v] = process[t] BY <1>2, <1>4, <1>6, <1>10, <2>1, <2>2, <2>3
  <2>4. CASE process[v] # process[t]
    BY <1>2, <1>3, <1>7, <1>10, <2>2, <2>4 DEF DbInv
  <2> QED BY <2>3, <2>4
<1>11. ASSUME NEW u \in Test, pc'[u] = "run", u \notin overlapped'
       PROVE  \A d \in DbName : db'[u][d] = u
  <2>1. u # t BY <1>2, <1>11
  <2> QED BY <1>2, <1>3, <1>5, <1>11, <2>1 DEF DbInv
<1> QED BY <1>8, <1>9, <1>10, <1>11 DEF DbInv

(* dropdb reaches the postgres of its own test or of one that overlapped,  *)
(* and takes away a name that is still to be created.                      *)
LEMMA DropDbKeeps ==
  ASSUME TypeOK, LoopHasName, DbInv, NEW t \in Test, DropDb(t)
  PROVE  LoopHasName' /\ DbInv'
<1> DEFINE target == env[process[t]]
           name == Head(todo[t])
<1>1. /\ pc[t] = "drop" /\ pc' = [pc EXCEPT ![t] = "create"]
      /\ UNCHANGED <<process, env, todo, overlapped>>
      /\ db' = db \/ db' = [db EXCEPT ![target][name] = None]
      /\ pc \in [Test -> Labels] /\ db \in [Test -> [DbName -> Test \cup {None}]]
  BY DEF DropDb, GoTo, TypeOK, Labels
<1>2. InLoop(t) BY <1>1 DEF InLoop
<1>3. /\ \A u \in Test : InLoop(u)' <=> InLoop(u)
      /\ \A u \in Test : pc'[u] = "run" <=> pc[u] = "run"
  BY <1>1 DEF InLoop
<1>4. \A u \in Test : u \notin overlapped /\ u # t => target # u
  BY <1>2 DEF DbInv
<1>5. \A u \in Test : u \notin overlapped /\ u # t => db'[u] = db[u]
  BY <1>1, <1>4
<1>6. \A d \in DbName : db'[t][d] = db[t][d] \/ d = name
  BY <1>1
<1>7. 1 \in DOMAIN todo[t] /\ todo[t][1] = name
  <2>1. todo[t] \in Seq(DbName) /\ todo[t] # <<>> BY <1>2 DEF TypeOK, LoopHasName
  <2> QED BY <2>1
<1>8. \A u \in Test : InLoop(u) /\ u \notin overlapped =>
        \A d \in DbName : db'[u][d] = u \/ \E k \in DOMAIN todo[u] : todo[u][k] = d
  BY <1>5, <1>6, <1>7 DEF DbInv
<1>9. \A u \in Test : pc[u] = "run" /\ u \notin overlapped =>
        \A d \in DbName : db'[u][d] = u
  BY <1>1, <1>5 DEF DbInv
<1>10. LoopHasName' BY <1>1, <1>3 DEF LoopHasName
<1> HIDE DEF target, name
<1> QED BY <1>1, <1>3, <1>8, <1>9, <1>10 DEF DbInv

LEMMA CreateDbKeeps ==
  ASSUME TypeOK, LoopHasName, DbInv, NEW t \in Test, CreateDb(t)
  PROVE  LoopHasName' /\ DbInv'
<1> DEFINE target == env[process[t]]
           name == Head(todo[t])
           label == IF Len(todo[t]) = 1 THEN "run" ELSE "drop"
<1>1. /\ pc[t] = "create" /\ pc' = [pc EXCEPT ![t] = label]
      /\ UNCHANGED <<process, env, overlapped>>
      /\ db' = [db EXCEPT ![target][name] = t]
      /\ todo' = [todo EXCEPT ![t] = Tail(@)]
      /\ pc \in [Test -> Labels] /\ db \in [Test -> [DbName -> Test \cup {None}]]
      /\ todo \in [Test -> Seq(DbName)]
  BY DEF CreateDb, GoTo, TypeOK, Labels
<1>2. InLoop(t) BY <1>1 DEF InLoop
<1>3. /\ \A u \in Test \ {t} : pc'[u] = pc[u] /\ (InLoop(u)' <=> InLoop(u))
      /\ \A u \in Test \ {t} : todo'[u] = todo[u]
      /\ pc'[t] = label /\ todo'[t] = Tail(todo[t])
  BY <1>1 DEF InLoop
<1>4. \A u \in Test : u \notin overlapped /\ u # t => target # u
  BY <1>2 DEF DbInv
<1>5. \A u \in Test : u \notin overlapped /\ u # t => db'[u] = db[u]
  BY <1>1, <1>4
<1>6. todo[t] \in Seq(DbName) /\ todo[t] # <<>> BY <1>1, <1>2 DEF LoopHasName
<1>7. /\ name = todo[t][1] /\ name \in DbName
      /\ Len(Tail(todo[t])) = Len(todo[t]) - 1
      /\ \A k \in 1 .. Len(todo[t]) - 1 : Tail(todo[t])[k] = todo[t][k + 1]
  BY <1>6
<1>8. Len(todo[t]) # 1 => todo'[t] # <<>>
  <2>1. Len(todo[t]) \in Nat \ {0} BY <1>6
  <2>2. Len(<<>>) = 0 OBVIOUS
  <2>3. Len(todo'[t]) = Len(todo[t]) - 1 BY <1>3, <1>7
  <2> SUFFICES ASSUME Len(todo[t]) # 1, todo'[t] = <<>> PROVE FALSE
    OBVIOUS
  <2>4. Len(todo'[t]) = 0 BY <2>2
  <2> QED BY <2>1, <2>3, <2>4
<1>9. LoopHasName'
  <2> SUFFICES ASSUME NEW u \in Test, InLoop(u)' PROVE todo'[u] # <<>>
    BY DEF LoopHasName
  <2>1. CASE u = t BY <1>3, <1>8, <2>1 DEF InLoop
  <2>2. CASE u # t BY <1>3, <2>2 DEF LoopHasName
  <2> QED BY <2>1, <2>2
<1>10. ASSUME t \notin overlapped, NEW d \in DbName
       PROVE  db'[t][d] = t \/ \E k \in DOMAIN todo'[t] : todo'[t][k] = d
  <2>1. target = t BY <1>2, <1>10 DEF DbInv
  <2>2. CASE d = name BY <1>1, <1>7, <2>1, <2>2
  <2>3. CASE d # name /\ db[t][d] = t BY <1>1, <2>1, <2>3
  <2>4. CASE d # name /\ db[t][d] # t
    <3>1. PICK k \in DOMAIN todo[t] : todo[t][k] = d
      BY <1>2, <1>10, <2>4 DEF DbInv
    <3>2. k \in 1 .. Len(todo[t]) /\ k # 1 BY <1>6, <1>7, <2>4, <3>1
    <3>3. k - 1 \in 1 .. Len(todo[t]) - 1 /\ (k - 1) + 1 = k BY <1>6, <3>2
    <3>4. Tail(todo[t])[k - 1] = d BY <1>7, <3>1, <3>3
    <3>5. DOMAIN Tail(todo[t]) = 1 .. Len(todo[t]) - 1 BY <1>6, <1>7
    <3> QED BY <1>3, <3>3, <3>4, <3>5
  <2> QED BY <2>2, <2>3, <2>4
<1>11. pc'[t] = "run" => DOMAIN todo'[t] = {}
  <2>1. pc'[t] = "run" => Len(todo[t]) = 1 BY <1>3
  <2>2. DOMAIN Tail(todo[t]) = 1 .. Len(todo[t]) - 1 BY <1>6, <1>7
  <2>3. Len(todo[t]) = 1 => 1 .. Len(todo[t]) - 1 = {} OBVIOUS
  <2>4. DOMAIN todo'[t] = 1 .. Len(todo[t]) - 1 BY <1>3, <2>2
  <2> QED BY <2>1, <2>3, <2>4
<1>12. \A u \in Test : InLoop(u)' /\ u \notin overlapped =>
         \A d \in DbName : db'[u][d] = u \/ \E k \in DOMAIN todo'[u] : todo'[u][k] = d
  <2> SUFFICES ASSUME NEW u \in Test, InLoop(u)', u \notin overlapped, NEW d \in DbName
               PROVE  db'[u][d] = u \/ \E k \in DOMAIN todo'[u] : todo'[u][k] = d
    OBVIOUS
  <2>1. CASE u = t BY <1>10, <2>1
  <2>2. CASE u # t
    <3>1. InLoop(u) /\ db'[u] = db[u] /\ todo'[u] = todo[u] BY <1>3, <1>5, <2>2
    <3> QED BY <3>1 DEF DbInv
  <2> QED BY <2>1, <2>2
<1>13. \A u \in Test : pc'[u] = "run" /\ u \notin overlapped =>
         \A d \in DbName : db'[u][d] = u
  BY <1>3, <1>5, <1>10, <1>11 DEF DbInv
<1>14. \A u \in Test : InLoop(u)' => InLoop(u) BY <1>2, <1>3
<1> HIDE DEF target, name, label
<1> QED BY <1>1, <1>9, <1>12, <1>13, <1>14 DEF DbInv

LEMMA EndKeeps ==
  ASSUME TypeOK, LoopHasName, DbInv, NEW t \in Test, End(t)
  PROVE  LoopHasName' /\ DbInv'
<1>1. /\ pc' = [pc EXCEPT ![t] = "ended"] /\ UNCHANGED <<process, env, todo, overlapped>>
      /\ db' = [db EXCEPT ![t] = NoDbs]
      /\ pc \in [Test -> Labels] /\ db \in [Test -> [DbName -> Test \cup {None}]]
  BY DEF End, GoTo, TypeOK, Labels
<1>2. \A u \in Test : InLoop(u)' => InLoop(u) /\ u # t BY <1>1 DEF InLoop
<1>3. \A u \in Test : pc'[u] = "run" => pc[u] = "run" /\ u # t BY <1>1
<1>4. \A u \in Test \ {t} : db'[u] = db[u] BY <1>1
<1>5. LoopHasName' BY <1>1, <1>2 DEF LoopHasName
<1>6. DbInv' BY <1>1, <1>2, <1>3, <1>4 DEF DbInv
<1> QED BY <1>5, <1>6

LEMMA DbInduction ==
  ASSUME TypeOK, LoopHasName, DbInv, [Next]_vars
  PROVE  LoopHasName' /\ DbInv'
<1> DEFINE Other(t) ==
             \/ CertStep(t) \/ ScriptFails(t)
             \/ CopyResources(t) \/ GetAvailablePort(t)
             \/ SpawnBitcoin(t) \/ Bind(t) \/ BindFails(t) \/ RpcReady(t)
             \/ PostgresReady(t) \/ BitcoinEnds(t)
<1>1. ASSUME NEW t \in Test, Other(t) PROVE LoopHasName' /\ DbInv'
  <2>1. pc \in [Test -> Labels] BY DEF TypeOK, Labels
  <2>2. /\ UNCHANGED <<process, dbVars>>
        /\ \/ pc' = pc
           \/ \E label \in Labels \ {"drop", "create", "run"} :
                pc' = [pc EXCEPT ![t] = label]
    BY <1>1 DEF CertStep, TakeLock, Decide, RunClause, ScriptReturns, ScriptFails,
       CopyResources, GetAvailablePort, TakePort, SpawnBitcoin, Bind, BindFails,
       RpcReady, PostgresReady, BitcoinEnds, GoTo, Labels
  <2>3. \A u \in Test : pc'[u] \in {"drop", "create", "run"} => pc'[u] = pc[u]
    BY <2>1, <2>2
  <2> QED BY <2>2, <2>3, DbKept
<1>2. CASE UNCHANGED vars BY <1>2, DbKept DEF vars
<1> QED BY <1>1, <1>2, SetEnvKeeps, DropDbKeeps, CreateDbKeeps, EndKeeps DEF Next

-----------------------------------------------------------------------------
(* The theorems                                                            *)

Inv == TypeOK /\ LoopHasName /\ CertInv /\ PortInv /\ DbInv

LEMMA InitInv == Init => Inv
<1> SUFFICES ASSUME Init PROVE Inv
  OBVIOUS
<1>1. TypeOK
  <2>1. process \in [Test -> Test] BY DEF Init
  <2>2. NoCerts \in Certs BY DEF NoCerts, Certs
  <2>3. NoDbs \in [DbName -> Test \cup {None}] BY DEF NoDbs
  <2>4. /\ certs \in Certs /\ copy \in [Test -> Certs]
        /\ db \in [Test -> [DbName -> Test \cup {None}]]
    BY <2>2, <2>3 DEF Init
  <2>5. todo \in [Test -> Seq(DbName)] BY DEF Init
  <2> QED BY <2>1, <2>4, <2>5 DEF Init, TypeOK
<1>2. LoopHasName BY DEF Init, LoopHasName, InLoop
<1>3. CertInv BY NoneNotTest DEF Init, CertInv, Clauses
<1>4. PortInv BY DEF Init, PortInv, Active, Launched
<1>5. DbInv BY DEF Init, DbInv, InLoop
<1> QED BY <1>1, <1>2, <1>3, <1>4, <1>5 DEF Inv

LEMMA StepInv == Inv /\ [Next]_vars => Inv'
<1> SUFFICES ASSUME Inv, [Next]_vars PROVE Inv'
  OBVIOUS
<1>1. TypeOK'
  <2>1. CASE UNCHANGED vars
    BY <2>1 DEF Inv, vars, certVars, portVars, dbVars, TypeOK
  <2> QED BY <2>1, CertStepType, PortStepType, DbStepType DEF Next, Inv
<1> QED BY <1>1, CertInduction, PortInduction, DbInduction DEF Inv

LEMMA SpecInv == Spec => []Inv
  BY InitInv, StepInv, PTL DEF Spec

(* The state of the set-up keeps its type for every number of tests.       *)
THEOREM TypeCorrect == Spec => []TypeOK
<1>1. Inv => TypeOK BY DEF Inv
<1> QED BY <1>1, SpecInv, PTL

(* However many tests start at once, in however many processes, none goes  *)
(* on with a part of the certificates or with those of two scripts, unless *)
(* a script failed or outlived its test.                                   *)
THEOREM CertsCorrect == Spec => []CertsComplete
<1>1. Inv => CertsComplete
  BY DEF Inv, CertInv, CertsComplete, Whole
<1> QED BY <1>1, SpecInv, PTL

(* A test whose port no other was given before it was bound is answered by *)
(* its own bitcoind.                                                       *)
THEOREM BitcoinCorrect == Spec => []OwnBitcoin
<1>1. Inv => OwnBitcoin
  BY DEF Inv, PortInv, OwnBitcoin, HasPostgres, Launched
<1> QED BY <1>1, SpecInv, PTL

(* A test whose loop over its databases did not overlap with another loop  *)
(* of its process has made all of them in its own postgres.                *)
THEOREM DatabasesCorrect == Spec => []OwnDatabases
<1>1. Inv => OwnDatabases BY DEF Inv, DbInv, OwnDatabases
<1> QED BY <1>1, SpecInv, PTL
=============================================================================
