-------------------------- MODULE TestRunnerProofs --------------------------
(***************************************************************************)
(* Theorems about TestRunner, for every configuration of nodes: type       *)
(* correctness, that only a passing test makes `run` return Ok when the    *)
(* configuration has a Citrea node, and that `run` then implements         *)
(* RunContract.                                                            *)
(***************************************************************************)
EXTENDS TestRunner, TLAPS, SequenceTheorems

(* The lists of nodes are sequences of nodes, and a list of Citrea nodes   *)
(* is no shorter than its sequencers.                                      *)
LEMMA Lists ==
  /\ Bitcoins \in Seq(Node) /\ Postgres \in Seq(Node)
  /\ Sequencers \in Seq(Node) /\ Roles \in Seq(Node)
  /\ Infra \in Seq(Node) /\ Citrea \in Seq(Node)
  /\ Len(Infra) = Len(Bitcoins) + Len(Postgres)
  /\ Len(Citrea) = Len(Sequencers) + Len(Roles)
  /\ Clementine \in Seq(Node)
  /\ Len(Batches) = 3 /\ \A i \in 1 .. 3 : ToSet(Batches[i]) \subseteq Node
<1>1. /\ Bitcoins \in Seq(Node) /\ Postgres \in Seq(Node)
      /\ Sequencers \in Seq(Node) /\ Roles \in Seq(Node)
      /\ Verifiers \in Seq(Node) /\ Operators \in Seq(Node) /\ Aggregator \in Seq(Node)
  BY ConfigAssumption DEF ConfigAssumption
<1>2. Aggregator \o Verifiers \in Seq(Node)  BY <1>1, ConcatProperties
<1>3. Clementine \in Seq(Node)
  BY <1>1, <1>2, ConcatProperties DEF Clementine
<1>4. Len(Batches) = 3 /\ \A i \in 1 .. 3 : Batches[i] \in {Verifiers, Operators, Aggregator}
  BY DEF Batches
<1>5. \A s \in {Verifiers, Operators, Aggregator} : ToSet(s) \subseteq Node
  BY <1>1 DEF ToSet
<1> QED  BY <1>1, <1>3, <1>4, <1>5, ConcatProperties DEF Infra, Citrea

(* Where a loop over nodes is, and who holds a sender of the failure       *)
(* channel until then.                                                     *)
Position ==
  /\ pc \in Body \ {"network"} => Bitcoins # <<>>
  /\ pc \in {"infra", "rpc"} => pos \in DOMAIN Infra
  /\ pc \in {"spawn", "client", "ready"} => pos \in DOMAIN Citrea
  /\ pc = "clementine" => pos \in 1 .. 3

(* The body holds a sender until it has given one to a Citrea node, and    *)
(* the framework keeps that node.                                          *)
HasSender ==
  /\ pc \in {"network", "infra", "rpc", "fund", "spawn", "client"} => tx
  /\ pc = "client" => Citrea[pos] \in fresh
  /\ Citrea # <<>> /\ pc \in {"clementine", "connect", "ready", "setup", "test"} =>
       owned \cap ToSet(Citrea) # {}

(* The outcome is open while the body runs; a test has a framework.        *)
Outcome ==
  /\ pc \in Body => verdict = "none" /\ ~passed
  /\ pc \in Body \ {"network", "infra", "rpc"} => framework
  /\ Citrea # <<>> /\ verdict = "ok" => passed

-----------------------------------------------------------------------------
(* Type correctness                                                        *)

(* TypeOK without the Boolean variables, which Zenon is better at.         *)
DataOK ==
  /\ pc \in Body \cup Ending \cup {"returned"}
  /\ pos \in Nat \ {0}
  /\ owned \subseteq Node /\ fresh \subseteq Node /\ strays \subseteq Node
  /\ unanswered \subseteq Node /\ listed \subseteq Node
  /\ proc \in [Node -> ProcStates] /\ docked \subseteq Node
  /\ lost \subseteq Node /\ watch \subseteq Node
  /\ logged \subseteq Node /\ chan \subseteq Node
  /\ verdict \in {"none", "ok", "err", "panic"}

LEMMA TypeInit == Init => FlagsOK /\ DataOK /\ Position
<1> SUFFICES ASSUME Init PROVE FlagsOK /\ DataOK /\ Position  OBVIOUS
<1>1. FlagsOK  BY DEF Init, FlagsOK
<1>2. DataOK  BY DEF Init, DataOK, Body, ProcStates, Pending
<1>3. Position  BY DEF Init, Position
<1> QED  BY <1>1, <1>2, <1>3

(* A process whose owner is dropped has at most a signal more.             *)
LEMMA DropData ==
  ASSUME DataOK, NEW S, Drop(S)
  PROVE  proc' \in [Node -> ProcStates]
BY DEF DataOK, Drop, ProcStates, Pending

(* How the body ends, whatever ends it.                                    *)
LEMMA EndBodyData ==
  ASSUME DataOK, NEW v \in {"ok", "err", "panic"}, EndBody(v)
  PROVE  DataOK'
<1>1. proc' \in [Node -> ProcStates]  BY DropData DEF EndBody, LeaveBody
<1>2. /\ pc' \in Ending \cup {"returned"} /\ pos' = 1
      /\ verdict' \in {"none", "ok", "err", "panic"}
      /\ strays' = fresh /\ fresh' = {} /\ owned' = owned /\ listed' = listed
      /\ unanswered' \subseteq fresh
  BY DEF EndBody, LeaveBody, Ending
<1>3. UNCHANGED <<docked, lost, watch, logged, chan>>  BY DEF EndBody, LeaveBody
<1> QED  BY <1>1, <1>2, <1>3 DEF DataOK

LEMMA BodyData ==
  ASSUME DataOK, Position, BodyStep
  PROVE  DataOK'
<1> USE Lists DEF DataOK, Position, Body, Ending, ProcStates, Pending, GoTo, bodyVars,
                  leftVars, nodeVars
<1>1. CASE CreateNetwork  BY <1>1 DEF CreateNetwork
<1>2. CASE SpawnInfra  BY <1>2 DEF SpawnInfra, Spawns
<1>3. CASE InfraReady  BY <1>3 DEF InfraReady
<1>4. CASE FundWallets  BY <1>4 DEF FundWallets, AfterCitrea
<1>5. CASE SpawnCitrea  BY <1>5 DEF SpawnCitrea, Spawns
<1>6. CASE BuildCitrea  BY <1>6 DEF BuildCitrea, AfterCitrea
<1>12. ASSUME NEW n \in Node, SpawnClementine(n) PROVE DataOK'
  BY <1>12 DEF SpawnClementine, Spawns
<1>14. ASSUME NEW n \in Node, AskStart(n) PROVE DataOK'  BY <1>14 DEF AskStart
<1>13. CASE ClementineJoined  BY <1>13 DEF ClementineJoined
<1>7. CASE ConnectBitcoins  BY <1>7 DEF ConnectBitcoins
<1>8. CASE WaitForReady  BY <1>8 DEF WaitForReady
<1>9. CASE SetUpDone  BY <1>9 DEF SetUpDone
<1>10. CASE TestPasses  BY <1>10, EndBodyData DEF TestPasses
<1>11. CASE BodyFails  BY <1>11, EndBodyData DEF BodyFails
<1> QED  BY <1>1, <1>2, <1>3, <1>4, <1>5, <1>6, <1>7, <1>8, <1>9, <1>10, <1>11,
            <1>12, <1>13, <1>14 DEF BodyStep

LEMMA NodeData ==
  ASSUME DataOK, TestStep \/ NodeStep
  PROVE  DataOK'
<1> USE DEF DataOK, ProcStates, Pending, Stopped, bodyVars, leftVars
<1>1. ASSUME NEW n \in Node, TestStops(n) PROVE DataOK'  BY <1>1 DEF TestStops
<1>2. ASSUME NEW n \in Node, TestReaps(n) PROVE DataOK'  BY <1>2 DEF TestReaps
<1>3. ASSUME NEW n \in Node, TestStarts(n) PROVE DataOK'  BY <1>3 DEF TestStarts
<1>4. ASSUME NEW n \in Node, ProcessExits(n) PROVE DataOK'  BY <1>4 DEF ProcessExits
<1>5. ASSUME NEW n \in Node, Crash(n) PROVE DataOK'  BY <1>5 DEF Crash
<1>6. ASSUME NEW n \in Node, PanicLine(n) PROVE DataOK'  BY <1>6 DEF PanicLine
<1>7. ASSUME NEW n \in Node, ReportPanic(n) PROVE DataOK'  BY <1>7 DEF ReportPanic
<1>8. ASSUME NEW n \in Node, TestStarted(n) PROVE DataOK'  BY <1>8 DEF TestStarted
<1>9. ASSUME NEW n \in Node, OpenFails(n) PROVE DataOK'  BY <1>9 DEF OpenFails
<1>10. ASSUME NEW n \in Node, DaemonCreates(n) \/ DaemonStarts(n) PROVE DataOK'
  BY <1>10 DEF DaemonCreates, DaemonStarts
<1> QED  BY <1>1, <1>2, <1>3, <1>4, <1>5, <1>6, <1>7, <1>8, <1>9, <1>10
         DEF TestStep, NodeStep

LEMMA StopData ==
  ASSUME DataOK, NEW n \in Node, StopSucceeds(n) \/ StopFails(n)
  PROVE  proc' \in [Node -> ProcStates]
BY DEF DataOK, ProcStates, Pending, StopSucceeds, StopFails, Stopped

LEMMA EndingData ==
  ASSUME DataOK, EndingStep
  PROVE  DataOK'
<1>0. /\ \A i \in DOMAIN Sequencers : Sequencers[i] \in Node
      /\ \A i \in DOMAIN Roles : Roles[i] \in Node
      /\ \A i \in DOMAIN Bitcoins : Bitcoins[i] \in Node
      /\ \A i \in DOMAIN Clementine : Clementine[i] \in Node
      /\ Postgres # <<>> => Postgres[1] \in Node
  BY Lists
<1> USE <1>0, StopData DEF DataOK, Ending, ProcStates, Pending, GoTo, bodyVars, leftVars,
                           nodeVars, PreStop
<1>1. CASE StopSequencers
  <2>1. proc' \in [Node -> ProcStates]  BY <1>1 DEF StopSequencers
  <2> QED  BY <1>1, <2>1 DEF StopSequencers
<1>8. CASE StopClementine
  <2>1. proc' \in [Node -> ProcStates]  BY <1>8 DEF StopClementine
  <2> QED  BY <1>8, <2>1 DEF StopClementine
<1>2. CASE StopRoles  BY <1>2 DEF StopRoles
<1>3. ASSUME NEW n \in Node, RemoveContainer(n) PROVE DataOK'
  BY <1>3 DEF RemoveContainer
<1>4. CASE CleanupDocker  BY <1>4 DEF CleanupDocker
<1>9. CASE ListContainers  BY <1>9 DEF ListContainers, Containers
<1>5. CASE StopPostgres
  <2>1. proc' \in [Node -> ProcStates]  BY <1>5 DEF StopPostgres
  <2> QED  BY <1>5, <2>1 DEF StopPostgres
<1>6. CASE StopBitcoin
  <2>1. proc' \in [Node -> ProcStates]  BY <1>6 DEF StopBitcoin
  <2> QED  BY <1>6, <2>1 DEF StopBitcoin
<1>7. CASE CleanUpAndReturn
  <2>1. proc' \in [Node -> ProcStates]  BY <1>7, DropData DEF CleanUpAndReturn
  <2> QED  BY <1>7, <2>1 DEF CleanUpAndReturn
<1> QED  BY <1>1, <1>2, <1>3, <1>4, <1>5, <1>6, <1>7, <1>8, <1>9 DEF EndingStep

LEMMA DataStep ==
  ASSUME DataOK, Position, [Next]_vars
  PROVE  DataOK'
<1>1. CASE Recv \/ Interrupt
  <2> USE <1>1, EndBodyData
  <2>1. CASE RecvReport  BY <2>1 DEF RecvReport
  <2>2. CASE RecvClosed  BY <2>2 DEF RecvClosed
  <2>3. CASE Interrupt  BY <2>3 DEF Interrupt
  <2> QED  BY <2>1, <2>2, <2>3 DEF Recv
<1>2. CASE Done \/ UNCHANGED vars  BY <1>2 DEF Done, vars, DataOK
<1> QED  BY <1>1, <1>2, BodyData, NodeData, EndingData DEF Next

-----------------------------------------------------------------------------
LEMMA FlagsStep ==
  ASSUME FlagsOK, [Next]_vars
  PROVE  FlagsOK'
<1> USE DEF FlagsOK
<1>1. ASSUME NEW v, EndBody(v), passed' \in BOOLEAN PROVE FlagsOK'
  BY <1>1 DEF EndBody, LeaveBody
<1>2. CASE BodyStep
  <2> USE <1>1 DEF bodyVars, leftVars, nodeVars
  <2>1. CASE CreateNetwork
    <3>1. (DockerBitcoin \/ DockerCitrea \/ DockerClementine \/ WithClementine) \in BOOLEAN
      OBVIOUS
    <3> QED  BY <2>1, <3>1 DEF CreateNetwork
  <2>2. CASE SpawnInfra  BY <2>2 DEF SpawnInfra
  <2>3. CASE InfraReady  BY <2>3 DEF InfraReady
  <2>4. CASE FundWallets
    <3>1. (Citrea # <<>>) \in BOOLEAN  OBVIOUS
    <3> QED  BY <2>4, <3>1 DEF FundWallets
  <2>5. CASE SpawnCitrea  BY <2>5 DEF SpawnCitrea
  <2>6. CASE BuildCitrea  BY <2>6 DEF BuildCitrea
  <2>7. CASE ConnectBitcoins  BY <2>7 DEF ConnectBitcoins
  <2>8. CASE WaitForReady  BY <2>8 DEF WaitForReady
  <2>9. CASE SetUpDone  BY <2>9 DEF SetUpDone
  <2>10. CASE TestPasses  BY <2>10 DEF TestPasses
  <2>11. CASE BodyFails  BY <2>11 DEF BodyFails
  <2>12. CASE \E n \in Node : SpawnClementine(n)  BY <2>12 DEF SpawnClementine
  <2>13. CASE ClementineJoined  BY <2>13 DEF ClementineJoined
  <2>14. CASE \E n \in Node : AskStart(n)  BY <2>14 DEF AskStart
  <2> QED  BY <2>1, <2>2, <2>3, <2>4, <2>5, <2>6, <2>7, <2>8, <2>9, <2>10, <2>11,
              <2>12, <2>13, <2>14, <1>2 DEF BodyStep
<1>3. CASE Recv \/ Interrupt
  BY <1>1, <1>3 DEF Recv, RecvReport, RecvClosed, Interrupt
<1>4. CASE TestStep
  BY <1>4 DEF TestStep, TestStops, TestReaps, TestStarts, TestStarted, bodyVars
<1>5. CASE NodeStep
  BY <1>5 DEF NodeStep, ProcessExits, Crash, DaemonCreates, DaemonStarts, PanicLine,
              ReportPanic, OpenFails, bodyVars
<1>6. CASE EndingStep
  <2> USE DEF StopSucceeds, StopFails, bodyVars, nodeVars
  <2>1. CASE StopSequencers  BY <2>1 DEF StopSequencers
  <2>2. CASE StopRoles  BY <2>2 DEF StopRoles
  <2>3. CASE \E n \in Node : RemoveContainer(n)  BY <2>3 DEF RemoveContainer
  <2>4. CASE CleanupDocker  BY <2>4 DEF CleanupDocker
  <2>5. CASE StopPostgres  BY <2>5 DEF StopPostgres
  <2>6. CASE StopBitcoin  BY <2>6 DEF StopBitcoin
  <2>7. CASE CleanUpAndReturn  BY <2>7 DEF CleanUpAndReturn
  <2>8. CASE StopClementine  BY <2>8 DEF StopClementine
  <2>9. CASE ListContainers  BY <2>9 DEF ListContainers
  <2> QED  BY <2>1, <2>2, <2>3, <2>4, <2>5, <2>6, <2>7, <2>8, <2>9, <1>6 DEF EndingStep
<1>7. CASE Done \/ UNCHANGED vars  BY <1>7 DEF Done, vars
<1> QED  BY <1>2, <1>3, <1>4, <1>5, <1>6, <1>7 DEF Next

(* Only the body itself advances it, and a restart adds to what is fresh;  *)
(* any other step leaves it where it is, or ends it.                       *)
LEMMA OtherSteps ==
  ASSUME [Next]_vars, ~BodyStep
  PROVE  \/ UNCHANGED <<pc, pos, framework, owned, tx, passed, verdict>>
            /\ (fresh' = fresh \/ TestRuns)
         \/ pc' \notin Body
<1>1. CASE Recv \/ Interrupt
  BY <1>1 DEF Recv, RecvReport, RecvClosed, Interrupt, EndBody, LeaveBody, Body
<1>2. CASE TestStep
  BY <1>2 DEF TestStep, TestStops, TestReaps, TestStarts, TestStarted, bodyVars
<1>3. CASE NodeStep
  BY <1>3 DEF NodeStep, ProcessExits, Crash, DaemonCreates, DaemonStarts, PanicLine,
              ReportPanic, OpenFails, bodyVars
<1>4. CASE EndingStep
  BY <1>4 DEF EndingStep, StopClementine, StopSequencers, StopRoles, ListContainers,
              RemoveContainer, CleanupDocker, StopPostgres, StopBitcoin, CleanUpAndReturn,
              GoTo, Body
<1>5. CASE Done \/ UNCHANGED vars  BY <1>5 DEF Done, vars
<1> QED  BY <1>1, <1>2, <1>3, <1>4, <1>5 DEF Next

LEMMA PositionStep ==
  ASSUME DataOK, Position, [Next]_vars
  PROVE  Position'
<1> USE Lists DEF Position
<1>1. CASE BodyStep
  <2> USE DEF DataOK, Body, GoTo, bodyVars, leftVars, nodeVars
  <2>1. CASE CreateNetwork  BY <2>1 DEF CreateNetwork
  <2>2. CASE SpawnInfra  BY <2>2 DEF SpawnInfra
  <2>3. CASE InfraReady  BY <2>3 DEF InfraReady
  <2>4. CASE FundWallets  BY <2>4 DEF FundWallets, AfterCitrea
  <2>5. CASE SpawnCitrea  BY <2>5 DEF SpawnCitrea
  <2>6. CASE BuildCitrea  BY <2>6 DEF BuildCitrea, AfterCitrea
  <2>7. CASE ConnectBitcoins  BY <2>7 DEF ConnectBitcoins
  <2>8. CASE WaitForReady  BY <2>8 DEF WaitForReady
  <2>9. CASE SetUpDone  BY <2>9 DEF SetUpDone
  <2>10. CASE TestPasses \/ BodyFails
    BY <2>10 DEF TestPasses, BodyFails, EndBody, LeaveBody
  <2>11. CASE \E n \in Node : SpawnClementine(n)  BY <2>11 DEF SpawnClementine
  <2>12. CASE ClementineJoined  BY <2>12 DEF ClementineJoined
  <2>13. CASE \E n \in Node : AskStart(n)  BY <2>13 DEF AskStart
  <2> QED  BY <2>1, <2>2, <2>3, <2>4, <2>5, <2>6, <2>7, <2>8, <2>9, <2>10, <2>11,
              <2>12, <2>13, <1>1 DEF BodyStep
<1>2. CASE ~BodyStep
  <2>1. CASE UNCHANGED <<pc, pos>>  BY <2>1
  <2>2. CASE pc' \notin Body  BY <2>2 DEF Body
  <2> QED  BY <1>2, <2>1, <2>2, OtherSteps
<1> QED  BY <1>1, <1>2

LEMMA SenderStep ==
  ASSUME DataOK, Position, HasSender, [Next]_vars
  PROVE  HasSender'
<1> USE Lists DEF HasSender
<1>1. CASE BodyStep
  <2> USE DEF DataOK, Position, GoTo, bodyVars, leftVars, nodeVars
  <2>1. CASE CreateNetwork  BY <2>1 DEF CreateNetwork
  <2>2. CASE SpawnInfra  BY <2>2 DEF SpawnInfra
  <2>3. CASE InfraReady  BY <2>3 DEF InfraReady
  <2>4. CASE FundWallets  BY <2>4 DEF FundWallets, AfterCitrea
  <2>5. CASE SpawnCitrea  BY <2>5 DEF SpawnCitrea, Spawns
  <2>6. CASE BuildCitrea
    <3>1. CASE pos < Len(Citrea)  BY <3>1, <2>6 DEF BuildCitrea
    <3>2. CASE ~(pos < Len(Citrea))
      <4>1. pos = Len(Citrea) /\ ~(pos < Len(Sequencers))  BY <3>2, <2>6 DEF BuildCitrea
      <4>2. Citrea[pos] \in owned' \cap ToSet(Citrea)
        BY <4>1, <2>6 DEF BuildCitrea, ToSet
      <4> QED  BY <3>2, <4>2, <2>6 DEF BuildCitrea, AfterCitrea
    <3> QED  BY <3>1, <3>2
  <2>7. CASE ConnectBitcoins  BY <2>7 DEF ConnectBitcoins
  <2>8. CASE WaitForReady  BY <2>8 DEF WaitForReady
  <2>9. CASE SetUpDone  BY <2>9 DEF SetUpDone
  <2>10. CASE TestPasses \/ BodyFails
    BY <2>10 DEF TestPasses, BodyFails, EndBody, LeaveBody
  <2>11. CASE \E n \in Node : SpawnClementine(n)  BY <2>11 DEF SpawnClementine, Spawns
  <2>12. CASE ClementineJoined  BY <2>12 DEF ClementineJoined
  <2>13. CASE \E n \in Node : AskStart(n)  BY <2>13 DEF AskStart
  <2> QED  BY <2>1, <2>2, <2>3, <2>4, <2>5, <2>6, <2>7, <2>8, <2>9, <2>10, <2>11,
              <2>12, <2>13, <1>1 DEF BodyStep
<1>2. CASE ~BodyStep
  <2>1. CASE UNCHANGED <<pc, pos, owned, tx>> /\ (fresh' = fresh \/ TestRuns)
    BY <2>1 DEF TestRuns
  <2>2. CASE pc' \notin Body  BY <2>2 DEF Body
  <2> QED  BY <1>2, <2>1, <2>2, OtherSteps
<1> QED  BY <1>1, <1>2

(* With a Citrea node the failure channel never closes under the body.     *)
LEMMA ChannelOpen ==
  ASSUME HasSender, pc \in Body, Citrea # <<>>
  PROVE  Senders
BY DEF HasSender, Senders, Body

LEMMA OutcomeStep ==
  ASSUME DataOK, Position, HasSender, Outcome, [Next]_vars
  PROVE  Outcome'
<1> USE DEF Outcome
<1>1. CASE BodyStep
  <2> USE DEF GoTo, bodyVars, leftVars, nodeVars, Body
  <2>1. CASE CreateNetwork \/ SpawnInfra \/ InfraReady \/ FundWallets
    BY <2>1 DEF CreateNetwork, SpawnInfra, InfraReady, FundWallets, AfterCitrea
  <2>2. CASE SpawnCitrea \/ BuildCitrea
    BY <2>2 DEF SpawnCitrea, BuildCitrea, AfterCitrea
  <2>6. CASE (\E n \in Node : SpawnClementine(n) \/ AskStart(n)) \/ ClementineJoined
    BY <2>6 DEF SpawnClementine, AskStart, ClementineJoined
  <2>3. CASE ConnectBitcoins \/ WaitForReady \/ SetUpDone
    BY <2>3 DEF ConnectBitcoins, WaitForReady, SetUpDone
  <2>4. CASE TestPasses  BY <2>4 DEF TestPasses, EndBody, LeaveBody
  <2>5. CASE BodyFails  BY <2>5 DEF BodyFails, EndBody, LeaveBody
  <2> QED  BY <2>1, <2>2, <2>3, <2>4, <2>5, <2>6, <1>1 DEF BodyStep
<1>2. CASE Recv \/ Interrupt
  <2>1. ~(RecvClosed /\ Citrea # <<>>)  BY ChannelOpen DEF RecvClosed
  <2> QED  BY <1>2, <2>1 DEF Recv, RecvReport, RecvClosed, Interrupt,
                             EndBody, LeaveBody, Body
<1>3. CASE TestStep \/ NodeStep
  BY <1>3 DEF TestStep, TestStops, TestReaps, TestStarts, TestStarted, NodeStep,
              ProcessExits, Crash, DaemonCreates, DaemonStarts, PanicLine, ReportPanic,
              OpenFails, bodyVars
<1>4. CASE EndingStep
  BY <1>4 DEF EndingStep, StopClementine, StopSequencers, StopRoles, ListContainers,
              RemoveContainer, CleanupDocker, StopPostgres, StopBitcoin, CleanUpAndReturn,
              GoTo, Body
<1>5. CASE Done \/ UNCHANGED vars  BY <1>5 DEF Done, vars
<1> QED  BY <1>1, <1>2, <1>3, <1>4, <1>5 DEF Next

-----------------------------------------------------------------------------
(* The invariant, and the theorems                                         *)

Inv == FlagsOK /\ DataOK /\ Position /\ HasSender /\ Outcome

LEMMA InvHolds == Spec => []Inv
<1>1. Init => Inv
  BY TypeInit DEF Init, Inv, HasSender, Outcome
<1>2. Inv /\ [Next]_vars => Inv'
  BY FlagsStep, DataStep, PositionStep, SenderStep, OutcomeStep DEF Inv
<1> QED  BY <1>1, <1>2, PTL DEF Spec

(* The variables of TestRunner keep their types, whatever the processes do *)
(* and wherever the body is cut short.                                     *)
THEOREM TypeCorrect == Spec => []TypeOK
<1>1. Inv => TypeOK  BY DEF Inv, FlagsOK, DataOK, TypeOK
<1> QED  BY <1>1, InvHolds, PTL

(* TestCaseRunner::run returns Ok only for a test that passed, provided    *)
(* the test has a Citrea node, which keeps the failure channel open.       *)
THEOREM OkMeansPassed == Citrea # <<>> => (Spec => []OkOnlyAfterPass)
<1> SUFFICES ASSUME Citrea # <<>> PROVE Spec => []OkOnlyAfterPass  OBVIOUS
<1>1. Inv => OkOnlyAfterPass  BY DEF Inv, Outcome, OkOnlyAfterPass
<1> QED  BY <1>1, InvHolds, PTL

-----------------------------------------------------------------------------
(* The refinement                                                          *)

(* The refinement mapping of TestRunner!Contract.                          *)
Stage == CASE pc \in Body   -> "running"
           [] pc \in Ending -> "ending"
           [] OTHER         -> "returned"

Asked == {n \in Node : proc[n] = "starting"}
Live == {n \in Node : proc[n] \in {"up", "term"}}

ContractNext == [Contract!Next]_(Contract!vars)

LEMMA StageOf ==
  /\ pc \in Body => Stage = "running"
  /\ pc \in Ending => Stage = "ending"
  /\ pc = "returned" => Stage = "returned"
BY DEF Stage, Body, Ending

(* Steps of the contract, in terms of the mapping.                         *)
LEMMA Same ==
  ASSUME Stage' = Stage, Live' = Live, Asked' = Asked, UNCHANGED <<passed, verdict>>
  PROVE  ContractNext
BY DEF ContractNext, Contract!vars, Stage, Live, Asked

LEMMA Asks ==
  ASSUME NEW n \in Node, Stage = "running", Stage' = Stage, Live' = Live,
         Asked' = Asked \cup {n}, UNCHANGED <<passed, verdict>>
  PROVE  ContractNext
<1>1. Contract!Ask(n)  BY DEF Contract!Ask, Stage, Live, Asked
<1> QED  BY <1>1 DEF ContractNext, Contract!Next

LEMMA Quits ==
  ASSUME NEW n \in Node, Stage' = Stage, Live' = Live \ {n}, Asked' = Asked \ {n},
         UNCHANGED <<passed, verdict>>
  PROVE  ContractNext
<1>1. Contract!Quit(n)  BY DEF Contract!Quit, Stage, Live, Asked
<1> QED  BY <1>1 DEF ContractNext, Contract!Next

LEMMA Launches ==
  ASSUME NEW n \in Node, Stage = "running" \/ n \in Asked, Stage' = Stage,
         Live' = Live \cup {n}, Asked' = Asked \ {n}, UNCHANGED <<passed, verdict>>
  PROVE  ContractNext
<1>1. Contract!Launch(n)  BY DEF Contract!Launch, Stage, Live, Asked
<1> QED  BY <1>1 DEF ContractNext, Contract!Next

LEMMA Decides ==
  ASSUME Stage = "running", Live' = Live, Asked' = Asked,
         \/ Stage' = "ending" /\ passed' = TRUE /\ verdict' = "ok"
         \/ Stage' = "ending" /\ verdict' \in {"err", "panic"} /\ UNCHANGED passed
         \/ Stage' = "returned" /\ verdict' = "err" /\ UNCHANGED passed
  PROVE  ContractNext
<1>1. Contract!Decide  BY DEF Contract!Decide, Stage, Live, Asked
<1> QED  BY <1>1 DEF ContractNext, Contract!Next

LEMMA Returns ==
  ASSUME Stage = "ending", Stage' = "returned", verdict' \in {verdict, "err"},
         UNCHANGED passed, Live' = Live, Asked' = Asked
  PROVE  ContractNext
<1>1. Contract!Return  BY DEF Contract!Return, Stage, Live, Asked
<1> QED  BY <1>1 DEF ContractNext, Contract!Next

(* A signal alone ends no process, and takes back no request.              *)
LEMMA DropsLive ==
  ASSUME DataOK, NEW S, Drop(S)
  PROVE  Live' = Live /\ Asked' = Asked
BY DEF DataOK, Drop, Live, Asked

(* Where the body ends, the contract decides.                              *)
LEMMA EndDecides ==
  ASSUME DataOK, Outcome, pc \in Body, NEW v, EndBody(v),
         \/ v = "ok" /\ framework /\ passed' = TRUE
         \/ v \in {"err", "panic"} /\ UNCHANGED passed
  PROVE  ContractNext
<1>1. Live' = Live /\ Asked' = Asked  BY DropsLive DEF EndBody, LeaveBody
<1>2. Stage = "running"  BY StageOf
<1>3. CASE framework
  <2>1. pc' \in Ending /\ verdict' = v  BY <1>3 DEF EndBody, LeaveBody, Ending
  <2>2. Stage' = "ending"  BY <2>1 DEF Stage, Body, Ending
  <2> QED  BY <1>1, <1>2, <2>1, <2>2, Decides
<1>4. CASE ~framework
  <2>1. pc' = "returned" /\ verdict' = "err"  BY <1>4 DEF EndBody, LeaveBody
  <2>2. Stage' = "returned"  BY <2>1 DEF Stage, Body, Ending
  <2> QED  BY <1>1, <1>2, <1>4, <2>1, <2>2, Decides
<1> QED  BY <1>3, <1>4

(* One process changes its state.                                          *)
LEMMA MovesTo ==
  ASSUME DataOK, NEW n \in Node, NEW s, proc' = [proc EXCEPT ![n] = s]
  PROVE  /\ s = "up" => Live' = Live \cup {n} /\ Asked' = Asked \ {n}
         /\ s = "starting" /\ proc[n] = "created" => Live' = Live /\ Asked' = Asked \cup {n}
         /\ s \notin {"up", "term", "starting"} =>
              Live' = Live \ {n} /\ Asked' = Asked \ {n}
         /\ s = proc[n] \/ (s = "term" /\ proc[n] = "up") => Live' = Live /\ Asked' = Asked
<1>1. proc'[n] = s /\ \A m \in Node : m # n => proc'[m] = proc[m]  BY DEF DataOK
<1> QED  BY <1>1 DEF Live, Asked

LEMMA QuitsAt ==
  ASSUME DataOK, NEW n \in Node, NEW s \in {"asked", "created", "exited", "gone", "crashed"},
         proc' = [proc EXCEPT ![n] = s]
  PROVE  Live' = Live \ {n} /\ Asked' = Asked \ {n}
<1>1. s \notin {"up", "term", "starting"}  OBVIOUS
<1> QED  BY <1>1, MovesTo

(* A process that is told to stop, or whose stop fails.                    *)
LEMMA StopsLive ==
  ASSUME DataOK, NEW n \in Node,
         \/ UNCHANGED proc
         \/ proc' = [proc EXCEPT ![n] = Stopped(n)]
         \/ proc' = [proc EXCEPT ![n] = "exited"] \/ proc' = [proc EXCEPT ![n] = "gone"]
         \/ proc' = [proc EXCEPT ![n] = "crashed"]
  PROVE  \/ Live' = Live /\ Asked' = Asked
         \/ Live' = Live \ {n} /\ Asked' = Asked \ {n}
<1>1. CASE UNCHANGED proc  BY <1>1 DEF Live, Asked
<1>2. CASE proc' = [proc EXCEPT ![n] = Stopped(n)]
  <2>1. \/ Stopped(n) \in {"exited", proc[n]}
        \/ Stopped(n) = "term" /\ proc[n] = "up"
    BY DEF Stopped
  <2> QED  BY <1>2, <2>1, MovesTo
<1>3. CASE \E s \in {"exited", "gone", "crashed"} : proc' = [proc EXCEPT ![n] = s]
  BY <1>3, MovesTo
<1> QED  BY <1>1, <1>2, <1>3

LEMMA BodyContract ==
  ASSUME Inv, BodyStep
  PROVE  ContractNext
<1> USE DEF GoTo, bodyVars, leftVars, nodeVars
<1>0. DataOK /\ Outcome /\ Position  BY DEF Inv
<1>1. CASE CreateNetwork \/ ConnectBitcoins \/ WaitForReady \/ SetUpDone
  <2>1. pc \in Body /\ pc' \in Body /\ UNCHANGED <<proc, passed, verdict>>
    BY <1>1 DEF CreateNetwork, ConnectBitcoins, WaitForReady, SetUpDone, Body
  <2> QED  BY <2>1, Same DEF Stage, Live, Asked, Body, Ending
<1>2. CASE InfraReady \/ FundWallets \/ BuildCitrea \/ ClementineJoined
  <2>1. pc \in Body /\ pc' \in Body /\ UNCHANGED <<proc, passed, verdict>>
    BY <1>2 DEF InfraReady, FundWallets, BuildCitrea, ClementineJoined, AfterCitrea, Body
  <2> QED  BY <2>1, Same DEF Stage, Live, Asked, Body, Ending
<1>3. ASSUME NEW n \in Node, Spawns(n), pc \in Body, pc' \in Body,
             UNCHANGED <<passed, verdict>>
      PROVE  ContractNext
  <2>1. Stage = "running" /\ Stage' = "running"  BY <1>3 DEF Stage, Body, Ending
  <2>2. CASE n \in InDocker
    <3>0. proc' = [proc EXCEPT ![n] = "asked"]  BY <1>3, <2>2 DEF Spawns
    <3>1. Live' = Live \ {n} /\ Asked' = Asked \ {n}  BY <1>0, <3>0, QuitsAt
    <3> QED  BY <1>3, <2>1, <3>1, Quits
  <2>3. CASE n \notin InDocker
    <3>1. Live' = Live \cup {n} /\ Asked' = Asked \ {n}
      BY <1>0, <1>3, <2>3, MovesTo DEF Spawns
    <3> QED  BY <1>3, <2>1, <3>1, Launches
  <2> QED  BY <2>2, <2>3
<1>4. CASE SpawnInfra
  <2>1. Infra[pos] \in Node  BY <1>0, <1>4, Lists DEF SpawnInfra, Position
  <2> QED  BY <1>3, <1>4, <2>1 DEF SpawnInfra, Body
<1>5. CASE SpawnCitrea
  <2>1. Citrea[pos] \in Node  BY <1>0, <1>5, Lists DEF SpawnCitrea, Position
  <2> QED  BY <1>3, <1>5, <2>1 DEF SpawnCitrea, Body
<1>8. ASSUME NEW n \in Node, SpawnClementine(n) PROVE ContractNext
  BY <1>3, <1>8 DEF SpawnClementine, Body
<1>9. ASSUME NEW n \in Node, AskStart(n) PROVE ContractNext
  <2>1. Live' = Live /\ Asked' = Asked \cup {n}  BY <1>0, <1>9, MovesTo DEF AskStart
  <2>2. Stage = "running" /\ Stage' = Stage  BY <1>9, StageOf DEF AskStart, Stage
  <2> QED  BY <1>9, <2>1, <2>2, Asks DEF AskStart
<1>6. CASE TestPasses
  <2>1. pc \in Body /\ framework  BY <1>0, <1>6 DEF TestPasses, Outcome, Body
  <2> QED  BY <1>0, <1>6, <2>1, EndDecides DEF TestPasses
<1>7. CASE BodyFails
  BY <1>0, <1>7, EndDecides DEF BodyFails
<1> QED  BY <1>1, <1>2, <1>4, <1>5, <1>6, <1>7, <1>8, <1>9 DEF BodyStep

LEMMA NodeContract ==
  ASSUME Inv, TestStep \/ NodeStep
  PROVE  ContractNext
<1>0. DataOK  BY DEF Inv
<1>1. PICK n \in Node :
        \/ TestStops(n) \/ TestReaps(n) \/ TestStarts(n) \/ TestStarted(n)
        \/ ProcessExits(n) \/ Crash(n) \/ DaemonCreates(n) \/ DaemonStarts(n)
        \/ PanicLine(n) \/ ReportPanic(n) \/ OpenFails(n)
  BY DEF TestStep, NodeStep
<1>2. Stage' = Stage /\ UNCHANGED <<passed, verdict>>
  BY <1>1 DEF TestStops, TestReaps, TestStarts, TestStarted, ProcessExits, Crash,
              DaemonCreates, DaemonStarts, PanicLine, ReportPanic, OpenFails, Stage
<1>3. CASE TestStarts(n)
  <2>1. CASE n \in docked'
    <3>0. proc' = [proc EXCEPT ![n] = "asked"]  BY <1>3, <2>1 DEF TestStarts
    <3>1. Live' = Live \ {n} /\ Asked' = Asked \ {n}  BY <1>0, <3>0, QuitsAt
    <3> QED  BY <1>2, <3>1, Quits
  <2>2. CASE n \notin docked'
    <3>1. Live' = Live \cup {n} /\ Asked' = Asked \ {n}
      BY <1>0, <1>3, <2>2, MovesTo DEF TestStarts
    <3>2. Stage = "running"  BY <1>3, StageOf DEF TestStarts, TestRuns, Body
    <3> QED  BY <1>2, <3>1, <3>2, Launches
  <2> QED  BY <2>1, <2>2
<1>4. CASE DaemonCreates(n)
  <2>0. proc' = [proc EXCEPT ![n] = "created"]  BY <1>4 DEF DaemonCreates
  <2>1. Live' = Live \ {n} /\ Asked' = Asked \ {n}  BY <1>0, <2>0, QuitsAt
  <2> QED  BY <1>2, <2>1, Quits
<1>5. CASE DaemonStarts(n)
  <2>1. Live' = Live \cup {n} /\ Asked' = Asked \ {n}
    BY <1>0, <1>5, MovesTo DEF DaemonStarts
  <2>2. n \in Asked  BY <1>5 DEF DaemonStarts, Asked
  <2> QED  BY <1>2, <2>1, <2>2, Launches
<1>6. CASE ~(TestStarts(n) \/ DaemonCreates(n) \/ DaemonStarts(n))
  <2>1. \/ Live' = Live /\ Asked' = Asked
        \/ Live' = Live \ {n} /\ Asked' = Asked \ {n}
    BY <1>0, <1>1, <1>6, StopsLive
    DEF TestStops, TestReaps, TestStarted, ProcessExits, Crash, PanicLine, ReportPanic,
        OpenFails
  <2> QED  BY <1>2, <2>1, Same, Quits
<1> QED  BY <1>3, <1>4, <1>5, <1>6

LEMMA EndingContract ==
  ASSUME Inv, EndingStep
  PROVE  ContractNext
<1>0. DataOK  BY DEF Inv
<1>1. ASSUME NEW n \in Node, pc \in Ending, pc' \in Ending, UNCHANGED <<passed, verdict>>,
             \/ UNCHANGED proc
             \/ StopSucceeds(n) \/ StopFails(n)
             \/ proc' = [proc EXCEPT ![n] = "gone"]
      PROVE  ContractNext
  <2>1. \/ Live' = Live /\ Asked' = Asked
        \/ Live' = Live \ {n} /\ Asked' = Asked \ {n}
    BY <1>0, <1>1, StopsLive DEF StopSucceeds, StopFails
  <2>2. Stage' = Stage  BY <1>1 DEF Stage, Body, Ending
  <2> QED  BY <1>1, <2>1, <2>2, Same, Quits
<1>2. ASSUME pc \in Ending, pc' \in Ending, UNCHANGED <<proc, passed, verdict>>
      PROVE  ContractNext
  BY <1>2, Same DEF Stage, Live, Asked, Body, Ending
<1> USE DEF GoTo, bodyVars, leftVars, nodeVars, Ending
<1>3. CASE StopSequencers
  <2>1. CASE pos \in DOMAIN Sequencers /\ Sequencers[pos] \in owned
    <3>1. Sequencers[pos] \in Node  BY <2>1, Lists
    <3> QED  BY <1>1, <1>3, <2>1, <3>1 DEF StopSequencers
  <2>2. CASE ~(pos \in DOMAIN Sequencers /\ Sequencers[pos] \in owned)
    BY <1>2, <1>3, <2>2 DEF StopSequencers
  <2> QED  BY <2>1, <2>2
<1>10. CASE StopClementine
  <2>1. CASE pos \in DOMAIN Clementine /\ Clementine[pos] \in owned
    <3>1. Clementine[pos] \in Node  BY <2>1, Lists
    <3> QED  BY <1>1, <1>10, <2>1, <3>1 DEF StopClementine
  <2>2. CASE ~(pos \in DOMAIN Clementine /\ Clementine[pos] \in owned)
    BY <1>2, <1>10, <2>2 DEF StopClementine
  <2> QED  BY <2>1, <2>2
<1>4. CASE StopRoles
  <2>1. CASE pos \in DOMAIN Roles /\ Roles[pos] \in owned
    <3>1. Roles[pos] \in Node  BY <2>1, Lists
    <3> QED  BY <1>1, <1>4, <2>1, <3>1 DEF StopRoles
  <2>2. CASE ~(pos \in DOMAIN Roles /\ Roles[pos] \in owned)
    BY <1>2, <1>4, <2>2 DEF StopRoles
  <2> QED  BY <2>1, <2>2
<1>5. ASSUME NEW n \in Node, RemoveContainer(n) PROVE ContractNext
  BY <1>1, <1>5 DEF RemoveContainer
<1>6. CASE ListContainers \/ CleanupDocker
  BY <1>2, <1>6 DEF ListContainers, CleanupDocker
<1>7. CASE StopPostgres
  <2>1. CASE Postgres # <<>>
    <3>1. Postgres[1] \in Node  BY <2>1, Lists
    <3> QED  BY <1>1, <1>7, <2>1, <3>1 DEF StopPostgres
  <2>2. CASE Postgres = <<>>  BY <1>2, <1>7, <2>2 DEF StopPostgres
  <2> QED  BY <2>1, <2>2
<1>8. CASE StopBitcoin
  <2>1. CASE pos \in DOMAIN Bitcoins
    <3> DEFINE b == Bitcoins[pos]
    <3>1. b \in Node  BY <2>1, Lists
    <3>2. CASE StopSucceeds(b) \/ UNCHANGED proc
      BY <1>1, <1>8, <2>1, <3>1, <3>2 DEF StopBitcoin
    <3>3. CASE proc[b] = "up" /\ proc' = [proc EXCEPT ![b] = "term"]
      <4>1. Live' = Live /\ Asked' = Asked  BY <1>0, <3>1, <3>3, MovesTo
      <4> QED  BY <1>8, <2>1, <4>1, Same DEF StopBitcoin, Stage, Body
    <3> QED  BY <1>8, <2>1, <3>2, <3>3 DEF StopBitcoin
  <2>2. CASE pos \notin DOMAIN Bitcoins  BY <1>2, <1>8, <2>2 DEF StopBitcoin
  <2> QED  BY <2>1, <2>2
<1>9. CASE CleanUpAndReturn
  <2>1. Stage = "ending" /\ Stage' = "returned"
    BY <1>9 DEF CleanUpAndReturn, Stage, Body
  <2>2. Live' = Live /\ Asked' = Asked  BY <1>0, <1>9, DropsLive DEF CleanUpAndReturn
  <2> QED  BY <1>9, <2>1, <2>2, Returns DEF CleanUpAndReturn
<1> QED  BY <1>3, <1>4, <1>5, <1>6, <1>7, <1>8, <1>9, <1>10 DEF EndingStep

(* `run` implements RunContract when the test has a Citrea node: nothing   *)
(* is asked to start once the outcome is decided, what comes up later was  *)
(* asked for before, "ok" is decided by the test alone, and afterwards the *)
(* outcome only gets worse.                                                *)
THEOREM RunImplementsContract == Citrea # <<>> => (Spec => ImplementsContract)
<1> SUFFICES ASSUME Citrea # <<>> PROVE Spec => ImplementsContract  OBVIOUS
<1>1. Init => Contract!Init
  <2> SUFFICES ASSUME Init PROVE Contract!Init  OBVIOUS
  <2>1. Stage = "running"  BY DEF Init, Stage, Body, Ending
  <2>2. Live = {} /\ Asked = {}  BY DEF Init, Live, Asked
  <2> QED  BY <2>1, <2>2 DEF Init, Contract!Init, Stage, Live, Asked
<1>2. Inv /\ [Next]_vars => [Contract!Next]_(Contract!vars)
  <2> SUFFICES ASSUME Inv, [Next]_vars PROVE ContractNext  BY DEF ContractNext
  <2>0. DataOK /\ Outcome /\ HasSender  BY DEF Inv
  <2>1. CASE Recv \/ Interrupt
    <3>1. ~RecvClosed  BY <2>0, ChannelOpen DEF RecvClosed
    <3> QED  BY <2>0, <2>1, <3>1, EndDecides DEF Recv, RecvReport, Interrupt, nodeVars
  <2>2. CASE Done \/ UNCHANGED vars
    BY <2>2, Same DEF Done, vars, Stage, Live, Asked
  <2> QED  BY <2>1, <2>2, BodyContract, NodeContract, EndingContract DEF Next
<1> QED  BY <1>1, <1>2, InvHolds, PTL DEF Spec, ImplementsContract, Contract!Spec
=============================================================================
