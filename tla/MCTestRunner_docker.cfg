\* A bitcoin node, a sequencer and a full node as containers; the test may restart each
\* of them, the Citrea nodes also as local processes.
SPECIFICATION Spec
CONSTANTS
  b1 = b1  b2 = b2  pg = pg  s1 = s1  s2 = s2  fn = fn  v1 = v1  a1 = a1
  Node = {b1, s1, fn}
  Bitcoins <- OneBitcoin
  Postgres <- NoNodes
  Sequencers <- OneSequencer
  Roles <- FullNodeOnly
  Verifiers <- NoNodes
  Operators <- NoNodes
  Aggregator <- NoNodes
  DockerBitcoin = TRUE
  DockerCitrea = TRUE
  DockerClementine = FALSE
  StopNodesOnExit = TRUE
INVARIANTS TypeOK LeftoversExplained LeavesNoContainer
PROPERTIES ServersOutliveClients ImplementsContract
