\* A test without a Citrea node, such as BasicSyncTest.
SPECIFICATION Spec
CONSTANTS
  b1 = b1  b2 = b2  pg = pg  s1 = s1  s2 = s2  fn = fn  v1 = v1  a1 = a1
  Node = {b1}
  Bitcoins <- OneBitcoin
  Postgres <- NoNodes
  Sequencers <- NoNodes
  Roles <- NoNodes
  Verifiers <- NoNodes
  Operators <- NoNodes
  Aggregator <- NoNodes
  DockerBitcoin = TRUE
  DockerCitrea = FALSE
  DockerClementine = FALSE
  StopNodesOnExit = TRUE
INVARIANT OkOnlyAfterPass
