\* A local bitcoin node and a cluster of two local sequencers.
SPECIFICATION Spec
CONSTANTS
  b1 = b1  b2 = b2  pg = pg  s1 = s1  s2 = s2  fn = fn  v1 = v1  a1 = a1
  Node = {b1, s1, s2}
  Bitcoins <- OneBitcoin
  Postgres <- NoNodes
  Sequencers <- TwoSequencers
  Roles <- NoNodes
  Verifiers <- NoNodes
  Operators <- NoNodes
  Aggregator <- NoNodes
  DockerBitcoin = FALSE
  DockerCitrea = FALSE
  DockerClementine = FALSE
  StopNodesOnExit = TRUE
INVARIANT StopsItsProcesses
