\* Everything runs as a local process: a bitcoin node, postgres (always a container),
\* a cluster of two sequencers and the aggregator.
SPECIFICATION FairSpec
CONSTANTS
  b1 = b1  b2 = b2  pg = pg  s1 = s1  s2 = s2  fn = fn  v1 = v1  a1 = a1
  Node = {b1, pg, s1, s2, a1}
  Bitcoins <- OneBitcoin
  Postgres <- OnePostgres
  Sequencers <- TwoSequencers
  Roles <- NoNodes
  Verifiers <- NoNodes
  Operators <- NoNodes
  Aggregator <- OneAggregator
  DockerBitcoin = FALSE
  DockerCitrea = FALSE
  DockerClementine = FALSE
  StopNodesOnExit = TRUE
INVARIANTS OkOnlyAfterPass LeftoversExplained
PROPERTIES PanicEndsRun
