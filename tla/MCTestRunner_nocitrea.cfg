\* No Citrea node, so that the failure channel may close under the body: two bitcoin
\* nodes and postgres as containers, Clementine as local processes.
SPECIFICATION Spec
CONSTANTS
  b1 = b1  b2 = b2  pg = pg  s1 = s1  s2 = s2  fn = fn  v1 = v1  a1 = a1
  Node = {b1, b2, pg, v1, a1}
  Bitcoins <- TwoBitcoins
  Postgres <- OnePostgres
  Sequencers <- NoNodes
  Roles <- NoNodes
  Verifiers <- OneVerifier
  Operators <- NoNodes
  Aggregator <- OneAggregator
  DockerBitcoin = TRUE
  DockerCitrea = FALSE
  DockerClementine = FALSE
  StopNodesOnExit = TRUE
INVARIANT LeftoversExplained
PROPERTY ServersOutliveClients
