\* Two tests that start their clusters at the same time, without a docker client.
CHECK_DEADLOCK FALSE  \* every test ends
SPECIFICATION FairSpec
CONSTANTS
  t1 = t1  t2 = t2  v1 = v1  v2 = v2  a1 = a1  w1 = w1
  Test = {t1, t2}
  Node = {v1, v2, a1, w1}
  Batches <- TwoClusters
  Role <- Roles
  Parts = 2
  None = None
INVARIANTS TypeOK WholeClient DownloadsDoNotRace LeavesOnlyWhatWasCut
PROPERTIES StartEnds
