\* Two nodes of one kind in one test, such as the sequencers of a cluster, and
\* one of a second test on another thread, in docker.
SPECIFICATION Spec
CONSTANTS
  n1 = n1  n2 = n2  n3 = n3  t1 = t1  t2 = t2
  Node = {n1, n2, n3}
  Test = {t1, t2}
  TestOf <- TwoTests
  IndexSize = 2
  DockerCitrea = TRUE
  MaxStarts = 2
  MaxVersion = 1
INVARIANTS TypeOK KeepsState OwnStorage ChildUsesLocalUrls
PROPERTIES KeepsPreviousDatadirs
SYMMETRY SameTest
