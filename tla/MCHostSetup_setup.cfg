\* Two tests that start together, in one process or in two.
CHECK_DEADLOCK FALSE  \* every test ends
SPECIFICATION FairSpec
CONSTANTS
  t1 = t1  t2 = t2  p1 = p1  p2 = p2
  Test = {t1, t2}
  Port = {p1, p2}
  DbName = {0, 1}
  None = None
INVARIANTS TypeOK CertsComplete OwnBitcoin OwnDatabases
PROPERTIES CertsEnd
