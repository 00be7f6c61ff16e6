\* Two runs of a node, each a child or a container.
CHECK_DEADLOCK FALSE  \* a node is started MaxRuns times at most
SPECIFICATION FairSpec
CONSTANTS
  MaxRuns = 2
  MaxPieces = 3
INVARIANTS TypeOK ReportsAreFresh MissesExplained
PROPERTIES ImplementsWatch PanicReported
