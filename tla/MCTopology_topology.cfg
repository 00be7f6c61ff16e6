\* Every mix of docker and local nodes.
CHECK_DEADLOCK FALSE  \* a test need not restart anything
SPECIFICATION Spec
CONSTANTS
  MaxBitcoins = 2
  MaxSequencers = 2
  MaxVerifiers = 2
  MaxOperators = 1
  Optional = {"batch-prover", "light-client-prover", "full-node"}
  MaxRestarts = 3
INVARIANTS TypeOK LaunchedAfterPeers LocalCitreaReachesPeers WorksCharacterized ContainersKeepPeers
