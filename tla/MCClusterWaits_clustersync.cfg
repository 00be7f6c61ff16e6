\* Two sequencers that wait_for_sync waits for.
CHECK_DEADLOCK FALSE  \* the call returns
SPECIFICATION Spec
CONSTANTS
  N = 2
  MaxHeight = 1
INVARIANT FailsOnlyOutOfSync
