SPECIFICATION Spec
CONSTANTS
  Networks = {n1}
  Configurations = {{"QueuedDispatch"}, {"QueuedDispatch", "KeepOldResults"}, {"QueuedDispatch", "DelayDispatch"}}
  JobCounts = {1}
  MaxDispatch = 2
INVARIANTS SettledCount
CHECK_DEADLOCK FALSE
