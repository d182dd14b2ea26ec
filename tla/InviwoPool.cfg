SPECIFICATION MCSpec
CONSTANTS
  Worker = {"w1", "w2"}
  Task = {"t1", "t2"}
  NoTask = "no task"
  Nobody = "nobody"
  MaxSize = 2
  Sizes = {0, 2}
  Blocking = {}
  Follow <- NoFollow
INVARIANTS AppTypeOK WaitForPoolWaits QueuedTaskHasWorker NeverPopsEmptyQueue
PROPERTIES FrontedReturns EveryTaskRuns
CHECK_DEADLOCK FALSE
