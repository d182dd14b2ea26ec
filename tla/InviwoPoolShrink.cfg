SPECIFICATION AppSpec
CONSTANTS
  Worker = {w1, w2}
  Task = {t1, t2}
  MaxSize = 2
  Sizes = {1, 2}
  Follow <- NoFollow
  Blocking = {}
  NoTask = NoTask
  Nobody = Nobody
INVARIANT QueuedTaskHasWorker
CHECK_DEADLOCK FALSE
