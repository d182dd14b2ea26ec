SPECIFICATION FairSpec
CONSTANTS
  Worker = {w1, w2}
  Task = {t1}
  MaxSize = 1
  NoTask = NoTask
  Nobody = Nobody
PROPERTY DestructorReturns
CHECK_DEADLOCK FALSE
