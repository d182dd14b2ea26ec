SPECIFICATION Spec
CONSTANTS
  Worker = {w1, w2}
  Task = {t1, t2}
  MaxSize = 2
  NoTask = NoTask
  Nobody = Nobody
SYMMETRY WorkerSymmetry
INVARIANTS TypeOK EachTaskInOnePlace ShrinkNeverBlocks
PROPERTIES ImplementsTaskPool
CHECK_DEADLOCK FALSE
