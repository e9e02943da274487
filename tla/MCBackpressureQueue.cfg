\* Three threads: every combination of drain() calls and a monitor that forgets the queue.
SPECIFICATION FairSpec
CONSTANTS
  Threads = {t1, t2, t3}
  NoThread = NoThread
  MaxSize = 3
  HighMark = 3
  LowMark = 2
  Environments = {{}, {"drain"}, {"churn"}, {"drain", "churn"}}
  MaxEnqueues = 2
  MaxDrops = 1
INVARIANTS
  TasksConserved
  PressureRight
PROPERTIES
  PressureSettles
CHECK_DEADLOCK FALSE
