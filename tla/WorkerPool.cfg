SPECIFICATION FairSpec
CONSTANTS
  NumWorkers = 1
  Tasks = {t1, t2, t3}
  NoTask = NoTask
  Stealing = TRUE
  StealThreshold = 0
  MaxIdle = 2
INVARIANTS TypeOK TaskInOnePlace BoundedOvertaking JoinedWorkersAreQuiet
PROPERTIES ImplementsTaskPool AwakeWorkerServes
CHECK_DEADLOCK FALSE
