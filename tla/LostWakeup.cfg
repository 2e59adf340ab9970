SPECIFICATION FairSpec
CONSTANTS
  NumWorkers = 1
  Tasks = {t1, t2}
  NoTask = NoTask
  Stealing = FALSE
  StealThreshold = 3
  MaxIdle = 0
PROPERTY SubmittedTaskRuns
CHECK_DEADLOCK FALSE
