SPECIFICATION FairSpec
CONSTANTS
  Groups <- MCGroups
  Root = "collect"
  Deps <- MCDeps
  Partitions <- MCPartitions
  Sink <- MCSink
  Parallelism = 2
  Workers = {0, 1, 2}
  NoGroup = NoGroup
  NoTask = NoTask
INVARIANTS CountIsExact InputsComplete SecondPhaseSeesLocals
           SortSeesAllRuns NothingLeftBehind WaitersBlockNobody
PROPERTIES ImplementsGroupSchedule GroupCompletes
CHECK_DEADLOCK FALSE
