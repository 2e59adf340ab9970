SPECIFICATION Spec
CONSTANTS
  CHUNK_SIZE = 3
  WordSize = 64
  ScanRows = 5
  ResultRows = 8
  Parallelism = 2
  Inputs <- AllPipelines
INVARIANTS EveryRowSunk ClosedOnce NeverCrashes
PROPERTIES PipelineEnds
CHECK_DEADLOCK FALSE
