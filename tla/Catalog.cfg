SPECIFICATION Spec
CONSTANTS
  Null = Null
  Tables = {lineitem}
  Schemas = {narrow, wide}
  Partitions = 2
  Tasks = {1, 2}
  Jobs <- MCJobs
  chunk_size = 2
  FileNames = 8
  MaxLoads = 2
  MaxHandles = 2
  MaxFaults = 1
  MaxCrashes = 1
  MaxDeletes = 1
SYMMETRY MCSymmetry
INVARIANTS ChunksDurable ScanReadsTheDisk RowsCounted
CHECK_DEADLOCK FALSE
