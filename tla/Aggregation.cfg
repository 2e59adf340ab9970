SPECIFICATION Spec
CONSTANTS
  NULL = NULL
  N = 3
  AGG_TABLE_BUCKET_NUMS = 2
  AVG_BUCKET_LOAD_THRESHOLD = 1
  Inputs <- MCInputs
INVARIANTS GroupsExact TableConsistent
CHECK_DEADLOCK FALSE
