SPECIFICATION Spec
CONSTANTS
  NULL = NULL
  N = 3
  Inputs <- MCInputs
INVARIANTS MergedInOrder Rearranged
CHECK_DEADLOCK FALSE
