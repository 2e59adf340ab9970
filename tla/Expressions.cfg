SPECIFICATION Spec
CONSTANTS
  NULL = NULL
  Garbage = Garbage
  Percent = 100
  Underscore = 101
  FloatAbove <- MCFloatAbove
  FloatBelow <- MCFloatBelow
  StepBelow <- MCStepBelow
  ColumnType <- MCColumnType
  Inputs <- MCInputs
INVARIANTS FilterExact ProjectExact AbortsExplained
CHECK_DEADLOCK FALSE
