SPECIFICATION Spec
CONSTANTS
  NULL = NULL
  Garbage = Garbage
  Percent = 100
  Underscore = 101
  FloatAbove <- MCFloatAbove
  FloatBelow <- MCFloatBelow
  StepBelow <- MCStepBelow
  ColumnType <- MCColumnType
  Inputs <- MCSqlInputs
INVARIANT AssertionsHold
CHECK_DEADLOCK FALSE
