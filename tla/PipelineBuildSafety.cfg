SPECIFICATION Spec
CONSTANTS
  MaxPartitions = 2
  Inputs <- AllInputs
INVARIANTS GroupsAreThePlan SourceReadsItsSink JoinProbesItsTable StatesExist LookupsInRange EveryTableProbed
CHECK_DEADLOCK FALSE
