SPECIFICATION Spec
CONSTANTS
  Parallelism = 2
  HashBits = 4
  radix_bits = 1
  BuildRowsPerTable = 2
  Inputs <- AllJoins
  NoBitmap = NoBitmap
  NoRow = NoRow
INVARIANTS TagsCoverEntries JoinExact
CHECK_DEADLOCK FALSE
