SPECIFICATION Spec
CONSTANTS
  MaxInt = 4
  Depth = 3
  LongSkips = TRUE
  EOFWithData = TRUE
INVARIANTS SkipFailsOnlyIfShort
CHECK_DEADLOCK FALSE
