SPECIFICATION Spec
CONSTANTS
  MaxInt = 4
  Depth = 2
  LongSkips = FALSE
  EOFWithData = TRUE
INVARIANTS FailsOnlyIfShort
CHECK_DEADLOCK FALSE
