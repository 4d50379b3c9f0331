SPECIFICATION Spec
CONSTANTS
  MaxInt = 4
  Depth = 3
  LongSkips = FALSE
  EOFWithData = FALSE
INVARIANTS TypeOK ScopesNest LimitersAgree FailsOnlyIfShort AcceptedExactly
PROPERTIES CallReturns RefinesCursor
CHECK_DEADLOCK FALSE
