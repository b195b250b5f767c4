CONSTANTS
  NDummy = 1
  Env <- All
SPECIFICATION FairSpec
INVARIANTS OneTurn EndLosesNothing
PROPERTIES Delivery EndsUnlessKicked
CHECK_DEADLOCK FALSE
