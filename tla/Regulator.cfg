CONSTANTS
  MaxBudget = 1
  ChanCap = 1
  Env <- Connections
SPECIFICATION Spec
INVARIANT BudgetKept
 
PROPERTY EndsUnlessAbandoned
CHECK_DEADLOCK FALSE
