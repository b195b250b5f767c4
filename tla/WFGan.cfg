CONSTANTS
  Pairs <- Drawn
  Tol = 20
  SigCap = 2
  Ahead = 1
  Env <- Generated
SPECIFICATION Spec
INVARIANT StaleZeros
PROPERTY DeliveryUnlessRaced
CHECK_DEADLOCK FALSE
