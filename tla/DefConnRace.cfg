CONSTANTS
  SendCap = 2
  WireCap = 1
  Env <- RaceOnly
SPECIFICATION Spec
INVARIANT Agreement
CHECK_DEADLOCK FALSE
