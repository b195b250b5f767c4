CONSTANTS
  SendCap = 2
  WireCap = 1
  Env <- Interleaved
SPECIFICATION Spec
INVARIANTS AgreementUnlessRaced NoLossInside
PROPERTY ImplementsRelay
CHECK_DEADLOCK FALSE
