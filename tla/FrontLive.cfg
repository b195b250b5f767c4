CONSTANTS
  MaxPaddingN <- Even
  ChanCap = 1
  Env <- Winding
SPECIFICATION FairSpec
PROPERTY Delivery
PROPERTY EndsUnlessAbandoned
CHECK_DEADLOCK FALSE
