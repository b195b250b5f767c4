CONSTANTS
  SendCap = 3
  WireCap = 1
  Env <- Winding
SPECIFICATION FairSpec
PROPERTIES Delivery EverythingEnds
CHECK_DEADLOCK FALSE
