CONSTANTS
  h1 = h1
  h2 = h2
  c1 = c1
  c2 = c2
  c3 = c3
  NoHello = NoHello
  Conn <- MCConn
  Hello <- MCHello
  Epoch <- MCEpoch
  Longest = {h1}
  TicksPerHour = 2
  MaxClock = 6
  MaxFilterSize = 2
  MaxStalls = 1
SYMMETRY Symmetric
SPECIFICATION Spec
CHECK_DEADLOCK FALSE
INVARIANTS AcceptedOnceUnlessForgotten RefusedOnlyIfSeen FilterInStep
