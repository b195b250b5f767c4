CONSTANTS
  c1 = c1
  c2 = c2
  c3 = c3
  Method = {m1, m2}
  Conn <- MCConn
  MaxSignals = 2
SPECIFICATION FairSpec
CHECK_DEADLOCK FALSE
INVARIANTS CountMatches IdleExit
PROPERTIES ParentDeathExits DrainExits
