CONSTANTS
  MaxPaddingN <- Uneven
  ChanCap = 1
  Env <- Interleaved
SPECIFICATION Spec
INVARIANTS DummiesBounded FollowsUnlessRaced
CHECK_DEADLOCK FALSE
