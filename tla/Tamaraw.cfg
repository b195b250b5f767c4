CONSTANTS
  NSeg = 3
  ChanCap = 2
  Workload <- Mixed
SPECIFICATION FairSpec
INVARIANTS WholeTrains AgreementUnlessRaced
PROPERTIES ImplementsRelay PaddingEnds Delivery
