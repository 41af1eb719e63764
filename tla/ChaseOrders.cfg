SPECIFICATION FairSpec
CONSTANTS
  Sides = {"BUY", "SELL"}
  Candidates <- MCCandidates
  Quantity = 2
  Steps = 3
  Fraction = 20
  DebitRatio = 115
INVARIANTS
  OneLiveOrder
  
  ChasedWithinMaxDebit
  BoundedOverfill
PROPERTIES
  ChasesTowardsMarket
  KeepsPromise
  Answered
CHECK_DEADLOCK FALSE
