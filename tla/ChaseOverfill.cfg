SPECIFICATION Spec
CONSTANTS
  Sides = {"BUY", "SELL"}
  Candidates <- MCCandidates
  Quantity = 1
  Steps = 2
  Fraction = 20
  DebitRatio = 115
INVARIANTS
  TradesQuantity
CHECK_DEADLOCK FALSE
