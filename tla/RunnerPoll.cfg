SPECIFICATION RunnerSpec
CONSTANTS
  Bars <- MCShortBars
  Horizon = 3
  SlotsPerDay = 3
  WindowStart = 0
  WindowEnd = 1
  EntryEnd = 1
  BlockedDays = {}
  HalfBand = 8
  RecenterThreshold = 6
  Persistence = 1
  Cooldown = 0
  MaxLayers = 2
  ConfiguredTargets = 2
  DistinctTargets = 2
  HoldsOvernight = FALSE
  BlocksReentry = FALSE
  DailyAdditions = FALSE
  SkipsGapDays = FALSE
  IndividualExits = FALSE
  Contracts = {c1, c2}
  Modes = {TRUE, FALSE}
  StartsFlat = FALSE
  SeedSlots = 0
  MaxLate = 1
  MaxCrashes = 1
  MaxFaults = 1
SYMMETRY MCSymmetry
INVARIANTS
  RunnerTypeOK
  DivergenceIsNoticed
  OrphansAwaitClose
  NewLayersUntracked
  FileIsCurrent
PROPERTIES
  HaltStopsOrders
  DifferenceOnlyCloses
CHECK_DEADLOCK FALSE
