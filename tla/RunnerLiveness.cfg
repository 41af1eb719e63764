SPECIFICATION FairRunnerSpec
CONSTANTS
  Bars <- MCBars
  Horizon = 5
  SlotsPerDay = 6
  WindowStart = 0
  WindowEnd = 4
  EntryEnd = 1
  BlockedDays = {}
  HalfBand = 8
  RecenterThreshold = 6
  Persistence = 1
  Cooldown = 0
  MaxLayers = 1
  ConfiguredTargets = 1
  DistinctTargets = 1
  HoldsOvernight = FALSE
  BlocksReentry = FALSE
  DailyAdditions = FALSE
  SkipsGapDays = FALSE
  IndividualExits = FALSE
  Contracts = {c1}
  Modes = {TRUE}
  StartsFlat = FALSE
  SeedSlots = 0
  MaxLate = 0
  MaxCrashes = 0
  MaxFaults = 2
PROPERTIES
  OrphansEnd
CHECK_DEADLOCK FALSE
