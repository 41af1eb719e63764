SPECIFICATION RunnerSpec
CONSTANTS
  Bars <- MCBars
  Horizon = 4
  SlotsPerDay = 3
  WindowStart = 0
  WindowEnd = 1
  EntryEnd = 1
  BlockedDays = {}
  HalfBand = 8
  RecenterThreshold = 6
  Persistence = 1
  Cooldown = 0
  MaxLayers = 1
  ConfiguredTargets = 1
  DistinctTargets = 1
  HoldsOvernight = TRUE
  BlocksReentry = FALSE
  DailyAdditions = FALSE
  SkipsGapDays = FALSE
  IndividualExits = FALSE
  Contracts = {c1}
  Modes = {TRUE}
  StartsFlat = FALSE
  SeedSlots = 0
  MaxLate = 0
  MaxCrashes = 1
  MaxFaults = 2
PROPERTIES
  RestoresLastEntry
CHECK_DEADLOCK FALSE
