SPECIFICATION EngineSpec
CONSTANTS
  Bars <- MCBars
  Horizon = 13
  SlotsPerDay = 5
  WindowStart = 1
  WindowEnd = 3
  EntryEnd = 3
  BlockedDays = {1}
  HalfBand = 8
  RecenterThreshold = 6
  Persistence = 2
  Cooldown = 3
  MaxLayers = 2
  ConfiguredTargets = 2
  DistinctTargets = 2
  HoldsOvernight = FALSE
  BlocksReentry = FALSE
  DailyAdditions = FALSE
  SkipsGapDays = FALSE
  IndividualExits = FALSE
  Gates = 1
INVARIANTS
  GatedExposure
CHECK_DEADLOCK FALSE
