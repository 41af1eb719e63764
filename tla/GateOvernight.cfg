SPECIFICATION EngineSpec
CONSTANTS
  Bars <- MCBars
  Horizon = 13
  SlotsPerDay = 5
  WindowStart = 1
  WindowEnd = 3
  EntryEnd = 3
  BlockedDays = {1}
  HalfBand = 8
  RecenterThreshold = 6
  Persistence = 2
  Cooldown = 3
  MaxLayers = 3
  ConfiguredTargets = 1
  DistinctTargets = 1
  HoldsOvernight = TRUE
  BlocksReentry = FALSE
  DailyAdditions = TRUE
  SkipsGapDays = FALSE
  IndividualExits = TRUE
  Gates = 2
INVARIANTS
  GatedExposure
  LedgerFollowsBook
  ReportExplainsBook
PROPERTIES
  OneBatchPerSession
  KeepsBook
CHECK_DEADLOCK FALSE
