SPECIFICATION FairSpec
CONSTANTS
  Bars <- MCBars
  Horizon = 17
  SlotsPerDay = 9
  WindowStart = 1
  WindowEnd = 7
  EntryEnd = 4
  BlockedDays = {}
  HalfBand = 8
  RecenterThreshold = 6
  Persistence = 2
  Cooldown = 5
  MaxLayers = 2
  ConfiguredTargets = 3
  DistinctTargets = 3
  HoldsOvernight = FALSE
  BlocksReentry = TRUE
  DailyAdditions = FALSE
  SkipsGapDays = TRUE
  IndividualExits = FALSE
INVARIANTS
  TypeOK
  ExposureMatchesState
  WithinCap
  PrimaryAnchors
  FlatOutsideWindow
  PendingRebuildEarned
  NoStaleDrift
PROPERTIES
  ActionsExplainLayers
  RebuildsKeepCooldown
  TakeProfitEndsSession
  DriftEnds
CHECK_DEADLOCK FALSE
