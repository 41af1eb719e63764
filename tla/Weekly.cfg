SPECIFICATION BacktestSpec
CONSTANTS
  Weeks <- MCWeeks
  SessionDays <- MCDays
  Slots <- MCSlots
  EventWeeks = {2}
  Prices = {3, 10, 15}
  Centers = {10, 13}
  EntryFirstDay = 0
  EntryLastDay = 1
  EntryFirstSlot = 1
  EntryLastSlot = 2
  ExitDay = 4
  ExitSlot = 2
  DteBuffer = 4
  MaxHold = 5
  MinHold = 4
  Spacing = 4
  Rounding = 2
  Tolerance = 4
  MaxActive = 5
  MaxAdjustments = 1
INVARIANTS
  HeldInItsWeek
  LedgerFollows
  AdjustmentsLimited
PROPERTIES
  HoldsItsMinimum
  OneCampaignPerWeek
CHECK_DEADLOCK FALSE
