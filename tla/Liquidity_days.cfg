SPECIFICATION Spec
CONSTANTS
  FirstYear = 2024
  FirstWeekday = 0
  LastDay = 800
  Fixed <- BavarianHolidays
  Moveable <- EasterHolidays
  Anchors <- AnchorDays
  Rules <- CatalogRules
  Ledgers <- SmallLedgers
  SnapshotDays <- AskedDays
  Horizon = 540
  WarningDays = 45
  NoAmount = NoAmount
CHECK_DEADLOCK FALSE
INVARIANTS TypeOK DueDatesRight PeriodsTile SnapshotAddsUp
