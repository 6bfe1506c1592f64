SPECIFICATION Spec
CONSTANTS
  daily_check = daily_check
  dunning_daily = dunning_daily
  lexware_sync = lexware_sync
  reload_obligations = reload_obligations
  Jobs = {daily_check, dunning_daily, lexware_sync, reload_obligations}
  Period <- Periods
  Offset <- Offsets
  Grace <- Graces
  Pausable = {daily_check}
  Announcing = {dunning_daily}
  Reload = reload_obligations
  Ids = {"a", "b"}
  Texts = {"old", "new"}
  Files <- FileChoices
  First <- FirstFile
  Horizon = 4
  MaxDeaths = 1
  MaxStalls = 2
  MaxFailures = 1
  MaxPauses = 1
  MaxEdits = 1
CHECK_DEADLOCK FALSE
INVARIANTS TypeOK LostOnlyWhenDown CatalogInSync
PROPERTIES StartedOnce GraceHoldsWhileUp
