SPECIFICATION Spec
CONSTANTS
  o1 = o1
  o2 = o2
  r1 = r1
  r2 = r2
  NoDate = NoDate
  NoKey = NoKey
  Obligations = {o1, o2}
  Mandatory = {o1}
  AnchorDated = {o2}
  AnchorGated = {}
  Recurrence <- DenseRecurrence
  Lead <- DayAhead
  LookBack = 2
  Year = 10
  AnchorDates = {2}
  Mondays = {1}
  Runs = {r1, r2}
  Requests = {q1}
  Outcomes = {"ok", "failed"}
  LastDay = 3
  Horizon = 4
  MaxRuns = 2
  MaxMissed = 0
  MaxCrashes = 1
  PauseDays = {2}
SYMMETRY RunSymmetry
CHECK_DEADLOCK FALSE
INVARIANTS TypeOK RecordedWasSent
PROPERTIES RecordedIsFinal AcknowledgedIsSilent OnlyEscalationReopens CommitCoversWindow DueDateAnnounced
