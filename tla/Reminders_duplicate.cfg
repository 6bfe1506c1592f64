SPECIFICATION Spec
CONSTANTS
  o1 = o1
  o2 = o2
  r1 = r1
  r2 = r2
  NoDate = NoDate
  NoKey = NoKey
  Obligations = {o1, o2}
  Mandatory = {o1}
  AnchorDated = {o2}
  AnchorGated = {}
  Recurrence <- SparseRecurrence
  Lead <- ShortLead
  LookBack = 3
  Year = 10
  AnchorDates = {1}
  Mondays = {}
  Runs = {r1}
  Requests = {}
  Outcomes = {"ok"}
  LastDay = 3
  Horizon = 4
  MaxRuns = 3
  MaxMissed = 0
  MaxCrashes = 0
  PauseDays = {}
CHECK_DEADLOCK FALSE
INVARIANT OneMessagePerLabel
