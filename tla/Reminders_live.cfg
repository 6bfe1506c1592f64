SPECIFICATION FairSpec
CONSTANTS
  o1 = o1
  o2 = o2
  r1 = r1
  r2 = r2
  NoDate = NoDate
  NoKey = NoKey
  Obligations = {o1, o2}
  Mandatory = {o1}
  AnchorDated = {}
  AnchorGated = {}
  Recurrence <- SparseRecurrence
  Lead <- ShortLead
  LookBack = 4
  Year = 10
  AnchorDates = {}
  Mondays = {}
  Runs = {r1, r2}
  Requests = {}
  Outcomes = {"ok"}
  LastDay = 5
  Horizon = 6
  MaxRuns = 2
  MaxMissed = 1
  MaxCrashes = 1
  PauseDays = {}
CHECK_DEADLOCK FALSE
PROPERTIES RunsEnd OverdueEscalates
