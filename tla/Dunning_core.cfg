SPECIFICATION Spec
CONSTANTS
  i1 = i1
  i2 = i2
  q1 = q1
  q2 = q2
  Job = Job
  NoRun = NoRun
  Invoices = {i1}
  Due <- DueDates
  Threshold <- ShortThresholds
  Cutoff = 1
  Requests = {prepare}
  Senders = {q1, q2}
  LastDay = 3
  MaxPrepares = 1
  MaxMissed = 1
  MaxCrashes = 1
SYMMETRY SenderSymmetry
CHECK_DEADLOCK FALSE
INVARIANTS TypeOK AnnouncedOnce LevelWasSent
PROPERTIES DraftsAscend LedgerSpec
