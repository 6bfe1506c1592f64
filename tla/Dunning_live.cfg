SPECIFICATION FairSpec
CONSTANTS
  i1 = i1
  i2 = i2
  q1 = q1
  q2 = q2
  Job = Job
  NoRun = NoRun
  Invoices = {i1, i2}
  Due <- StaggeredDates
  Threshold <- PromptThresholds
  Cutoff = 0
  Requests = {prepare}
  Senders = {}
  LastDay = 2
  MaxPrepares = 1
  MaxMissed = 1
  MaxCrashes = 1
CHECK_DEADLOCK FALSE
PROPERTIES OverdueDrafted
