SPECIFICATION FairSpec
CONSTANTS
  i1 = i1
  i2 = i2
  p1 = p1
  p2 = p2
  a1 = a1
  Job = Job
  Invoices = {i1, i2}
  QuarterOf <- Quarterly
  Gross <- Amounts
  QuarterLength = 4
  LastDay = 4
  Lead = 1
  JobDays = {3}
  Prepares = {p1, p2}
  Approvals = {a1}
  MaxCrashes = 1
CHECK_DEADLOCK FALSE
INVARIANTS TypeOK StampedWhenApproved
PROPERTIES OnlyPrepareReopens ApprovedFiguresKept PreparedInTheEnd
