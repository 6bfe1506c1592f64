SPECIFICATION Spec
CONSTANTS
  api1 = api1
  api2 = api2
  api3 = api3
  job = job
  i1 = i1
  r1 = r1
  r2 = r2
  vat = vat
  Requests = {api1, api2, api3, job}
  Process <- Processes
  VatIds = {vat}
  Postings = {i1, r1, r2}
  Kind <- Kinds
  Date <- Dates
  Priced = {r1, r2}
  Years = {2025}
  LastDay = 1
  SecondsADay = 2
  MaxRequests = 3
  MaxFaults = 1
CHECK_DEADLOCK FALSE
INVARIANTS TypeOK FilesMatchRows
