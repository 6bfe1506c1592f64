SPECIFICATION Spec
CONSTANTS
  firm = firm
  boss = boss
  call = call
  guest = guest
  phone = phone
  site = site
  hour = hour
  q1 = q1
  q2 = q2
  Rows = {firm, boss, call, guest, phone, site, hour}
  KindOf <- Tables
  Seed <- Started
  Requests = {q1, q2}
  MaxRequests = 3
  MaxFaults = 1
SYMMETRY RequestSymmetry
CHECK_DEADLOCK FALSE
INVARIANTS TypeOK NoDangling AuditAccounts
