SPECIFICATION FairSpec
CONSTANTS
  c1 = c1
  i1 = i1
  i2 = i2
  job = job
  api = api
  NoItem = NoItem
  Items = {c1, i1, i2}
  Kind <- SerialKinds
  Order <- SerialOrder
  ContactOf <- SerialContact
  Seed <- NewContact
  Syncers = {job, api}
  Overlap = TRUE
  PageSize = 2
  MaxSyncs = 3
  MaxMoves = 2
  MaxFaults = 0
CHECK_DEADLOCK FALSE
PROPERTIES SyncsEnd SecondRowNeedsOverlap
