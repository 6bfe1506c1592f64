SPECIFICATION FairSpec
CONSTANTS
  c1 = c1
  i1 = i1
  i2 = i2
  job = job
  api = api
  NoItem = NoItem
  Items = {c1, i1, i2}
  Kind <- SerialKinds
  Order <- SerialOrder
  ContactOf <- SerialContact
  Seed <- Unmirrored
  Syncers = {job, api}
  Overlap = FALSE
  PageSize = 1
  MaxSyncs = 3
  MaxMoves = 4
  MaxFaults = 1
INVARIANT TypeOK
PROPERTIES CompletedIsFresh MirrorSpec Converges
