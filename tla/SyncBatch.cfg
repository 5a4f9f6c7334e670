SPECIFICATION SyncSpec
CONSTANTS
  Officials = {o1}
  Office = office
  Devices = {d1}
  Calls = {k1}
  ReleaseRouted = FALSE
  MaxVersion = 1
  Ops = {p1, p2}
  Cells = {c1, c2}
  Registered = {c1}
  Raws = {"6.1", "6.10", "5.99", "?"}
  Valid = {"6.1", "6.10", "5.99"}
  Requests = {h1}
  Writers = {}
  Resolvers = {r1, r2}
  Items = {i1, i2}
  MaxBatch = 2
  MaxAttempt = 2
  Canon <- Spelling
SYMMETRY SyncSymmetry
INVARIANTS
  AppliedItemsWereStored
PROPERTIES
  ImplementsDelivery
