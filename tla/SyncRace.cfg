SPECIFICATION SyncSpec
CONSTANTS
  Officials = {o1}
  Office = office
  Devices = {d1}
  Calls = {k1}
  ReleaseRouted = FALSE
  MaxVersion = 2
  Ops = {p1}
  Cells = {c1}
  Registered = {c1}
  Raws = {"6.10", "5.99"}
  Valid = {"6.10", "5.99"}
  Requests = {h1, h2}
  Writers = {w1}
  Resolvers = {}
  Items = {i1, i2}
  MaxBatch = 1
  MaxAttempt = 2
  Canon <- Spelling
SYMMETRY SyncSymmetry
INVARIANTS
  SyncTypeOK
  AnswersAreBacked
  LedgerIsTrue
  ReplayWritesOnce
PROPERTIES
  StaleBatchNeverWrites
