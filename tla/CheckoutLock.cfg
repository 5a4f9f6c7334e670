SPECIFICATION LockSpec
CONSTANTS
  Officials = {o1, office}
  Office = office
  Devices = {d1, d2}
  Calls = {c1, c2}
  ReleaseRouted = TRUE
  MaxVersion = 4
INVARIANTS
  LockTypeOK
  StampsAgree
PROPERTIES
  OnlyOfficeTakesOver
