SYMMETRY OfficeSymmetry
CHECK_DEADLOCK FALSE
SPECIFICATION HeatSpec
CONSTANTS
  a = a
  none = none
  Entries = {1, 2, 3, 4}
  Rank <- ByNumber
  ClubMaps <- TwoClubMaps
  NoClub = none
  AtStart = {1, 2, 3}
  Offices = {o1, o2}
  o1 = o1
  o2 = o2
  Requests <- TwoRequests
  MaxUnits = 2
  MaxGenerations = 2
  MaxOverrides = 1
  MaxChanges = 1
INVARIANTS
  HeatTypeOK
  ReshuffleNeverCollides
  HeatsAreFair
PROPERTIES
  OverridesStand
  SeatsThePool
