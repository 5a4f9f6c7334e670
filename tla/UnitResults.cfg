SPECIFICATION ResultsSpec
CONSTANTS
  Athletes = {a1}
  NoAthlete = nobody
  Calls = {c1, c2}
  Codes = {"DNS"}
  MaxMark = 1
  MaxWind = 0
  MaxRows = 1
  MaxConflicts = 1
  MaxAnnounce = 2
SYMMETRY ResultsSymmetry
INVARIANTS
  ResultsTypeOK
PROPERTIES
  AnnouncementClosesTheList
  OfficialNeedsEscalation
  ImportLosesNothing
