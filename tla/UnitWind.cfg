SPECIFICATION ResultsSpec
CONSTANTS
  Athletes = {a1}
  NoAthlete = nobody
  Calls = {c1, c2}
  Codes = {"DNS"}
  MaxMark = 1
  MaxWind = 2
  MaxRows = 1
  MaxConflicts = 0
  MaxAnnounce = 1
SYMMETRY ResultsSymmetry
PROPERTIES
  WindDisagreesOnlyLate
