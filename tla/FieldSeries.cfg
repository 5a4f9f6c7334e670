SPECIFICATION FieldSpec
CONSTANTS
  Athletes = {a1, a2}
  NoAthlete = nobody
  Calls = {c1}
  MaxMark = 2
  Trials = 3
  CutAfter = 1
  CutTo = 1
  MaxHeights = 2
  Progressions <- TwoHeights
  OneFirstForm = TRUE
  MaxCaptures = 3
  MaxVersion = 1
  MaxSets = 1
  MaxCorrected = 1
  Announceable = TRUE
SYMMETRY FieldSymmetry
INVARIANTS
  StandingsShowResults
  RanksCountTheBetter
  CutIsFair
