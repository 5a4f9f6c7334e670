SPECIFICATION FieldSpec
CONSTANTS
  Athletes = {a1}
  NoAthlete = nobody
  Calls = {c1, c2}
  MaxMark = 3
  Trials = 3
  CutAfter = 0
  CutTo = 1
  MaxHeights = 3
  Progressions <- Rising
  OneFirstForm = TRUE
  MaxCaptures = 2
  MaxVersion = 2
  MaxSets = 3
  MaxCorrected = 1
  Announceable = TRUE
SYMMETRY FieldSymmetry
INVARIANTS
  FieldTypeOK
  ResultsFollowTrials

  
