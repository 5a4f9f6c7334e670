CHECK_DEADLOCK FALSE
SPECIFICATION ProgressSpec
CONSTANTS
  Entries = {1, 2, 3, 4}
  HeatOf <- TwoByTwo
  AthleteOrder <- ByNumber
  Overridden = {4}
  Marks = {1, 2}
  AtFirst = {1, 2}
  TrackRules <- TwoTrackRules
  FieldRules <- TwoStandards
  ManualCodes = {"qD"}
  Offices = {o1}
  MaxCorrections = 1
  MaxDecisions = 1
  MaxGenerations = 1
  MaxCalls = 2
INVARIANTS
  ProgressTypeOK
  QualifiersAreFair
PROPERTY
  DecisionsStand
