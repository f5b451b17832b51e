SPECIFICATION Spec
CONSTANTS
  NaN = NaN
  Unknown = Unknown
  Estimates <- MCEstimates
  Scores = {0, 79, 80, 95}
  BirthDates <- MCBirthDates
  BadDates = {bad}
  Today <- MCToday
  RequiredAges <- MCRequiredAges
  Margin = 3
  LivenessThreshold = 80
  MinFaceMatch = 80
INVARIANT AuditJustified
CHECK_DEADLOCK FALSE
