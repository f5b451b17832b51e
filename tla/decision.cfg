SPECIFICATION Spec
CONSTANTS
  NaN = NaN
  Unknown = Unknown
  Estimates <- MCEstimates
  Scores <- MCScores
  BirthDates <- MCBirthDates
  BadDates = {bad}
  Today <- MCToday
  RequiredAges <- MCRequiredAges
  Margin = 3
  LivenessThreshold = 80
  MinFaceMatch = 80
INVARIANTS
  TypeOK
  ApprovalJustified
  RejectionJustified
  OlderNeverWorse
CHECK_DEADLOCK FALSE
