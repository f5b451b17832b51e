SPECIFICATION Spec
CONSTANTS
  Callers = {c1, c2}
  Services = {"face_liveness", "face_details"}
  Life = 3
  Skew = 2
  TimeoutMs = 3
  Interval = 1
  MaxAttempts = 2
  Latency = 1
  Horizon = 1
SYMMETRY CallerSymmetry
INVARIANTS
  TypeOK
  TokenLive
  ResultComplete
  EndsInTime
CHECK_DEADLOCK FALSE
