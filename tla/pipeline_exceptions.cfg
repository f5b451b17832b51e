SPECIFICATION Spec
CONSTANTS
  s1 = s1
  v1 = v1
  v2 = v2
  d1 = d1
  d2 = d2
  Sessions = {s1}
  Verifies = {v1, v2}
  SessionOf <- MCSessionOf
  Submits = {d1, d2}
  TxOf <- MCTxOf
  Workers = {w1}
  Nobody = Nobody
  NoJob = NoJob
  MaxAttempts = 2
  MaxStalls = 1
  MaxDispatch = 2
  Faults <- Exceptions
SYMMETRY SubmitSymmetry
INVARIANTS
  TypeOK
  SessionJudgedOnce
  WebhookBacked
  AuditLeadsRecord
  EscalationGrounded
  DiscardTrue
  MediaAccounted
CHECK_DEADLOCK FALSE
