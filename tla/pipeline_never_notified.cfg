SPECIFICATION Spec
CONSTANTS
  s1 = s1
  v1 = v1
  v2 = v2
  d1 = d1
  d2 = d2
  Sessions = {s1}
  Verifies = {v1}
  SessionOf <- MCSessionOf
  Submits = {}
  TxOf <- MCTxOf
  Workers = {w1, w2}
  Nobody = Nobody
  NoJob = NoJob
  MaxAttempts = 3
  MaxStalls = 1
  MaxDispatch = 1
  Faults <- CrashOnly
INVARIANT CompletedNotified
CHECK_DEADLOCK FALSE
