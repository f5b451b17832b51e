SPECIFICATION FairSpec
CONSTANTS
  s1 = s1
  v1 = v1
  v2 = v2
  d1 = d1
  d2 = d2
  Sessions = {s1}
  Verifies = {v1}
  SessionOf <- MCSessionOf
  Submits = {d1}
  TxOf <- MCTxOf
  Workers = {w1, w2}
  Nobody = Nobody
  NoJob = NoJob
  MaxAttempts = 2
  MaxStalls = 1
  MaxDispatch = 1
  Faults <- Outages
INVARIANT ProcessedAtMostOnce
PROPERTIES
  ImplementsContract
  EveryJobSettles
CHECK_DEADLOCK FALSE
