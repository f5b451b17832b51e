SPECIFICATION Spec
CONSTANTS
  Requests = {r1, r2, r3, r4}
  Plans = {"free", "pro"}
  Quota <- MCQuota
  MaxMonth = 1
  Faults = {"tx", "crash"}
SYMMETRY RequestSymmetry
INVARIANTS
  TypeOK
  QuotaHeld
  UsageTruthful
  RefusedWhenFull
  ConsentBacked
CHECK_DEADLOCK FALSE
