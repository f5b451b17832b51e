SPECIFICATION Spec
CONSTANTS
  Subs = {s1, s2, s3}
  Plans <- MCPlans
  Requested <- MCRequested
  Priced = {"pro", "scale"}
  Faults = {"down", "lost"}
SYMMETRY SubSymmetry
INVARIANTS
  TypeOK
  PlanFollowsStripe
  PaidPlanWasPaid
CHECK_DEADLOCK FALSE
