SPECIFICATION FairSpec
CONSTANTS
  Clicks = {k1, k2, k3}
  MaxMounts = 2
INVARIANTS
  TypeOK
  OneVerification
  ToldTruly
PROPERTY CameraGoesOff
CHECK_DEADLOCK FALSE
