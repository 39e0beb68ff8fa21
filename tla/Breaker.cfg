SPECIFICATION FairSpec
CONSTANTS
  Threads = {t1, t2, t3}
  Threshold = 2
  MaxAttempts = 2
  MaxOutages = 2
INVARIANTS TypeOK ClosedIffBelowThreshold HalfOpenHasTrial
PROPERTY Recovers
