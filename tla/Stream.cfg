SPECIFICATION FairSpec
CONSTANTS
  Events = {e1, e2}
  Malformed = bad
  MaxLog = 2
  MaxRestarts = 1
  MaxExpiries = 1
  Faults = {"redis", "influx", "processed_topic", "dlq_topic", "commit"}
INVARIANTS TypeOK LossIsExplained StoredFirst FoldedOncePerClaim
PROPERTY ReachesTheEnd
CHECK_DEADLOCK FALSE
