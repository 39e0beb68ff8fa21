SPECIFICATION FairSpec
CONSTANTS
  Messages = {m1, bad1, bad2}
  Invalid = {bad1, bad2}
  Workers = {w1, w2}
  QueueCapacity = 1
  MaxInflight = 2
  IdSpace = 8
  Faults = {"topic", "dlq_topic"}
  MaxLosses = 1
  MaxStops = 1
INVARIANTS TypeOK AckedIsRecorded
PROPERTY EventuallySettled
CHECK_DEADLOCK FALSE
