SPECIFICATION FairSpec
CONSTANTS
  e1 = e1
  e2 = e2
  e3 = e3
  temp = temp
  hum = hum
  Events = {e1, e2, e3}
  Malformed = bad
  Metrics = {temp, hum}
  Log <- MCLog
  MetricOf <- MCMetricOf
  Value <- MCValue
  Low = 0
  High = 10
  MinSamples = 2
  ForestThreshold = 62
  MinTraining = 1
  BufferSize = 2
  SubsampleSize = 2
  ZScores = {0, 13}
  ForestScores = {70}
  MaxChanges = 1
  MaxFaults = 2
  MaxRestarts = 1
INVARIANTS TypeOK FoldedOnce LoopDiesOnlyAfterRemoval AnomalyIsGrounded
PROPERTIES ImplementsConsumerGroup KeepsUp
CHECK_DEADLOCK FALSE
