SPECIFICATION WindowsSpec
CONSTANTS
  Times = {0, 1, 2, 3, 4}
  Values = {1, 2}
  Windows = {1, 3}
  MaxReadings = 3
  MaxFlushes = 1
  Devices = {d1, d2}
  d1 = d1
  NoRule = norule
  Any = any
  Null = null
  Versions <- MCVersions
  MaxAnomalies = 4
  MaxEdits = 2
INVARIANTS AggregatesAreExact CountIsExact
CHECK_DEADLOCK FALSE
