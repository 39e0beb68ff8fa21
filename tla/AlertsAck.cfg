SPECIFICATION Spec
CONSTANTS
  Replicas = {r1}
  Keys = {k1}
  NoKey = none
  RuleSeverity <- AllWarning
  MaxOffset = 1
  Poison = {}
  MaxAlerts = 1
  MaxFaults = 0
PROPERTY AckStopsEscalation
CHECK_DEADLOCK FALSE
