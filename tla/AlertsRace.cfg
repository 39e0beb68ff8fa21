SPECIFICATION Spec
CONSTANTS
  Replicas = {r1, r2}
  Keys = {k1}
  NoKey = none
  RuleSeverity <- AllHigh
  MaxOffset = 2
  Poison = {}
  MaxAlerts = 2
  MaxFaults = 2
INVARIANTS TypeOK OneOpenPerKey CommittedIsAlerted
SYMMETRY Symmetry
CHECK_DEADLOCK FALSE
