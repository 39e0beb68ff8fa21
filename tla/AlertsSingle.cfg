SPECIFICATION FairSpec
CONSTANTS
  Replicas = {r1}
  Keys = {k1, k2}
  NoKey = none
  RuleSeverity <- FirstHigh
  MaxOffset = 2
  Poison = {2}
  MaxAlerts = 2
  MaxFaults = 1
INVARIANTS OneUnresolvedPerKey LevelMatchesSeverity UnannouncedExplained
PROPERTIES EscalationIsCurrent EscalatesToTop
CHECK_DEADLOCK FALSE
