SPECIFICATION Spec
CONSTANTS
  Alerts = {a1, a2}
  NoAlert = none
  Machines = {m1}
  MachineOf <- SameMachine
  Linkers = {l1, l2}
  Operators = {o1}
  MaxIncidents = 2
  MaxCrashes = 1
INVARIANTS TypeOK OneActivePerMachine ResolvedIsDated FailureNeedsResolution StatusTraced
PROPERTY ImplementsLifecycle
CHECK_DEADLOCK FALSE
