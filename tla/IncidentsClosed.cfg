SPECIFICATION Spec
CONSTANTS
  Alerts = {a1}
  NoAlert = none
  Machines = {m1}
  MachineOf <- SameMachine
  Linkers = {l1}
  Operators = {o1, o2}
  MaxIncidents = 1
  MaxCrashes = 0
PROPERTY ClosedIsTerminal
CHECK_DEADLOCK FALSE
