------------------------------ MODULE MCWindows ------------------------------
(* A TLC instance of TimeWindows: the versions the rule may take.          *)
EXTENDS TimeWindows

CONSTANT d1

Rule(condition, threshold, window, device) ==
  [condition |-> condition, threshold |-> threshold, window |-> window,
   device |-> device, low |-> 1, high |-> threshold]

MCVersions ==
  {Rule("ANOMALY_COUNT", 2, 1, Any), Rule("ANOMALY_COUNT", 3, 3, d1),
   Rule("OUTSIDE_RANGE", Null, 0, Any), Rule("GREATER_THAN", 1, 0, d1),
   Rule("LESS_THAN", 2, 0, Any)}
=============================================================================
