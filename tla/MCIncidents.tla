----------------------------- MODULE MCIncidents -----------------------------
(* TLC instances of Incidents: every alert is about the same machine.      *)
EXTENDS Incidents

SameMachine == [a \in Alerts |-> CHOOSE m \in Machines : TRUE]
=============================================================================
