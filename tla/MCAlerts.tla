------------------------------- MODULE MCAlerts -------------------------------
(* TLC instances of Alerts: the severity of every key's rule.              *)
EXTENDS Alerts, TLC

AllWarning == [k \in Keys |-> "WARNING"]
AllHigh    == [k \in Keys |-> "HIGH"]
FirstHigh  == [k \in Keys |-> IF k = CHOOSE h \in Keys : TRUE
                              THEN "HIGH" ELSE "WARNING"]

Symmetry == Permutations(Replicas)
=============================================================================
