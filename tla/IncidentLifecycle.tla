-------------------------- MODULE IncidentLifecycle --------------------------
(***************************************************************************)
(* What the incident state machine promises, incident by incident: an      *)
(* incident opens once, moves only along the table of valid transitions,   *)
(* and a closed one never moves again.                                     *)
(***************************************************************************)
CONSTANT Ids
VARIABLE status

Active == {"OPEN", "ACKNOWLEDGED", "INVESTIGATING"}
Statuses == Active \cup {"RESOLVED", "CLOSED"}

\* _VALID_TRANSITIONS.
ValidTransitions ==
  [OPEN          |-> {"ACKNOWLEDGED", "INVESTIGATING", "RESOLVED"},
   ACKNOWLEDGED  |-> {"INVESTIGATING", "RESOLVED"},
   INVESTIGATING |-> {"RESOLVED"},
   RESOLVED      |-> {"CLOSED", "INVESTIGATING"},
   CLOSED        |-> {}]

Init == status = [i \in Ids |-> "none"]

Open(i) ==
  /\ status[i] = "none"
  /\ status' = [status EXCEPT ![i] = "OPEN"]

Move(i) ==
  /\ status[i] \in Statuses
  /\ \E to \in ValidTransitions[status[i]] : status' = [status EXCEPT ![i] = to]

Next == \E i \in Ids : Open(i) \/ Move(i)

Spec == Init /\ [][Next]_status
=============================================================================
