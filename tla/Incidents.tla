------------------------------ MODULE Incidents ------------------------------
(***************************************************************************)
(* shared/incidents.py: the Store that the alert service's two consumer    *)
(* threads (Linkers) use to open or extend incidents and that the API's    *)
(* concurrent requests (Operators) use to move, assign and resolve them.   *)
(* Both connection pools autocommit, so every SQL statement is a step of   *)
(* its own and a client may die between two of them.  Columns no statement *)
(* decides on (titles, notes, assignee, times other than resolved_at) are  *)
(* left out.                                                               *)
(***************************************************************************)
EXTENDS Naturals

CONSTANTS Alerts, Machines,
          NoAlert,            \* no alert in hand
          MachineOf,          \* the machine of each alert
          Linkers, Operators, \* clients; each runs one call at a time
          MaxIncidents,       \* bound: rows of the incidents table
          MaxCrashes          \* bound: clients dying in mid-call

ASSUME IncidentAssumptions ==
  /\ NoAlert \notin Alerts /\ Machines # {}
  /\ MachineOf \in [Alerts -> Machines]
  /\ Linkers \cap Operators = {}
  /\ MaxIncidents \in Nat /\ MaxCrashes \in Nat

Ids == 1..MaxIncidents
Clients == Linkers \cup Operators

VARIABLES
  status,    \* incidents.status, "none" for a row not inserted yet
  machine,   \* incidents.machine_id
  dated,     \* ids whose resolved_at is set
  trail,     \* incident_events: the audit trail of each incident
  pc,        \* per client: the next statement of its call
  at,        \* per client: the incident its call is about
  to,        \* per client: the status its call asks for
  alert,     \* per linker: the alert it links
  link,      \* how open_or_attach ended for each alert
  ceased,    \* history, per alert: incidents no longer active since its SELECT
  torn,      \* history: ids whose status changed but whose client died before logging it
  crashes    \* history: clients that died

table  == <<status, machine, dated>>
client == <<pc, at, to, alert>>
vars   == <<status, machine, dated, trail, pc, at, to, alert, link, ceased,
            torn, crashes>>

Active == {"OPEN", "ACKNOWLEDGED", "INVESTIGATING"}
Statuses == Active \cup {"RESOLVED", "CLOSED"}

Lifecycle == INSTANCE IncidentLifecycle WITH Ids <- Ids, status <- status

IsValidTransitionUnchecked(from, new) == from \in Statuses
is_valid_transition(from, new) == new \in Lifecycle!ValidTransitions[from]

\* The partial unique index idx_incidents_one_active_per_machine.
ActiveFor(m) == {i \in Ids : status[i] \in Active /\ machine[i] = m}

Rows == {i \in Ids : status[i] # "none"}

\* A row of incident_events is reduced to what it says happened.
Became(new) == [type |-> "STATUS_CHANGE", value |-> new]
Attached(a) == [type |-> "ALERT_ATTACHED", value |-> a]
Assignment  == [type |-> "ASSIGNMENT", value |-> "user"]

\* _log_event.
LogEvent(i, e) == trail' = [trail EXCEPT ![i] = @ \cup {e}]

\* The client goes on to its next statement, about the same incident.
Goto(c, step) == pc' = [pc EXCEPT ![c] = step] /\ UNCHANGED <<at, to, alert>>

\* The call returns or raises.
Return(c) ==
  /\ pc' = [pc EXCEPT ![c] = "idle"]
  /\ at' = [at EXCEPT ![c] = 0]
  /\ to' = [to EXCEPT ![c] = "none"]
  /\ alert' = [alert EXCEPT ![c] = NoAlert]

Init ==
  /\ status = [i \in Ids |-> "none"]
  /\ machine \in [Ids -> {CHOOSE m \in Machines : TRUE}]
  /\ dated = {}
  /\ trail = [i \in Ids |-> {}]
  /\ pc = [c \in Clients |-> "idle"]
  /\ at = [c \in Clients |-> 0]
  /\ to = [c \in Clients |-> "none"]
  /\ alert = [c \in Clients |-> NoAlert]
  /\ link = [a \in Alerts |-> "new"]
  /\ ceased = [a \in Alerts |-> {}] /\ torn = {} /\ crashes = 0

-----------------------------------------------------------------------------
(* open_or_attach. *)

SelectActive(c, a) ==
  /\ pc[c] = "idle" /\ link[a] = "new"
  /\ link' = [link EXCEPT ![a] = "running"]
  /\ alert' = [alert EXCEPT ![c] = a]
  /\ \/ \E i \in ActiveFor(MachineOf[a]) :
          /\ at' = [at EXCEPT ![c] = i]
          /\ pc' = [pc EXCEPT ![c] = "log_attached"]
     \/ /\ ActiveFor(MachineOf[a]) = {}
        /\ pc' = [pc EXCEPT ![c] = "insert"]
        /\ UNCHANGED at
  /\ UNCHANGED <<table, trail, to, ceased, torn, crashes>>

LogAttached(c) ==
  /\ pc[c] = "log_attached"
  /\ LogEvent(at[c], Attached(alert[c]))
  /\ link' = [link EXCEPT ![alert[c]] = "attached"]
  /\ Return(c)
  /\ UNCHANGED <<table, ceased, torn, crashes>>

\* INSERT ... ON CONFLICT (machine_id) WHERE status IN (...) DO NOTHING.
ConflictsUnindexed(m) == FALSE
Conflicts(m) == ActiveFor(m) # {}

InsertIncident(c) ==
  /\ pc[c] = "insert" /\ ~Conflicts(MachineOf[alert[c]])
  /\ \E i \in Ids \ Rows :
       /\ \A j \in Ids \ Rows : i <= j
       /\ status' = [status EXCEPT ![i] = "OPEN"]
       /\ machine' = [machine EXCEPT ![i] = MachineOf[alert[c]]]
       /\ at' = [at EXCEPT ![c] = i]
  /\ pc' = [pc EXCEPT ![c] = "log_opened"]
  /\ UNCHANGED <<dated, trail, to, alert, link, ceased, torn, crashes>>

InsertConflicts(c) ==
  /\ pc[c] = "insert" /\ Conflicts(MachineOf[alert[c]])
  /\ Goto(c, "reselect")
  /\ UNCHANGED <<table, trail, link, ceased, torn, crashes>>

LogOpened(c) ==
  /\ pc[c] = "log_opened"
  /\ LogEvent(at[c], Became("OPEN"))
  /\ link' = [link EXCEPT ![alert[c]] = "opened"]
  /\ Return(c)
  /\ UNCHANGED <<table, ceased, torn, crashes>>

\* Lost the insert race: return the winner's incident, or raise RuntimeError.
RaceOutcomeAlwaysRaises(m) == "failed"
RaceOutcomeReturnsNone(m) == IF ActiveFor(m) # {} THEN "joined" ELSE "none"
RaceOutcome(m) == IF ActiveFor(m) # {} THEN "joined" ELSE "failed"

Reselect(c) ==
  /\ pc[c] = "reselect"
  /\ link' = [link EXCEPT ![alert[c]] = RaceOutcome(MachineOf[alert[c]])]
  /\ Return(c)
  /\ UNCHANGED <<table, trail, ceased, torn, crashes>>

-----------------------------------------------------------------------------
(* transition, assign and resolve, behind the API's existence check. *)

\* transition reads current_status and checks the move.
LoadStatus(c, i, new) ==
  /\ is_valid_transition(status[i], new)
  /\ pc' = [pc EXCEPT ![c] = "update"]
  /\ at' = [at EXCEPT ![c] = i]
  /\ to' = [to EXCEPT ![c] = new]
  /\ UNCHANGED alert

\* An invalid move raises and changes nothing.
Transition(c, i, new) ==
  /\ pc[c] = "idle" /\ i \in Rows
  /\ LoadStatus(c, i, new)
  /\ UNCHANGED <<table, trail, link, ceased, torn, crashes>>

\* The index refuses to reactivate an incident next to another active one.
ReopenRefusedUnindexed(i, new) == FALSE
ReopenRefused(i, new) == new \in Active /\ ActiveFor(machine[i]) \ {i} # {}

\* The columns that go with the new status.
DatesOnlyOnClose(new) == new = "CLOSED"
Dates(new) == new = "RESOLVED"

\* The calls of open_or_attach that see the incident cease to be active.
Ceases(i, new, a) ==
  status[i] \in Active /\ new \notin Active /\ link[a] = "running"

UpdateStatus(c) ==
  /\ pc[c] = "update" /\ ~ReopenRefused(at[c], to[c])
  /\ status' = [status EXCEPT ![at[c]] = to[c]]
  /\ ceased' = [a \in Alerts |-> ceased[a] \cup
                 {i \in {at[c]} : Ceases(i, to[c], a)}]
  /\ dated' = dated \cup (IF Dates(to[c]) THEN {at[c]} ELSE {})
  /\ Goto(c, "log_change")
  /\ UNCHANGED <<machine, trail, link, torn, crashes>>

UpdateRefused(c) ==
  /\ pc[c] = "update" /\ ReopenRefused(at[c], to[c])
  /\ Return(c)
  /\ UNCHANGED <<table, trail, link, ceased, torn, crashes>>

LogChangeDropped(c) ==
  /\ pc[c] = "log_change"
  /\ Return(c)
  /\ UNCHANGED <<table, trail, link, ceased, torn, crashes>>

LogChange(c) ==
  /\ pc[c] = "log_change"
  /\ LogEvent(at[c], Became(to[c]))
  /\ Return(c)
  /\ UNCHANGED <<table, link, ceased, torn, crashes>>

\* assign writes assigned_to, which no decision reads, and logs it.
Assign(c, i) ==
  /\ pc[c] = "idle" /\ i \in Rows
  /\ at' = [at EXCEPT ![c] = i]
  /\ pc' = [pc EXCEPT ![c] = "log_assignment"]
  /\ UNCHANGED <<table, trail, to, alert, link, ceased, torn, crashes>>

LogAssignment(c) ==
  /\ pc[c] = "log_assignment"
  /\ LogEvent(at[c], Assignment)
  /\ Return(c)
  /\ UNCHANGED <<table, link, ceased, torn, crashes>>

\* resolve writes resolution_notes, which no decision reads, in a statement of
\* its own, and then asks for the transition.
Resolve(c, i) ==
  /\ pc[c] = "idle" /\ i \in Rows
  /\ at' = [at EXCEPT ![c] = i]
  /\ pc' = [pc EXCEPT ![c] = "resolve"]
  /\ UNCHANGED <<table, trail, to, alert, link, ceased, torn, crashes>>

ResolveTransition(c) ==
  /\ pc[c] = "resolve"
  /\ \/ LoadStatus(c, at[c], "RESOLVED")
     \/ ~is_valid_transition(status[at[c]], "RESOLVED") /\ Return(c)
  /\ UNCHANGED <<table, trail, link, ceased, torn, crashes>>

-----------------------------------------------------------------------------
\* The client's process or connection dies between two statements.
Crash(c) ==
  /\ pc[c] # "idle" /\ crashes < MaxCrashes
  /\ crashes' = crashes + 1
  /\ torn' = torn \cup (IF pc[c] \in {"log_change", "log_opened"}
                        THEN {at[c]} ELSE {})
  /\ link' = [a \in Alerts |-> IF a = alert[c] THEN "lost" ELSE link[a]]
  /\ Return(c)
  /\ UNCHANGED <<table, trail, ceased>>

LinkerStep(c) ==
  \/ \E a \in Alerts : SelectActive(c, a)
  \/ LogAttached(c)
  \/ InsertIncident(c) \/ InsertConflicts(c)
  \/ LogOpened(c) \/ Reselect(c)

OperatorStep(c) ==
  \/ \E i \in Ids, new \in Statuses : Transition(c, i, new)
  \/ UpdateStatus(c) \/ UpdateRefused(c) \/ LogChange(c)
  \/ \E i \in Ids : Assign(c, i)
  \/ LogAssignment(c)
  \/ \E i \in Ids : Resolve(c, i)
  \/ ResolveTransition(c)

Next ==
  \/ \E c \in Linkers : LinkerStep(c)
  \/ \E c \in Operators : OperatorStep(c)
  \/ \E c \in Clients : Crash(c)

Spec == Init /\ [][Next]_vars

-----------------------------------------------------------------------------
(* Properties. *)

Steps == {"idle", "log_attached", "insert", "log_opened", "reselect",
          "update", "log_change", "log_assignment", "resolve"}

AuditEvents ==
  [type : {"STATUS_CHANGE"}, value : Statuses]
    \cup [type : {"ALERT_ATTACHED"}, value : Alerts] \cup {Assignment}

TypeOK ==
  /\ status \in [Ids -> Statuses \cup {"none"}]
  /\ machine \in [Ids -> Machines]
  /\ dated \subseteq Rows
  /\ trail \in [Ids -> SUBSET AuditEvents]
  /\ pc \in [Clients -> Steps]
  /\ at \in [Clients -> Ids \cup {0}]
  /\ to \in [Clients -> Statuses \cup {"none"}]
  /\ alert \in [Clients -> Alerts \cup {NoAlert}]
  /\ link \in [Alerts -> {"new", "running", "opened", "attached", "joined",
                          "failed", "lost"}]
  /\ ceased \in [Alerts -> SUBSET Rows]
  /\ torn \subseteq Ids /\ crashes \in Nat

\* incidents.py:120-126, 186-191.  Two clients never leave one machine with two
\* active incidents, whether they race to open one or to reopen an old one.
OneActivePerMachine ==
  \A i, j \in Ids : status[i] \in Active /\ status[j] \in Active
                    /\ machine[i] = machine[j] => i = j

\* incidents.py:185-191.  A resolved or closed incident carries resolved_at,
\* although the move was decided from a status read in an earlier statement.
ResolvedIsDated ==
  \A i \in Ids : status[i] \in {"RESOLVED", "CLOSED"} => i \in dated

\* incidents.py:144-165.  open_or_attach gives an alert up only when, between
\* its SELECT and its second SELECT, an operator resolved or closed an incident
\* of the same machine that was active: losing the race to insert is not enough,
\* and neither is a resolution before the call.
FailureNeedsResolution ==
  \A a \in Alerts :
    link[a] = "failed" => \E i \in ceased[a] : machine[i] = MachineOf[a]

\* incidents.py:138, 168, 192.  An incident's status stands in its audit trail,
\* unless a client is about to log it, or died before it did.
AboutToLog(i) ==
  \E c \in Clients : at[c] = i /\ pc[c] \in {"log_change", "log_opened"}

StatusTraced ==
  \A i \in Rows :
    Became(status[i]) \in trail[i] \/ AboutToLog(i) \/ i \in torn

\* With the API's calls one at a time the store implements the lifecycle.
ImplementsLifecycle == Lifecycle!Spec

\* incidents.py:78-79 says "CLOSED is terminal".
ClosedIsTerminal ==
  [][\A i \in Ids : status[i] = "CLOSED" => status'[i] = "CLOSED"]_vars
=============================================================================
