--------------------------- MODULE IncidentsProofs ---------------------------
(***************************************************************************)
(* One active incident per machine, resolved incidents dated, alerts given *)
(* up only after a resolution, and every status traced, for any number of  *)
(* alerts, machines, linkers and operators; and, for at most one operator  *)
(* at a time, the refinement of the lifecycle.  None of these is           *)
(* inductive: a client acts on what an earlier statement of its call       *)
(* found, so each invariant also says what every client in mid-call may    *)
(* rely on.                                                                *)
(***************************************************************************)
EXTENDS Incidents, TLAPS

\* What a client in mid-call has in hand: an incident that exists, an alert, a
\* status.
InHand ==
  \A c \in Clients :
    /\ pc[c] \in {"log_attached", "log_opened", "update", "log_change",
                  "log_assignment", "resolve"} => at[c] \in Rows
    /\ pc[c] \in {"log_attached", "insert", "log_opened", "reselect"}
         => alert[c] \in Alerts
    /\ pc[c] \in {"update", "log_change"} => to[c] \in Statuses

\* An incident about to be closed was resolved once, so it is dated.
CloseIsDated ==
  \A c \in Clients : pc[c] = "update" /\ to[c] = "CLOSED" => at[c] \in dated

IInv ==
  /\ TypeOK /\ InHand
  /\ OneActivePerMachine /\ ResolvedIsDated /\ CloseIsDated

\* CLOSED is only entered from RESOLVED.
LEMMA ClosedFromResolved ==
  ASSUME NEW s \in Statuses, is_valid_transition(s, "CLOSED")
  PROVE  s = "RESOLVED"
<1>1. CASE s = "OPEN"
  BY <1>1 DEF is_valid_transition, Lifecycle!ValidTransitions
<1>2. CASE s = "ACKNOWLEDGED"
  BY <1>2 DEF is_valid_transition, Lifecycle!ValidTransitions
<1>3. CASE s = "INVESTIGATING"
  BY <1>3 DEF is_valid_transition, Lifecycle!ValidTransitions
<1>4. CASE s = "CLOSED"
  BY <1>4 DEF is_valid_transition, Lifecycle!ValidTransitions
<1>5. QED
  BY <1>1, <1>2, <1>3, <1>4 DEF Statuses, Active

LEMMA IncidentInit == Init => IInv
<1> SUFFICES ASSUME Init PROVE IInv
  OBVIOUS
<1>1. (CHOOSE m \in Machines : TRUE) \in Machines
  BY IncidentAssumptions
<1>2. machine \in [Ids -> Machines]
  BY <1>1 DEF Init
<1>3. TypeOK
  BY <1>2 DEF Init, TypeOK, Rows, Steps
<1>4. QED
  BY <1>3 DEF Init, IInv, InHand, OneActivePerMachine, ResolvedIsDated,
              CloseIsDated, Active

\* Ending a call leaves nothing in hand.
LEMMA ReturnTypes ==
  ASSUME TypeOK, NEW c \in Clients, Return(c)
  PROVE  /\ pc' \in [Clients -> Steps] /\ at' \in [Clients -> Ids \cup {0}]
         /\ to' \in [Clients -> Statuses \cup {"none"}]
         /\ alert' \in [Clients -> Alerts \cup {NoAlert}]
         /\ pc'[c] = "idle"
         /\ \A d \in Clients \ {c} : /\ pc'[d] = pc[d] /\ at'[d] = at[d]
                                    /\ to'[d] = to[d] /\ alert'[d] = alert[d]
  BY DEF TypeOK, Return, Steps

\* A call that ends keeps what the others rely on, if the table stays.
LEMMA ReturnKeeps ==
  ASSUME IInv, NEW c \in Clients, Return(c), UNCHANGED table
  PROVE  /\ InHand' /\ CloseIsDated'
         /\ OneActivePerMachine' /\ ResolvedIsDated'
<1>1. UNCHANGED <<status, machine, dated>> /\ Rows' = Rows
  BY DEF table, Rows
<1>2. OneActivePerMachine' /\ ResolvedIsDated'
  BY <1>1 DEF IInv, OneActivePerMachine, ResolvedIsDated
<1>3. InHand'
  BY <1>1, ReturnTypes DEF IInv, InHand
<1>4. CloseIsDated'
  BY <1>1, ReturnTypes DEF IInv, CloseIsDated
<1>5. QED
  BY <1>2, <1>3, <1>4

\* What an audit row may be.
LEMMA LogEventTypes ==
  ASSUME TypeOK, NEW i \in Ids, NEW e \in AuditEvents, LogEvent(i, e)
  PROVE  trail' \in [Ids -> SUBSET AuditEvents]
  BY DEF TypeOK, LogEvent

LEMMA EventTypes ==
  /\ \A a \in Alerts : Attached(a) \in AuditEvents
  /\ \A s \in Statuses : Became(s) \in AuditEvents
  /\ Assignment \in AuditEvents
  BY DEF AuditEvents, Attached, Became, Assignment

LEMMA IncidentNext == IInv /\ [Next]_vars => IInv'
<1> SUFFICES ASSUME IInv, [Next]_vars PROVE IInv'
  OBVIOUS
<1> USE IncidentAssumptions
<1>0. /\ TypeOK /\ InHand
      /\ Linkers \subseteq Clients /\ Operators \subseteq Clients
  BY DEF IInv, Clients
<1>1. ASSUME NEW c \in Clients, NEW a \in Alerts, SelectActive(c, a)
      PROVE  IInv'
  <2>1. /\ UNCHANGED <<status, machine, dated, trail, to, ceased, torn, crashes>>
        /\ Rows' = Rows
    BY <1>1 DEF SelectActive, table, Rows
  <2>2. /\ link' = [link EXCEPT ![a] = "running"]
        /\ alert' = [alert EXCEPT ![c] = a]
    BY <1>1 DEF SelectActive
  <2>3. CASE /\ pc' = [pc EXCEPT ![c] = "insert"] /\ at' = at
    <3>1. TypeOK'
      BY <1>0, <2>1, <2>2, <2>3 DEF TypeOK, Steps
    <3>2. InHand'
      BY <1>0, <2>1, <2>2, <2>3 DEF TypeOK, InHand
    <3>3. CloseIsDated'
      BY <1>0, <2>1, <2>2, <2>3
         DEF IInv, TypeOK, CloseIsDated
    <3>4. QED
      BY <2>1, <3>1, <3>2, <3>3 DEF IInv, OneActivePerMachine, ResolvedIsDated
  <2>4. ASSUME NEW i \in Rows, at' = [at EXCEPT ![c] = i],
               pc' = [pc EXCEPT ![c] = "log_attached"]
        PROVE  IInv'
    <3>0. i \in Ids
      BY DEF Rows
    <3>1. TypeOK'
      BY <1>0, <2>1, <2>2, <2>4, <3>0 DEF TypeOK, Steps
    <3>2. InHand'
      BY <1>0, <2>1, <2>2, <2>4 DEF TypeOK, InHand
    <3>3. CloseIsDated'
      BY <1>0, <2>1, <2>2, <2>4
         DEF IInv, TypeOK, CloseIsDated
    <3>4. QED
      BY <2>1, <3>1, <3>2, <3>3 DEF IInv, OneActivePerMachine, ResolvedIsDated
  <2>5. \A m \in Machines : ActiveFor(m) \subseteq Rows
    BY DEF ActiveFor, Rows, Active
  <2>6. QED
    BY <1>1, <2>3, <2>4, <2>5 DEF SelectActive
<1>2. ASSUME NEW c \in Clients, LogAttached(c) \/ LogOpened(c) PROVE IInv'
  <2>1. Return(c) /\ UNCHANGED table /\ UNCHANGED <<ceased, torn, crashes>>
    BY <1>2 DEF LogAttached, LogOpened
  <2>2. at[c] \in Ids /\ alert[c] \in Alerts
    BY <1>0, <1>2 DEF LogAttached, LogOpened, InHand, Rows
  <2>3. trail' \in [Ids -> SUBSET AuditEvents]
    <3>1. CASE LogAttached(c)
      BY <1>0, <2>2, <3>1, EventTypes, LogEventTypes DEF LogAttached
    <3>2. CASE LogOpened(c)
      <4>1. Became("OPEN") \in AuditEvents
        BY EventTypes DEF Statuses, Active
      <4>2. QED
        BY <1>0, <2>2, <3>2, <4>1, LogEventTypes DEF LogOpened
    <3>3. QED
      BY <1>2, <3>1, <3>2
  <2>4. PICK w \in {"attached", "opened"} :
          link' = [link EXCEPT ![alert[c]] = w]
    BY <1>2 DEF LogAttached, LogOpened
  <2>5. TypeOK'
    BY <1>0, <2>1, <2>2, <2>3, <2>4, ReturnTypes DEF TypeOK, table, Rows
  <2>7. QED
    BY <2>1, <2>5, ReturnKeeps DEF IInv
<1>3. ASSUME NEW c \in Clients, InsertIncident(c) PROVE IInv'
  <2> DEFINE m == MachineOf[alert[c]]
  <2>1. PICK i \in Ids \ Rows :
          /\ status' = [status EXCEPT ![i] = "OPEN"]
          /\ machine' = [machine EXCEPT ![i] = m]
          /\ at' = [at EXCEPT ![c] = i]
    BY <1>3 DEF InsertIncident
  <2>2. /\ pc' = [pc EXCEPT ![c] = "log_opened"]
        /\ UNCHANGED <<dated, trail, to, alert, link, ceased, torn, crashes>>
    BY <1>3 DEF InsertIncident
  <2>3. /\ pc[c] = "insert" /\ alert[c] \in Alerts
        /\ m \in Machines /\ ActiveFor(m) = {}
    BY <1>0, <1>3 DEF InsertIncident, InHand, Conflicts
  <2>4. /\ Rows' = Rows \cup {i}
        /\ \A j \in Rows : /\ j # i
                           /\ status'[j] = status[j] /\ machine'[j] = machine[j]
    BY <1>0, <2>1 DEF TypeOK, Rows
  <2>5. TypeOK'
    <3>1. /\ status' \in [Ids -> Statuses \cup {"none"}]
          /\ machine' \in [Ids -> Machines]
      BY <1>0, <2>1, <2>3 DEF TypeOK, Statuses, Active
    <3>2. dated' \subseteq Rows' /\ ceased' \in [Alerts -> SUBSET Rows']
      BY <1>0, <2>2, <2>4 DEF TypeOK
    <3>3. pc' \in [Clients -> Steps] /\ at' \in [Clients -> Ids \cup {0}]
      BY <1>0, <2>1, <2>2 DEF TypeOK, Steps
    <3>4. QED
      BY <1>0, <2>2, <3>1, <3>2, <3>3 DEF TypeOK
  <2>6. InHand'
    BY <1>0, <2>1, <2>2, <2>3, <2>4 DEF TypeOK, InHand
  <2>7. OneActivePerMachine'
    BY <1>0, <2>1, <2>3 DEF IInv, TypeOK, OneActivePerMachine, ActiveFor
  <2>8. ResolvedIsDated'
    BY <1>0, <2>1, <2>2 DEF IInv, TypeOK, ResolvedIsDated
  <2>9. CloseIsDated'
    BY <1>0, <2>1, <2>2, <2>4 DEF IInv, TypeOK, CloseIsDated
  <2>11. QED
    BY <2>5, <2>6, <2>7, <2>8, <2>9 DEF IInv
<1>4. ASSUME NEW c \in Clients, InsertConflicts(c) PROVE IInv'
  <2>1. /\ UNCHANGED <<status, machine, dated, trail, link, ceased, torn,
                       crashes, at, to, alert>>
        /\ pc[c] = "insert" /\ pc' = [pc EXCEPT ![c] = "reselect"]
        /\ Rows' = Rows
    BY <1>4 DEF InsertConflicts, Goto, table, Rows
  <2>2. alert[c] \in Alerts
    BY <1>0, <2>1 DEF InHand
  <2>3. TypeOK' /\ InHand'
    BY <1>0, <2>1, <2>2 DEF TypeOK, InHand, Steps
  <2>4. CloseIsDated'
    BY <1>0, <2>1 DEF IInv, TypeOK, CloseIsDated
  <2>5. QED
    BY <2>1, <2>3, <2>4
       DEF IInv, OneActivePerMachine, ResolvedIsDated
<1>5. ASSUME NEW c \in Clients, Reselect(c) PROVE IInv'
  <2>1. /\ Return(c) /\ UNCHANGED table
        /\ UNCHANGED <<trail, ceased, torn, crashes>>
        /\ pc[c] = "reselect" /\ alert[c] \in Alerts
    BY <1>0, <1>5 DEF Reselect, InHand
  <2> DEFINE m == MachineOf[alert[c]]
  <2>2. link' = [link EXCEPT ![alert[c]] = RaceOutcome(m)]
    BY <1>5 DEF Reselect
  <2>3. TypeOK'
    BY <1>0, <2>1, <2>2, ReturnTypes DEF TypeOK, table, Rows, RaceOutcome
  <2>4. QED
    BY <2>1, <2>3, ReturnKeeps DEF IInv
<1>6. ASSUME NEW c \in Clients, NEW i \in Rows, NEW new \in Statuses,
             LoadStatus(c, i, new),
             UNCHANGED <<table, trail, link, ceased, torn, crashes>>
      PROVE  IInv'
  <2>1. /\ UNCHANGED <<status, machine, dated, trail, link, ceased, torn,
                       crashes, alert>>
        /\ Rows' = Rows /\ i \in Ids
        /\ pc' = [pc EXCEPT ![c] = "update"]
        /\ at' = [at EXCEPT ![c] = i]
        /\ to' = [to EXCEPT ![c] = new]
    BY <1>6 DEF LoadStatus, table, Rows
  <2>2. new = "CLOSED" => i \in dated
    <3>1. status[i] \in Statuses
      BY <1>0 DEF TypeOK, Rows
    <3>2. new = "CLOSED" => status[i] = "RESOLVED"
      BY <1>6, <3>1, ClosedFromResolved DEF LoadStatus
    <3>3. QED
      BY <2>1, <3>2 DEF IInv, ResolvedIsDated
  <2>3. TypeOK'
    BY <1>0, <2>1 DEF TypeOK, Steps
  <2>4. InHand'
    BY <1>0, <2>1 DEF TypeOK, InHand
  <2>5. CloseIsDated'
    BY <1>0, <2>1, <2>2 DEF IInv, TypeOK, CloseIsDated
  <2>6. QED
    BY <2>1, <2>3, <2>4, <2>5
       DEF IInv, OneActivePerMachine, ResolvedIsDated
<1>7. ASSUME NEW c \in Clients, UpdateStatus(c) PROVE IInv'
  <2> DEFINE i == at[c]
             new == to[c]
  <2>1. /\ UNCHANGED <<machine, trail, link, torn, crashes, at, to, alert>>
        /\ status' = [status EXCEPT ![i] = new]
        /\ dated' = dated \cup (IF new = "RESOLVED" THEN {i} ELSE {})
        /\ pc' = [pc EXCEPT ![c] = "log_change"]
    BY <1>7 DEF UpdateStatus, Goto, Dates
  <2>2. pc[c] = "update" /\ i \in Rows /\ i \in Ids /\ new \in Statuses
    BY <1>0, <1>7 DEF UpdateStatus, InHand, Rows
  <2>3. Rows' = Rows
    BY <1>0, <2>1, <2>2 DEF TypeOK, Rows, Statuses, Active
  <2>4. TypeOK'
    <3>1. /\ status' \in [Ids -> Statuses \cup {"none"}]
          /\ pc' \in [Clients -> Steps]
      BY <1>0, <2>1, <2>2 DEF TypeOK, Steps
    <3>2. dated' \subseteq Rows'
      BY <1>0, <2>1, <2>2, <2>3 DEF TypeOK
    <3>3. ceased' \in [Alerts -> SUBSET Rows']
      <4>1. \A a \in Alerts : {j \in {i} : Ceases(j, new, a)} \subseteq Rows'
        BY <2>2, <2>3
      <4>2. QED
        BY <1>0, <1>7, <2>3, <4>1 DEF UpdateStatus, TypeOK
    <3>4. QED
      BY <1>0, <2>1, <3>1, <3>2, <3>3 DEF TypeOK
  <2>5. InHand'
    BY <1>0, <2>1, <2>2, <2>3 DEF TypeOK, InHand
  <2>6. OneActivePerMachine'
    <3>1. new \in Active => \A j \in Ids \ {i} :
            ~(status[j] \in Active /\ machine[j] = machine[i])
      BY <1>7, <2>2 DEF UpdateStatus, ReopenRefused, ActiveFor
    <3>2. QED
      BY <1>0, <2>1, <2>2, <3>1 DEF IInv, TypeOK, OneActivePerMachine
  <2>7. ResolvedIsDated'
    <3>1. new = "CLOSED" => i \in dated
      BY <2>2 DEF IInv, CloseIsDated
    <3>2. QED
      BY <1>0, <2>1, <2>2, <3>1 DEF IInv, TypeOK, ResolvedIsDated
  <2>8. CloseIsDated'
    BY <1>0, <2>1, <2>3
       DEF IInv, TypeOK, CloseIsDated
  <2>9. QED
    BY <2>4, <2>5, <2>6, <2>7, <2>8 DEF IInv
<1>8. ASSUME NEW c \in Clients, Return(c),
             UNCHANGED <<table, trail, link, ceased, torn, crashes>>
      PROVE  IInv'
  <2>1. TypeOK'
    BY <1>0, <1>8, ReturnTypes DEF TypeOK, table, Rows
  <2>3. QED
    BY <1>8, <2>1, ReturnKeeps DEF IInv
<1>9. ASSUME NEW c \in Clients, LogChange(c) \/ LogAssignment(c) PROVE IInv'
  <2>1. Return(c) /\ UNCHANGED table /\ UNCHANGED <<link, ceased, torn, crashes>>
    BY <1>9 DEF LogChange, LogAssignment
  <2>2. at[c] \in Ids
    BY <1>0, <1>9 DEF LogChange, LogAssignment, InHand, Rows
  <2>3. trail' \in [Ids -> SUBSET AuditEvents]
    <3>1. CASE LogChange(c)
      <4>1. Became(to[c]) \in AuditEvents
        BY <1>0, <3>1, EventTypes DEF LogChange, InHand
      <4>2. QED
        BY <1>0, <2>2, <3>1, <4>1, LogEventTypes DEF LogChange
    <3>2. CASE LogAssignment(c)
      BY <1>0, <2>2, <3>2, EventTypes, LogEventTypes DEF LogAssignment
    <3>3. QED
      BY <1>9, <3>1, <3>2
  <2>4. TypeOK'
    BY <1>0, <2>1, <2>3, ReturnTypes DEF TypeOK, table, Rows
  <2>6. QED
    BY <2>1, <2>4, ReturnKeeps DEF IInv
<1>10. ASSUME NEW c \in Clients, NEW i \in Ids, Assign(c, i) \/ Resolve(c, i)
       PROVE  IInv'
  <2>1. /\ UNCHANGED <<status, machine, dated, trail, to, alert, link, ceased,
                       torn, crashes>>
        /\ Rows' = Rows /\ i \in Rows
        /\ at' = [at EXCEPT ![c] = i]
    BY <1>10 DEF Assign, Resolve, table, Rows
  <2>2. PICK step \in {"log_assignment", "resolve"} :
          pc' = [pc EXCEPT ![c] = step]
    BY <1>10 DEF Assign, Resolve
  <2>3. TypeOK'
    BY <1>0, <2>1, <2>2 DEF TypeOK, Steps
  <2>4. InHand'
    BY <1>0, <2>1, <2>2 DEF TypeOK, InHand
  <2>5. CloseIsDated'
    BY <1>0, <2>1, <2>2 DEF IInv, TypeOK, CloseIsDated
  <2>6. QED
    BY <2>1, <2>3, <2>4, <2>5
       DEF IInv, OneActivePerMachine, ResolvedIsDated
<1>11. ASSUME NEW c \in Clients, ResolveTransition(c) PROVE IInv'
  <2>1. at[c] \in Rows /\ "RESOLVED" \in Statuses
    BY <1>0, <1>11 DEF ResolveTransition, InHand, Statuses
  <2>2. QED
    BY <1>6, <1>8, <1>11, <2>1 DEF ResolveTransition
<1>12. ASSUME NEW c \in Clients, Crash(c) PROVE IInv'
  <2>1. /\ Return(c) /\ UNCHANGED table
        /\ UNCHANGED <<trail, ceased>> /\ crashes' = crashes + 1
        /\ link' = [a \in Alerts |-> IF a = alert[c] THEN "lost" ELSE link[a]]
    BY <1>12 DEF Crash
  <2>2. torn' \subseteq Ids
    BY <1>0, <1>12 DEF Crash, TypeOK, InHand, Rows
  <2>3. TypeOK'
    BY <1>0, <2>1, <2>2, ReturnTypes DEF TypeOK, table, Rows
  <2>5. QED
    BY <2>1, <2>3, ReturnKeeps DEF IInv
<1>13. CASE UNCHANGED vars
  BY <1>13 DEF vars, IInv, TypeOK, InHand, OneActivePerMachine, ResolvedIsDated,
               CloseIsDated, Rows
<1>14. ASSUME NEW c \in Linkers, LinkerStep(c) PROVE IInv'
  BY <1>0, <1>1, <1>2, <1>3, <1>4, <1>5, <1>14 DEF LinkerStep
<1>15. ASSUME NEW c \in Operators, OperatorStep(c) PROVE IInv'
  <2>1. ASSUME NEW i \in Ids, NEW new \in Statuses, Transition(c, i, new)
        PROVE  IInv'
    BY <1>0, <1>6, <2>1 DEF Transition
  <2>2. UpdateRefused(c) => IInv'
    BY <1>0, <1>8 DEF UpdateRefused
  <2>3. QED
    BY <1>0, <1>7, <1>9, <1>10, <1>11, <1>15, <2>1, <2>2 DEF OperatorStep
<1>16. QED
  BY <1>12, <1>13, <1>14, <1>15 DEF Next

\* The rows, the clients' places in their calls and the audit trail keep their
\* types; only rows that exist are dated.
THEOREM IncidentTypeCorrect == Spec => []TypeOK
<1>1. IInv => TypeOK
  BY DEF IInv
<1>2. QED
  BY IncidentInit, IncidentNext, <1>1, PTL DEF Spec

\* However many linkers and operators race, no machine ever has two active
\* incidents.
THEOREM OneActive == Spec => []OneActivePerMachine
<1>1. IInv => OneActivePerMachine
  BY DEF IInv
<1>2. QED
  BY IncidentInit, IncidentNext, <1>1, PTL DEF Spec

\* A resolved or closed incident always carries its resolution time, even when
\* the move was decided from a stale status.
THEOREM ResolutionDated == Spec => []ResolvedIsDated
<1>1. IInv => ResolvedIsDated
  BY DEF IInv
<1>2. QED
  BY IncidentInit, IncidentNext, <1>1, PTL DEF Spec

-----------------------------------------------------------------------------
(* Alerts given up.  FailureNeedsResolution is not inductive: a linker that    *)
(* lost the insert race must find the winner still active, or that it ceased  *)
(* to be active since the linker's own SELECT.                                *)

Linking == {"log_attached", "insert", "log_opened", "reselect"}

\* An alert is in hand only while a client links it, is then marked as running,
\* and is in the hands of one client.
AlertInHand ==
  /\ \A c \in Clients : pc[c] \notin Linking => alert[c] = NoAlert
  /\ \A c \in Clients : pc[c] \in Linking => link[alert[c]] = "running"
  /\ \A c, d \in Clients :
       pc[c] \in Linking /\ pc[d] \in Linking /\ alert[c] = alert[d] => c = d

\* An incident of the alert's machine ceased to be active during the call.
Overtaken(a) == \E i \in ceased[a] : machine[i] = MachineOf[a]

\* There is an incident that the linker of the alert may have lost to.
HasWinner(a) == ActiveFor(MachineOf[a]) # {} \/ Overtaken(a)

LostToSomeone ==
  \A c \in Clients : pc[c] = "reselect" => HasWinner(alert[c])

RaceInv == AlertInHand /\ LostToSomeone /\ FailureNeedsResolution

LEMMA RaceInit == Init => RaceInv
  BY DEF Init, RaceInv, AlertInHand, LostToSomeone, FailureNeedsResolution,
         Linking

\* The rows a step leaves alone explain a lost race as before.
LEMMA RaceKept ==
  ASSUME UNCHANGED <<status, machine, ceased>>, NEW a \in Alerts
  PROVE  HasWinner(a) => HasWinner(a)'
  BY DEF HasWinner, ActiveFor, Overtaken

LEMMA StillLost ==
  ASSUME \A d \in Clients : pc'[d] = "reselect" =>
           \E x \in Alerts : alert'[d] = x /\ HasWinner(x)'
  PROVE  LostToSomeone'
  BY DEF LostToSomeone, HasWinner, ActiveFor, Overtaken

\* A call that ends takes its alert out of the running ones, and nobody else's.
LEMMA RaceReturn ==
  ASSUME IInv, RaceInv, NEW c \in Clients, Return(c), pc[c] \in Linking,
         UNCHANGED <<status, machine, ceased>>, NEW w,
         link' = [link EXCEPT ![alert[c]] = w],
         w = "failed" => Overtaken(alert[c])
  PROVE  RaceInv'
<1>0. /\ TypeOK /\ InHand /\ AlertInHand
      /\ pc'[c] = "idle" /\ alert'[c] = NoAlert /\ alert[c] \in Alerts
      /\ \A d \in Clients \ {c} : pc'[d] = pc[d] /\ alert'[d] = alert[d]
  BY ReturnTypes DEF IInv, RaceInv, InHand, Linking, Return, TypeOK
<1>1. ASSUME NEW d \in Clients, pc[d] \in Linking, d # c
      PROVE  alert[d] \in Alerts /\ link'[alert[d]] = link[alert[d]]
  BY <1>0, <1>1 DEF AlertInHand, InHand, Linking, TypeOK
<1>2. AlertInHand'
  <2>1. \A d \in Clients : pc'[d] \notin Linking => alert'[d] = NoAlert
    BY <1>0 DEF AlertInHand
  <2>2. \A d \in Clients : pc'[d] \in Linking => d # c /\ pc[d] \in Linking
    BY <1>0 DEF Linking
  <2>3. \A d \in Clients : pc'[d] \in Linking => link'[alert'[d]] = "running"
    BY <1>0, <1>1, <2>2 DEF AlertInHand
  <2>4. QED
    BY <1>0, <2>1, <2>2, <2>3 DEF AlertInHand, Linking
<1>3. LostToSomeone'
  <2> SUFFICES ASSUME NEW d \in Clients, pc'[d] = "reselect"
               PROVE  \E x \in Alerts : alert'[d] = x /\ HasWinner(x)'
    BY StillLost
  <2>1. pc[d] = "reselect" /\ alert[d] \in Alerts /\ alert'[d] = alert[d]
    BY <1>0 DEF InHand
  <2>2. QED
    BY <2>1, RaceKept DEF RaceInv, LostToSomeone
<1>4. FailureNeedsResolution'
  BY <1>0 DEF RaceInv, FailureNeedsResolution, Overtaken, TypeOK
<1>5. QED
  BY <1>2, <1>3, <1>4 DEF RaceInv

LEMMA RaceNext == IInv /\ RaceInv /\ [Next]_vars => RaceInv'
<1> SUFFICES ASSUME IInv, RaceInv, [Next]_vars PROVE RaceInv'
  OBVIOUS
<1> USE IncidentAssumptions
<1>0. /\ TypeOK /\ InHand /\ AlertInHand
      /\ Linkers \subseteq Clients /\ Operators \subseteq Clients
      /\ pc \in [Clients -> Steps] /\ link \in [Alerts -> {"new", "running",
           "opened", "attached", "joined", "failed", "lost"}]
      /\ alert \in [Clients -> Alerts \cup {NoAlert}]
  BY DEF IInv, RaceInv, Clients, TypeOK
\* An operator's step that sets no status leaves every linker alone.
<1>1. ASSUME NEW c \in Clients, pc[c] \notin Linking, pc'[c] \notin Linking,
             alert'[c] = NoAlert, UNCHANGED <<status, machine, link, ceased>>,
             \A d \in Clients \ {c} : pc'[d] = pc[d] /\ alert'[d] = alert[d]
      PROVE  RaceInv'
  <2>1. AlertInHand'
    BY <1>0, <1>1 DEF AlertInHand
  <2>2. LostToSomeone'
    <3> SUFFICES ASSUME NEW d \in Clients, pc'[d] = "reselect"
                 PROVE  \E x \in Alerts : alert'[d] = x /\ HasWinner(x)'
      BY StillLost
    <3>1. /\ pc[d] = "reselect" /\ alert[d] \in Alerts
          /\ alert'[d] = alert[d]
      BY <1>0, <1>1 DEF InHand, Linking
    <3>2. QED
      BY <1>1, <3>1, RaceKept DEF RaceInv, LostToSomeone
  <2>3. QED
    BY <1>1, <2>1, <2>2 DEF RaceInv, FailureNeedsResolution
<1>2. ASSUME NEW c \in Clients, Return(c), pc[c] \notin Linking,
             UNCHANGED <<status, machine, link, ceased>>
      PROVE  RaceInv'
  <2>1. /\ pc'[c] = "idle" /\ alert'[c] = NoAlert
        /\ \A d \in Clients \ {c} : pc'[d] = pc[d] /\ alert'[d] = alert[d]
    BY <1>0, <1>2 DEF Return
  <2>2. QED
    BY <1>1, <1>2, <2>1 DEF Linking
<1>3. ASSUME NEW c \in Clients, NEW a \in Alerts, SelectActive(c, a)
      PROVE  RaceInv'
  <2>1. /\ UNCHANGED <<status, machine, ceased>>
        /\ link[a] = "new" /\ link' = [link EXCEPT ![a] = "running"]
        /\ alert' = [alert EXCEPT ![c] = a] /\ pc[c] = "idle"
        /\ pc'[c] \in {"log_attached", "insert"}
        /\ \A d \in Clients \ {c} : pc'[d] = pc[d]
    BY <1>0, <1>3 DEF SelectActive, table
  <2>2. AlertInHand'
    <3>1. \A d \in Clients : pc[d] \in Linking =>
            d # c /\ alert[d] # a /\ alert[d] \in Alerts
      BY <1>0, <2>1 DEF AlertInHand, InHand, Linking
    <3>2. \A d \in Clients : pc'[d] \in Linking => link'[alert'[d]] = "running"
      BY <1>0, <2>1, <3>1 DEF AlertInHand
    <3>3. QED
      BY <1>0, <2>1, <3>1, <3>2 DEF AlertInHand, Linking
  <2>3. LostToSomeone'
    <3> SUFFICES ASSUME NEW d \in Clients, pc'[d] = "reselect"
                 PROVE  \E x \in Alerts : alert'[d] = x /\ HasWinner(x)'
      BY StillLost
    <3>1. /\ pc[d] = "reselect" /\ alert[d] \in Alerts
          /\ alert'[d] = alert[d]
      BY <1>0, <2>1 DEF InHand
    <3>2. QED
      BY <2>1, <3>1, RaceKept DEF RaceInv, LostToSomeone
  <2>4. FailureNeedsResolution'
    BY <1>0, <2>1 DEF RaceInv, FailureNeedsResolution
  <2>5. QED
    BY <2>2, <2>3, <2>4 DEF RaceInv
<1>4. ASSUME NEW c \in Clients, LogAttached(c) \/ LogOpened(c) PROVE RaceInv'
  <2>1. /\ Return(c) /\ UNCHANGED <<status, machine, ceased>>
        /\ pc[c] \in Linking
    BY <1>4 DEF LogAttached, LogOpened, table, Linking
  <2>2. PICK w \in {"attached", "opened"} :
          link' = [link EXCEPT ![alert[c]] = w]
    BY <1>4 DEF LogAttached, LogOpened
  <2>3. QED
    BY <2>1, <2>2, RaceReturn
<1>5. ASSUME NEW c \in Clients, Reselect(c) PROVE RaceInv'
  <2> DEFINE w == RaceOutcome(MachineOf[alert[c]])
  <2>1. /\ Return(c) /\ UNCHANGED <<status, machine, ceased>>
        /\ pc[c] = "reselect" /\ pc[c] \in Linking
        /\ link' = [link EXCEPT ![alert[c]] = w]
    BY <1>5 DEF Reselect, table, Linking
  <2>2. w = "failed" => Overtaken(alert[c])
    BY <2>1 DEF RaceOutcome, RaceInv, LostToSomeone, HasWinner
  <2>3. QED
    BY <2>1, <2>2, RaceReturn
<1>6. ASSUME NEW c \in Clients, InsertIncident(c) PROVE RaceInv'
  <2>1. PICK i \in Ids \ Rows :
          /\ status' = [status EXCEPT ![i] = "OPEN"]
          /\ machine' = [machine EXCEPT ![i] = MachineOf[alert[c]]]
    BY <1>6 DEF InsertIncident
  <2>2. /\ pc[c] = "insert" /\ pc' = [pc EXCEPT ![c] = "log_opened"]
        /\ UNCHANGED <<alert, link, ceased>>
    BY <1>6 DEF InsertIncident
  <2>3. ASSUME NEW a \in Alerts
        PROVE  /\ Overtaken(a) => Overtaken(a)'
               /\ HasWinner(a) => HasWinner(a)'
    <3>1. \A j \in Rows : j # i /\ status'[j] = status[j] /\ machine'[j] = machine[j]
      BY <1>0, <2>1 DEF TypeOK, Rows
    <3>2. ceased[a] \subseteq Rows
      BY <1>0 DEF TypeOK
    <3>3. Overtaken(a) => Overtaken(a)'
      BY <2>2, <3>1, <3>2 DEF Overtaken
    <3>4. ASSUME NEW j \in ActiveFor(MachineOf[a])
          PROVE  j \in ActiveFor(MachineOf[a])'
      <4>1. j \in Rows
        BY DEF ActiveFor, Rows, Active
      <4>2. QED
        BY <3>1, <4>1 DEF ActiveFor
    <3>5. QED
      BY <3>3, <3>4 DEF HasWinner
  <2>4. AlertInHand'
    BY <1>0, <2>2 DEF AlertInHand, Linking
  <2>5. LostToSomeone'
    <3> SUFFICES ASSUME NEW d \in Clients, pc'[d] = "reselect"
                 PROVE  \E x \in Alerts : alert'[d] = x /\ HasWinner(x)'
      BY StillLost
    <3>1. /\ pc[d] = "reselect" /\ alert[d] \in Alerts
          /\ alert'[d] = alert[d]
      BY <1>0, <2>2 DEF InHand
    <3>2. QED
      BY <2>3, <3>1 DEF RaceInv, LostToSomeone
  <2>6. FailureNeedsResolution'
    BY <2>2, <2>3 DEF RaceInv, FailureNeedsResolution, Overtaken
  <2>7. QED
    BY <2>4, <2>5, <2>6 DEF RaceInv
<1>7. ASSUME NEW c \in Clients, InsertConflicts(c) PROVE RaceInv'
  <2>1. /\ UNCHANGED <<status, machine, link, ceased, alert>>
        /\ pc[c] = "insert" /\ pc' = [pc EXCEPT ![c] = "reselect"]
        /\ ActiveFor(MachineOf[alert[c]]) # {}
    BY <1>7 DEF InsertConflicts, Conflicts, Goto, table
  <2>2. AlertInHand'
    BY <1>0, <2>1 DEF AlertInHand, Linking
  <2>3. LostToSomeone'
    <3> SUFFICES ASSUME NEW d \in Clients, pc'[d] = "reselect"
                 PROVE  \E x \in Alerts : alert'[d] = x /\ HasWinner(x)'
      BY StillLost
    <3>1. alert[d] \in Alerts /\ alert'[d] = alert[d] /\ HasWinner(alert[d])
      BY <1>0, <2>1 DEF RaceInv, LostToSomeone, InHand, HasWinner
    <3>2. QED
      BY <2>1, <3>1, RaceKept
  <2>4. QED
    BY <2>1, <2>2, <2>3 DEF RaceInv, FailureNeedsResolution
<1>8. ASSUME NEW c \in Clients, NEW i, NEW new,
             pc[c] \notin Linking, LoadStatus(c, i, new),
             UNCHANGED <<status, machine, link, ceased>>
      PROVE  RaceInv'
  <2>1. /\ pc'[c] = "update" /\ alert'[c] = NoAlert
        /\ \A d \in Clients \ {c} : pc'[d] = pc[d] /\ alert'[d] = alert[d]
    BY <1>0, <1>8 DEF LoadStatus, AlertInHand
  <2>2. QED
    BY <1>1, <1>8, <2>1 DEF Linking
\* An incident that ceases to be active does so under every call that runs.
<1>9. ASSUME NEW c \in Clients, UpdateStatus(c) PROVE RaceInv'
  <2>1. /\ UNCHANGED <<machine, link, alert>>
        /\ pc[c] = "update" /\ pc' = [pc EXCEPT ![c] = "log_change"]
    BY <1>9 DEF UpdateStatus, Goto
  <2>2. PICK i \in Ids : i = at[c] /\ status' = [status EXCEPT ![i] = to[c]]
    BY <1>0, <1>9, <2>1 DEF UpdateStatus, InHand, Rows
  <2>3. ASSUME NEW a \in Alerts
        PROVE  ceased'[a] = ceased[a] \cup {j \in {i} : Ceases(j, to[c], a)}
    BY <1>9, <2>2 DEF UpdateStatus
  <2>4. ASSUME NEW a \in Alerts PROVE Overtaken(a) => Overtaken(a)'
    BY <2>1, <2>3 DEF Overtaken
  <2>5. ASSUME NEW a \in Alerts, link[a] = "running",
               NEW j \in ActiveFor(MachineOf[a])
        PROVE  HasWinner(a)'
    <3>1. j \in Ids /\ status[j] \in Active /\ machine[j] = MachineOf[a]
      BY DEF ActiveFor
    <3>2. CASE j # i \/ to[c] \in Active
      <4>1. status'[j] \in Active
        BY <1>0, <2>2, <3>1, <3>2 DEF TypeOK
      <4>2. j \in ActiveFor(MachineOf[a])'
        BY <2>1, <3>1, <4>1 DEF ActiveFor
      <4>3. QED
        BY <4>2 DEF HasWinner
    <3>3. CASE j = i /\ to[c] \notin Active
      <4>1. j \in ceased'[a]
        BY <2>3, <2>5, <3>1, <3>3 DEF Ceases
      <4>2. QED
        BY <2>1, <3>1, <4>1 DEF HasWinner, Overtaken
    <3>4. QED
      BY <3>2, <3>3
  <2>6. AlertInHand'
    BY <1>0, <2>1 DEF AlertInHand, Linking
  <2>7. LostToSomeone'
    <3> SUFFICES ASSUME NEW d \in Clients, pc'[d] = "reselect"
                 PROVE  \E x \in Alerts : alert'[d] = x /\ HasWinner(x)'
      BY StillLost
    <3>1. /\ pc[d] = "reselect" /\ alert[d] \in Alerts
          /\ alert'[d] = alert[d] /\ link[alert[d]] = "running"
          /\ HasWinner(alert[d])
      BY <1>0, <2>1 DEF InHand, AlertInHand, Linking, RaceInv, LostToSomeone
    <3>2. PICK a \in Alerts : a = alert[d]
      BY <3>1
    <3>3. HasWinner(a)'
      BY <2>4, <2>5, <3>1, <3>2 DEF HasWinner
    <3>4. QED
      BY <3>1, <3>2, <3>3
  <2>8. FailureNeedsResolution'
    BY <2>1, <2>4 DEF RaceInv, FailureNeedsResolution, Overtaken
  <2>9. QED
    BY <2>6, <2>7, <2>8 DEF RaceInv
<1>10. ASSUME NEW c \in Clients, Crash(c) PROVE RaceInv'
  <2>1. /\ Return(c) /\ UNCHANGED <<status, machine, ceased>>
        /\ link' = [a \in Alerts |-> IF a = alert[c] THEN "lost" ELSE link[a]]
    BY <1>10 DEF Crash, table
  <2>2. CASE pc[c] \in Linking
    <3>1. link' = [link EXCEPT ![alert[c]] = "lost"]
      BY <1>0, <2>1
    <3>2. QED
      BY <2>1, <2>2, <3>1, RaceReturn
  <2>3. CASE pc[c] \notin Linking
    <3>1. alert[c] = NoAlert
      BY <1>0, <2>3 DEF AlertInHand
    <3>2. link' = link
      BY <1>0, <2>1, <3>1
    <3>3. QED
      BY <1>2, <2>1, <2>3, <3>2
  <2>4. QED
    BY <2>2, <2>3
<1>11. ASSUME NEW c \in Linkers, LinkerStep(c) PROVE RaceInv'
  BY <1>0, <1>3, <1>4, <1>5, <1>6, <1>7, <1>11 DEF LinkerStep
<1>12. ASSUME NEW c \in Operators, OperatorStep(c) PROVE RaceInv'
  <2>1. c \in Clients
    BY <1>0
  <2>2. ASSUME NEW i \in Ids, NEW new \in Statuses, Transition(c, i, new)
        PROVE  RaceInv'
    BY <1>8, <2>1, <2>2 DEF Transition, Linking, table
  <2>3. ASSUME NEW i \in Ids, Assign(c, i) \/ Resolve(c, i) PROVE RaceInv'
    <3>1. /\ pc[c] = "idle" /\ pc'[c] \in {"log_assignment", "resolve"}
          /\ \A d \in Clients \ {c} : pc'[d] = pc[d]
          /\ UNCHANGED <<alert, status, machine, link, ceased>>
      BY <1>0, <2>1, <2>3 DEF Assign, Resolve, table
    <3>2. QED
      BY <1>0, <1>1, <2>1, <3>1 DEF AlertInHand, Linking
  <2>4. UpdateRefused(c) \/ LogChange(c) \/ LogAssignment(c) => RaceInv'
    BY <1>2, <2>1 DEF UpdateRefused, LogChange, LogAssignment, Linking, table
  <2>5. ResolveTransition(c) => RaceInv'
    BY <1>2, <1>8, <2>1 DEF ResolveTransition, Linking, table
  <2>6. QED
    BY <1>9, <1>12, <2>1, <2>2, <2>3, <2>4, <2>5 DEF OperatorStep
<1>13. CASE UNCHANGED vars
  BY <1>13 DEF vars, RaceInv, AlertInHand, LostToSomeone,
               FailureNeedsResolution, HasWinner, ActiveFor, Overtaken
<1>14. QED
  BY <1>10, <1>11, <1>12, <1>13 DEF Next

\* A linker that loses the insert race gives its alert up only after an
\* incident of that machine that was active was resolved or closed while the
\* call ran, whatever was resolved before it.
THEOREM FailureExplained == Spec => []FailureNeedsResolution
<1>1. RaceInv => FailureNeedsResolution
  BY DEF RaceInv
<1>2. QED
  BY IncidentInit, IncidentNext, RaceInit, RaceNext, <1>1, PTL DEF Spec

-----------------------------------------------------------------------------
(* The audit trail.  StatusTraced is not inductive: a client that is about to *)
(* log an older move of the same incident does not explain its status.       *)

\* Client c is about to log the status that incident i has now.
Logging(c, i) ==
  /\ at[c] = i
  /\ \/ pc[c] = "log_change" /\ to[c] = status[i]
     \/ pc[c] = "log_opened" /\ status[i] = "OPEN"

Explained(i) ==
  \/ status[i] = "none" \/ Became(status[i]) \in trail[i] \/ i \in torn
  \/ \E c \in Clients : Logging(c, i)

LatestTraced == \A i \in Ids : Explained(i)

\* A step that changes no status, and on which nobody drops what it was about to
\* log, explains every status as before.
LEMMA TraceKept ==
  ASSUME LatestTraced, status' = status, torn \subseteq torn',
         \A i \in Ids : trail[i] \subseteq trail'[i],
         \A c \in Clients, i \in Ids :
           Logging(c, i) => \/ Logging(c, i)' \/ i \in torn'
                            \/ Became(status[i]) \in trail'[i]
  PROVE  LatestTraced'
<1> SUFFICES ASSUME NEW i \in Ids PROVE Explained(i)'
  BY DEF LatestTraced
<1>1. Explained(i)
  BY DEF LatestTraced
<1>2. QED
  BY <1>1 DEF Explained, Became

\* What a call that ends adds to the trail and to torn covers what it was about
\* to log.
LEMMA TraceReturn ==
  ASSUME LatestTraced, TypeOK, NEW c \in Clients, Return(c), status' = status,
         torn \subseteq torn', \A i \in Ids : trail[i] \subseteq trail'[i],
         \A i \in Ids : Logging(c, i) => \/ i \in torn'
                                         \/ Became(status[i]) \in trail'[i]
  PROVE  LatestTraced'
<1>1. ASSUME NEW d \in Clients, NEW i \in Ids, Logging(d, i), d # c
      PROVE  Logging(d, i)'
  <2>1. pc'[d] = pc[d] /\ at'[d] = at[d] /\ to'[d] = to[d]
    BY <1>1, ReturnTypes
  <2>2. QED
    BY <1>1, <2>1 DEF Logging
<1>2. QED
  BY <1>1, TraceKept

LEMMA TraceInit == Init => LatestTraced
  BY DEF Init, LatestTraced, Explained

LEMMA TraceNext == IInv /\ LatestTraced /\ [Next]_vars => LatestTraced'
<1> SUFFICES ASSUME IInv, LatestTraced, [Next]_vars PROVE LatestTraced'
  OBVIOUS
<1>0. /\ TypeOK /\ InHand
      /\ Linkers \subseteq Clients /\ Operators \subseteq Clients
      /\ trail \in [Ids -> SUBSET AuditEvents]
      /\ at \in [Clients -> Ids \cup {0}] /\ pc \in [Clients -> Steps]
      /\ to \in [Clients -> Statuses \cup {"none"}]
  BY DEF IInv, Clients, TypeOK
<1>1. ASSUME NEW c \in Clients, pc[c] \notin {"log_change", "log_opened"},
             status' = status, trail' = trail, torn' = torn,
             \A d \in Clients \ {c} :
               pc'[d] = pc[d] /\ at'[d] = at[d] /\ to'[d] = to[d]
      PROVE  LatestTraced'
  BY <1>1, TraceKept DEF Logging
<1>2. ASSUME NEW c \in Clients, NEW i \in Ids, NEW e, LogEvent(i, e)
      PROVE  /\ \A j \in Ids : trail[j] \subseteq trail'[j]
             /\ e \in trail'[i]
  BY <1>0, <1>2 DEF LogEvent
<1>3. ASSUME NEW c \in Clients, LogAttached(c) \/ LogAssignment(c)
      PROVE  LatestTraced'
  <2>1. /\ at[c] \in Ids /\ Return(c) /\ UNCHANGED <<status, torn>>
        /\ pc[c] \notin {"log_change", "log_opened"}
        /\ \E e : LogEvent(at[c], e)
    BY <1>0, <1>3 DEF LogAttached, LogAssignment, InHand, Rows, table
  <2>2. \A j \in Ids : trail[j] \subseteq trail'[j]
    BY <1>2, <2>1
  <2>3. QED
    BY <1>0, <2>1, <2>2, TraceReturn DEF Logging
<1>4. ASSUME NEW c \in Clients, LogOpened(c) PROVE LatestTraced'
  <2>1. /\ at[c] \in Ids /\ Return(c) /\ UNCHANGED <<status, torn>>
        /\ pc[c] = "log_opened" /\ LogEvent(at[c], Became("OPEN"))
    BY <1>0, <1>4 DEF LogOpened, InHand, Rows, table
  <2>2. /\ \A j \in Ids : trail[j] \subseteq trail'[j]
        /\ Became("OPEN") \in trail'[at[c]]
    BY <1>2, <2>1
  <2>3. \A i \in Ids : Logging(c, i) => Became(status[i]) \in trail'[i]
    BY <2>1, <2>2 DEF Logging
  <2>4. QED
    BY <1>0, <2>1, <2>2, <2>3, TraceReturn
<1>5. ASSUME NEW c \in Clients, LogChange(c) PROVE LatestTraced'
  <2>1. /\ at[c] \in Ids /\ Return(c) /\ UNCHANGED <<status, torn>>
        /\ pc[c] = "log_change" /\ LogEvent(at[c], Became(to[c]))
    BY <1>0, <1>5 DEF LogChange, InHand, Rows, table
  <2>2. /\ \A j \in Ids : trail[j] \subseteq trail'[j]
        /\ Became(to[c]) \in trail'[at[c]]
    BY <1>2, <2>1
  <2>3. \A i \in Ids : Logging(c, i) => Became(status[i]) \in trail'[i]
    BY <2>1, <2>2 DEF Logging
  <2>4. QED
    BY <1>0, <2>1, <2>2, <2>3, TraceReturn
<1>6. ASSUME NEW c \in Clients, Crash(c) PROVE LatestTraced'
  <2>1. /\ Return(c) /\ UNCHANGED <<status, trail>>
        /\ torn' = torn \cup (IF pc[c] \in {"log_change", "log_opened"}
                              THEN {at[c]} ELSE {})
    BY <1>6 DEF Crash, table
  <2>2. \A i \in Ids : Logging(c, i) => i \in torn'
    BY <2>1 DEF Logging
  <2>3. QED
    BY <1>0, <2>1, <2>2, TraceReturn
\* A status that changes is about to be logged by the client that changed it,
\* and nobody else's claim is about that incident's new status.
<1>7. ASSUME NEW c \in Clients, NEW i \in Ids, NEW new,
             status' = [status EXCEPT ![i] = new], Logging(c, i)',
             pc[c] \notin {"log_change", "log_opened"},
             trail' = trail, torn' = torn,
             \A d \in Clients \ {c} :
               pc'[d] = pc[d] /\ at'[d] = at[d] /\ to'[d] = to[d]
      PROVE  LatestTraced'
  <2>1. Explained(i)'
    BY <1>7 DEF Explained
  <2>2. ASSUME NEW j \in Ids \ {i} PROVE Explained(j)'
    <3>1. status'[j] = status[j]
      BY <1>0, <1>7 DEF TypeOK
    <3>2. Explained(j)
      BY DEF LatestTraced
    <3>3. ASSUME NEW d \in Clients, Logging(d, j) PROVE Logging(d, j)'
      BY <1>7, <3>1, <3>3 DEF Logging
    <3>4. QED
      BY <1>7, <3>1, <3>2, <3>3 DEF Explained, Became
  <2>3. QED
    BY <2>1, <2>2 DEF LatestTraced
<1>8. ASSUME NEW c \in Clients, InsertIncident(c) PROVE LatestTraced'
  <2>1. PICK i \in Ids \ Rows : /\ status' = [status EXCEPT ![i] = "OPEN"]
                                /\ at' = [at EXCEPT ![c] = i]
    BY <1>8 DEF InsertIncident
  <2>2. /\ pc' = [pc EXCEPT ![c] = "log_opened"] /\ pc[c] = "insert"
        /\ UNCHANGED <<trail, to, torn>>
    BY <1>8 DEF InsertIncident
  <2>3. Logging(c, i)'
    BY <1>0, <2>1, <2>2 DEF Logging, TypeOK
  <2>4. QED
    BY <1>0, <1>7, <2>1, <2>2, <2>3
<1>9. ASSUME NEW c \in Clients, UpdateStatus(c) PROVE LatestTraced'
  <2>1. /\ pc[c] = "update" /\ pc' = [pc EXCEPT ![c] = "log_change"]
        /\ UNCHANGED <<trail, at, to, torn>>
    BY <1>9 DEF UpdateStatus, Goto
  <2>2. PICK i \in Ids : /\ at[c] = i /\ at'[c] = i
                         /\ status' = [status EXCEPT ![i] = to[c]]
    BY <1>0, <1>9, <2>1 DEF UpdateStatus, InHand, Rows
  <2>3. pc'[c] = "log_change" /\ to'[c] = status'[i]
    BY <1>0, <2>1, <2>2 DEF TypeOK
  <2>4. Logging(c, i)'
    BY <2>2, <2>3 DEF Logging
  <2>5. QED
    BY <1>0, <1>7, <2>1, <2>2, <2>4
<1>10. ASSUME NEW c \in Linkers, LinkerStep(c) PROVE LatestTraced'
  <2>1. c \in Clients
    BY <1>0
  <2>2. ASSUME NEW a \in Alerts, SelectActive(c, a) PROVE LatestTraced'
    <3>1. /\ pc[c] = "idle" /\ UNCHANGED <<status, trail, torn, to>>
          /\ \A d \in Clients \ {c} : pc'[d] = pc[d] /\ at'[d] = at[d]
      BY <1>0, <2>2 DEF SelectActive, table
    <3>2. QED
      BY <1>1, <2>1, <3>1
  <2>3. ASSUME InsertConflicts(c) PROVE LatestTraced'
    BY <1>0, <1>1, <2>1, <2>3 DEF InsertConflicts, Goto, table
  <2>4. ASSUME Reselect(c) PROVE LatestTraced'
    BY <1>0, <1>1, <2>1, <2>4, ReturnTypes DEF Reselect, table
  <2>5. QED
    BY <1>3, <1>4, <1>8, <1>10, <2>1, <2>2, <2>3, <2>4 DEF LinkerStep
<1>11. ASSUME NEW c \in Operators, OperatorStep(c) PROVE LatestTraced'
  <2>1. c \in Clients
    BY <1>0
  <2>2. ASSUME NEW i \in Ids, NEW new \in Statuses, Transition(c, i, new)
        PROVE  LatestTraced'
    BY <1>0, <1>1, <2>1, <2>2 DEF Transition, LoadStatus, table
  <2>3. ASSUME NEW i \in Ids, Assign(c, i) \/ Resolve(c, i)
        PROVE  LatestTraced'
    BY <1>0, <1>1, <2>1, <2>3 DEF Assign, Resolve, table
  <2>4. ASSUME UpdateRefused(c) PROVE LatestTraced'
    BY <1>0, <1>1, <2>1, <2>4, ReturnTypes DEF UpdateRefused, table
  <2>5. ASSUME ResolveTransition(c) PROVE LatestTraced'
    <3>1. ASSUME Return(c) PROVE LatestTraced'
      BY <1>0, <1>1, <2>1, <2>5, <3>1, ReturnTypes DEF ResolveTransition, table
    <3>2. ASSUME LoadStatus(c, at[c], "RESOLVED") PROVE LatestTraced'
      BY <1>0, <1>1, <2>1, <2>5, <3>2 DEF ResolveTransition, LoadStatus, table
    <3>3. QED
      BY <2>5, <3>1, <3>2 DEF ResolveTransition
  <2>6. QED
    BY <1>3, <1>5, <1>9, <1>11, <2>1, <2>2, <2>3, <2>4, <2>5 DEF OperatorStep
<1>12. CASE UNCHANGED vars
  BY <1>12, TraceKept DEF vars, Logging
<1>13. QED
  BY <1>6, <1>10, <1>11, <1>12 DEF Next

\* However many operators move one incident at once, its status stands in its
\* audit trail, or is about to be logged, or the client that set it died.
THEOREM StatusIsTraced == Spec => []StatusTraced
<1>1. LatestTraced => StatusTraced
  <2> SUFFICES ASSUME LatestTraced, NEW i \in Rows
               PROVE  \/ Became(status[i]) \in trail[i] \/ AboutToLog(i)
                      \/ i \in torn
    BY DEF StatusTraced
  <2>1. i \in Ids /\ status[i] # "none"
    BY DEF Rows
  <2>2. QED
    BY <2>1 DEF LatestTraced, Explained, Logging, AboutToLog
<1>2. QED
  BY IncidentInit, IncidentNext, TraceInit, TraceNext, <1>1, PTL DEF Spec

-----------------------------------------------------------------------------
(* The lifecycle, while the API's calls come one at a time.                *)

OneOperator == \A c, d \in Operators : c = d

\* Only operators move incidents, and the move an operator is about to make is
\* still valid, because nobody else changes a status in between.
MoveIsValid ==
  \A c \in Clients : pc[c] = "update" =>
    c \in Operators /\ is_valid_transition(status[at[c]], to[c])

LEMMA MoveInit == Init => MoveIsValid
  BY DEF Init, MoveIsValid

LEMMA MoveNext ==
  OneOperator /\ IInv /\ MoveIsValid /\ [Next]_vars => MoveIsValid'
<1> SUFFICES ASSUME OneOperator, IInv, MoveIsValid, [Next]_vars
             PROVE  MoveIsValid'
  OBVIOUS
<1> USE IncidentAssumptions
<1>0. /\ TypeOK /\ InHand
      /\ Linkers \subseteq Clients /\ Operators \subseteq Clients
      /\ at \in [Clients -> Ids \cup {0}] /\ pc \in [Clients -> Steps]
      /\ to \in [Clients -> Statuses \cup {"none"}]
      /\ status \in [Ids -> Statuses \cup {"none"}]
  BY DEF IInv, Clients, TypeOK
\* Nobody's move is touched by a client that sets no status and asks for none.
<1>1. ASSUME NEW c \in Clients, pc'[c] # "update", status' = status,
             \A d \in Clients \ {c} :
               pc'[d] = pc[d] /\ at'[d] = at[d] /\ to'[d] = to[d]
      PROVE  MoveIsValid'
  BY <1>1 DEF MoveIsValid, is_valid_transition
<1>2. ASSUME NEW c \in Clients, Return(c), status' = status PROVE MoveIsValid'
  BY <1>0, <1>1, <1>2, ReturnTypes
<1>3. ASSUME NEW c \in Operators, NEW i \in Ids, NEW new \in Statuses,
             LoadStatus(c, i, new), status' = status
      PROVE  MoveIsValid'
  <2>1. /\ is_valid_transition(status[i], new) /\ at'[c] = i /\ to'[c] = new
        /\ \A d \in Clients \ {c} :
             pc'[d] = pc[d] /\ at'[d] = at[d] /\ to'[d] = to[d]
    BY <1>0, <1>3 DEF LoadStatus
  <2>2. QED
    BY <1>3, <2>1 DEF MoveIsValid, is_valid_transition
<1>4. ASSUME NEW c \in Linkers, LinkerStep(c) PROVE MoveIsValid'
  <2>1. c \in Clients
    BY <1>0
  <2>2. ASSUME InsertIncident(c) PROVE MoveIsValid'
    <3>1. PICK i \in Ids \ Rows : /\ status' = [status EXCEPT ![i] = "OPEN"]
                                  /\ at' = [at EXCEPT ![c] = i]
      BY <2>2 DEF InsertIncident
    <3>2. /\ pc' = [pc EXCEPT ![c] = "log_opened"] /\ UNCHANGED to
      BY <2>2 DEF InsertIncident
    <3>3. ASSUME NEW d \in Clients, pc'[d] = "update"
          PROVE  /\ d # c /\ pc[d] = "update" /\ at'[d] = at[d] /\ at[d] # i
                 /\ status'[at[d]] = status[at[d]] /\ to'[d] = to[d]
      BY <1>0, <2>1, <3>1, <3>2, <3>3 DEF InHand, Rows
    <3>4. QED
      BY <3>3 DEF MoveIsValid, is_valid_transition
  <2>3. ASSUME NEW a \in Alerts, SelectActive(c, a) PROVE MoveIsValid'
    BY <1>0, <1>1, <2>1, <2>3 DEF SelectActive, table
  <2>4. ASSUME InsertConflicts(c) PROVE MoveIsValid'
    BY <1>0, <1>1, <2>1, <2>4 DEF InsertConflicts, Goto, table
  <2>5. LogAttached(c) \/ LogOpened(c) \/ Reselect(c) => MoveIsValid'
    BY <1>2, <2>1 DEF LogAttached, LogOpened, Reselect, table
  <2>6. QED
    BY <1>4, <2>2, <2>3, <2>4, <2>5 DEF LinkerStep
<1>5. ASSUME NEW c \in Operators, OperatorStep(c) PROVE MoveIsValid'
  <2>1. c \in Clients
    BY <1>0
  <2>2. ASSUME UpdateStatus(c) PROVE MoveIsValid'
    <3>1. pc'[c] = "log_change" /\ \A d \in Clients \ {c} : pc'[d] = pc[d]
      BY <1>0, <2>1, <2>2 DEF UpdateStatus, Goto
    <3>2. \A d \in Clients : pc'[d] # "update"
      BY <2>1, <3>1 DEF MoveIsValid, OneOperator
    <3>3. QED
      BY <3>2 DEF MoveIsValid
  <2>3. ASSUME NEW i \in Ids, NEW new \in Statuses, Transition(c, i, new)
        PROVE  MoveIsValid'
    BY <1>3, <2>3 DEF Transition, table
  <2>4. ASSUME NEW i \in Ids, Assign(c, i) \/ Resolve(c, i) PROVE MoveIsValid'
    BY <1>0, <1>1, <2>1, <2>4 DEF Assign, Resolve, table
  <2>5. UpdateRefused(c) \/ LogChange(c) \/ LogAssignment(c) => MoveIsValid'
    BY <1>2, <2>1 DEF UpdateRefused, LogChange, LogAssignment, table
  <2>6. ASSUME ResolveTransition(c) PROVE MoveIsValid'
    <3>1. at[c] \in Ids /\ "RESOLVED" \in Statuses /\ status' = status
      BY <1>0, <2>1, <2>6 DEF ResolveTransition, InHand, Rows, Statuses, table
    <3>2. QED
      BY <1>2, <1>3, <2>1, <2>6, <3>1 DEF ResolveTransition
  <2>7. QED
    BY <1>5, <2>2, <2>3, <2>4, <2>5, <2>6 DEF OperatorStep
<1>6. ASSUME NEW c \in Clients, Crash(c) PROVE MoveIsValid'
  BY <1>2, <1>6 DEF Crash, table
<1>7. CASE UNCHANGED vars
  BY <1>7 DEF vars, MoveIsValid, is_valid_transition
<1>8. QED
  BY <1>4, <1>5, <1>6, <1>7 DEF Next

\* Every step of the store is a step of the lifecycle or leaves it alone.
LEMMA LifecycleStep ==
  IInv /\ MoveIsValid /\ [Next]_vars => [Lifecycle!Next]_status
<1> SUFFICES ASSUME IInv, MoveIsValid, [Next]_vars, status' # status
             PROVE  Lifecycle!Next
  OBVIOUS
<1>1. \E c \in Clients : InsertIncident(c) \/ UpdateStatus(c)
  BY DEF Next, LinkerStep, OperatorStep, SelectActive, LogAttached,
         InsertConflicts, LogOpened, Reselect, Transition, UpdateRefused,
         LogChange, Assign, LogAssignment, Resolve, ResolveTransition, Crash,
         table, vars, Clients
<1>2. ASSUME NEW c \in Clients, InsertIncident(c) PROVE Lifecycle!Next
  <2>1. PICK i \in Ids : status[i] = "none" /\ status' = [status EXCEPT ![i] = "OPEN"]
    BY <1>2 DEF InsertIncident, Rows
  <2>2. Lifecycle!Open(i)
    BY <2>1 DEF Lifecycle!Open
  <2>3. QED
    BY <2>2 DEF Lifecycle!Next
<1>3. ASSUME NEW c \in Clients, UpdateStatus(c) PROVE Lifecycle!Next
  <2>1. PICK i \in Rows : i = at[c] /\ status' = [status EXCEPT ![i] = to[c]]
    BY <1>3 DEF UpdateStatus, IInv, InHand
  <2>2. /\ i \in Ids /\ status[i] \in Lifecycle!Statuses
        /\ to[c] \in Lifecycle!ValidTransitions[status[i]]
    <3>1. i \in Ids /\ status[i] \in Statuses
      BY DEF Rows, IInv, TypeOK
    <3>2. is_valid_transition(status[i], to[c])
      BY <1>3, <2>1 DEF UpdateStatus, MoveIsValid
    <3>3. QED
      BY <3>1, <3>2 DEF is_valid_transition, Statuses, Active,
                        Lifecycle!Statuses, Lifecycle!Active
  <2>3. Lifecycle!Move(i)
    BY <2>1, <2>2 DEF Lifecycle!Move
  <2>4. QED
    BY <2>2, <2>3 DEF Lifecycle!Next
<1>4. QED
  BY <1>1, <1>2, <1>3

\* While at most one operator acts at a time, however many linkers race it and
\* whoever dies, the store implements the lifecycle: an incident moves only
\* along the table of valid transitions.
THEOREM StoreImplementsLifecycle == Spec /\ OneOperator => ImplementsLifecycle
<1>1. Init => Lifecycle!Init
  BY DEF Init, Lifecycle!Init
<1>2. Spec => []IInv
  BY IncidentInit, IncidentNext, PTL DEF Spec
<1>3. Spec /\ OneOperator => []MoveIsValid
  <2> SUFFICES ASSUME OneOperator PROVE Spec => []MoveIsValid
    OBVIOUS
  <2>1. IInv /\ MoveIsValid /\ [Next]_vars => MoveIsValid'
    BY MoveNext
  <2>2. QED
    BY <1>2, <2>1, MoveInit, PTL DEF Spec
<1>4. QED
  BY <1>1, <1>2, <1>3, LifecycleStep, PTL
     DEF Spec, ImplementsLifecycle, Lifecycle!Spec

\* incidents.py:78-79.  "CLOSED is terminal" holds of the code while operators
\* act one at a time; the run with two of them shows that it needs that.
THEOREM ClosedStaysClosed == Spec /\ OneOperator => ClosedIsTerminal
<1>1. ASSUME IInv, [Lifecycle!Next]_status
      PROVE  \A i \in Ids : status[i] = "CLOSED" => status'[i] = "CLOSED"
  <2>1. CASE UNCHANGED status
    BY <2>1
  <2>2. ASSUME NEW j \in Ids, Lifecycle!Open(j)
        PROVE  \A i \in Ids : status[i] = "CLOSED" => status'[i] = "CLOSED"
    BY <1>1, <2>2 DEF Lifecycle!Open, IInv, TypeOK
  <2>3. ASSUME NEW j \in Ids, Lifecycle!Move(j)
        PROVE  \A i \in Ids : status[i] = "CLOSED" => status'[i] = "CLOSED"
    <3>1. status[j] # "CLOSED"
      BY <2>3 DEF Lifecycle!Move, Lifecycle!ValidTransitions
    <3>2. QED
      BY <1>1, <2>3, <3>1 DEF Lifecycle!Move, IInv, TypeOK
  <2>4. QED
    BY <1>1, <2>1, <2>2, <2>3 DEF Lifecycle!Next
<1>2. ASSUME IInv, [Lifecycle!Next]_status
      PROVE  [\A i \in Ids : status[i] = "CLOSED" => status'[i] = "CLOSED"]_vars
  BY <1>1, <1>2
<1>3. Spec => []IInv
  BY IncidentInit, IncidentNext, PTL DEF Spec
<1>4. QED
  BY <1>2, <1>3, StoreImplementsLifecycle, PTL
     DEF ClosedIsTerminal, ImplementsLifecycle, Lifecycle!Spec
=============================================================================
