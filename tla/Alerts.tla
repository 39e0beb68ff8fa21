-------------------------------- MODULE Alerts --------------------------------
(***************************************************************************)
(* The alert service.  Each replica runs one consumer of a partition (of   *)
(* anomalies.detected, or of device.events, whose handler is the case of   *)
(* at most one rule) and one escalation sweeper; both work on the Postgres *)
(* table `alerts`, which operators change through the API.  Statements     *)
(* autocommit, so each is a step of its own.                               *)
(*                                                                         *)
(* A dedup key stands for one (alert_rule_id, dedupe_key) pair.  Which     *)
(* keys a message is due for is left open: it depends on the rule cache    *)
(* and on the anomaly counters at that moment.  Nothing in the system sets *)
(* an alert RESOLVED, so create_if_due suppresses whenever the key has a   *)
(* row and its cooldown branch is never taken.  Notifications are sent     *)
(* after the event and their failures only counted: they are left out.     *)
(***************************************************************************)
EXTENDS Naturals, FiniteSets

CONSTANTS Replicas,
          Keys, NoKey,
          RuleSeverity,   \* the severity of each key's rule
          MaxOffset,      \* bound: messages in the partition
          Poison,         \* offsets whose payload does not parse
          MaxAlerts,      \* bound: rows of the alerts table
          MaxFaults       \* bound: failed calls, crashes and rebalances

Severities == {"INFO", "WARNING", "HIGH", "CRITICAL"}

ASSUME AlertAssumptions ==
  /\ Replicas # {} /\ NoKey \notin Keys
  /\ RuleSeverity \in [Keys -> Severities]
  /\ MaxOffset \in Nat /\ MaxAlerts \in Nat /\ MaxFaults \in Nat
  /\ Poison \subseteq 1..MaxOffset

Ids == 1..MaxAlerts

VARIABLES
  status,     \* alerts.status, "none" for a row not inserted yet
  key,        \* alerts.(alert_rule_id, dedupe_key)
  severity,   \* alerts.severity
  level,      \* alerts.escalation_level
  ripe,       \* rows older than the escalation interval
  owner,      \* the replica the partition is assigned to
  position,   \* its fetch position
  committed,  \* the group's committed offset
  pc,         \* per replica: the consumer's next call
  offset,     \* per replica: the message in hand
  todo,       \* per replica: keys the message is still to be tried for
  hand,       \* per replica: the key in hand
  row,        \* per replica: the alert just created
  batch,      \* per replica: the sweeper's remaining candidates
  hot,        \* per replica: the candidate just escalated
  events,     \* the alerts topic
  found,      \* history, per replica: keys the message in hand was due for
  due,        \* history: <<offset, key>> due when the offset was committed
  dlq,        \* history: offsets on the dead-letter topic
  held,       \* history: offsets given up without a dead letter
  unsent,     \* history: alerts whose CREATED event was lost
  faults      \* history: faults so far

table    == <<status, key, severity, level, ripe>>
group    == <<owner, position, committed>>
consumer == <<pc, offset, todo, hand, row, found>>
sweeper  == <<batch, hot>>
history  == <<due, dlq, held, unsent>>
vars == <<status, key, severity, level, ripe, owner, position, committed, pc,
          offset, todo, hand, row, found, batch, hot, events, due, dlq, held,
          unsent, faults>>

Rows == {i \in Ids : status[i] # "none"}
RowsFor(k) == {i \in Rows : key[i] = k}
OpenFor(k) == {i \in RowsFor(k) : status[i] = "OPEN"}

\* A row as a query returns it, and the event made from it.
Snapshot(i, sev, lvl) == [id |-> i, severity |-> sev, level |-> lvl]
Nothing == Snapshot(0, "INFO", 0)

\* _publish_and_notify fills in status OPEN whatever the row says.
AlertEvent(type, s) ==
  [id |-> s.id, type |-> type, severity |-> s.severity, level |-> s.level,
   status |-> "OPEN"]

Fault == faults < MaxFaults /\ faults' = faults + 1

Init ==
  /\ status = [i \in Ids |-> "none"]
  /\ key = [i \in Ids |-> NoKey]
  /\ severity = [i \in Ids |-> "INFO"]
  /\ level = [i \in Ids |-> 0]
  /\ ripe = {}
  /\ owner \in Replicas /\ position = 0 /\ committed = 0
  /\ pc = [c \in Replicas |-> "idle"]
  /\ offset = [c \in Replicas |-> 0]
  /\ todo = [c \in Replicas |-> {}]
  /\ hand = [c \in Replicas |-> NoKey]
  /\ row = [c \in Replicas |-> 0]
  /\ found = [c \in Replicas |-> {}]
  /\ batch = [c \in Replicas |-> {}]
  /\ hot = [c \in Replicas |-> Nothing]
  /\ events = {} /\ due = {} /\ dlq = {} /\ held = {} /\ unsent = {}
  /\ faults = 0

-----------------------------------------------------------------------------
(* The consumer: _consume_anomalies and _consume_device_events. *)

Goto(c, step) == pc' = [pc EXCEPT ![c] = step]

\* The loop over the matching rules goes on with the next one.
NextRule(c) ==
  /\ Goto(c, "rules")
  /\ hand' = [hand EXCEPT ![c] = NoKey]
  /\ row' = [row EXCEPT ![c] = 0]
  /\ UNCHANGED <<offset, todo, found>>

\* The message is done with; the consumer polls again.
Done(c) ==
  /\ Goto(c, "idle")
  /\ offset' = [offset EXCEPT ![c] = 0]
  /\ todo' = [todo EXCEPT ![c] = {}]
  /\ hand' = [hand EXCEPT ![c] = NoKey]
  /\ row' = [row EXCEPT ![c] = 0]
  /\ found' = [found EXCEPT ![c] = {}]

\* poll, parse, rules_for, scope_matches and condition_matches.
Poll(c) ==
  /\ pc[c] = "idle" /\ owner = c /\ position < MaxOffset
  /\ position' = position + 1
  /\ offset' = [offset EXCEPT ![c] = position + 1]
  /\ \/ /\ position + 1 \in Poison
        /\ Goto(c, "dead_letter")
        /\ UNCHANGED <<todo, found>>
     \/ /\ position + 1 \notin Poison
        /\ Goto(c, "rules")
        /\ \E S \in SUBSET Keys :
             /\ todo' = [todo EXCEPT ![c] = S]
             /\ found' = [found EXCEPT ![c] = S]
  /\ UNCHANGED <<table, owner, committed, hand, row, sweeper, events, history,
                 faults>>

\* create_if_due's SELECT of the key's latest row.
SuppressedWhileOpen(k) == OpenFor(k) # {}
Suppressed(k) == RowsFor(k) # {}

SelectLatest(c, k) ==
  /\ pc[c] = "rules" /\ k \in todo[c]
  /\ todo' = [todo EXCEPT ![c] = @ \ {k}]
  /\ \/ Suppressed(k) /\ UNCHANGED <<pc, hand>>
     \/ /\ ~Suppressed(k)
        /\ Goto(c, "insert")
        /\ hand' = [hand EXCEPT ![c] = k]
  /\ UNCHANGED <<table, group, offset, row, found, sweeper, events, history,
                 faults>>

RulesDone(c) ==
  /\ pc[c] = "rules" /\ todo[c] = {}
  /\ Goto(c, "commit")
  /\ UNCHANGED <<table, group, offset, todo, hand, row, found, sweeper, events,
                 history, faults>>

InsertRow(i, k) ==
  /\ i \in Ids \ Rows /\ \A j \in Ids \ Rows : i <= j
  /\ status' = [status EXCEPT ![i] = "OPEN"]
  /\ key' = [key EXCEPT ![i] = k]
  /\ severity' = [severity EXCEPT ![i] = RuleSeverity[k]]
  /\ UNCHANGED <<level, ripe>>

\* INSERT ... ON CONFLICT ... WHERE status = 'OPEN' DO NOTHING.
ConflictsUnindexed(k) == FALSE
Conflicts(k) == OpenFor(k) # {}

Insert(c) ==
  /\ pc[c] = "insert" /\ ~Conflicts(hand[c])
  /\ \E i \in Ids :
       InsertRow(i, hand[c]) /\ row' = [row EXCEPT ![c] = i]
  /\ Goto(c, "link")
  /\ UNCHANGED <<group, offset, todo, hand, found, sweeper, events, history, faults>>

InsertConflicts(c) ==
  /\ pc[c] = "insert" /\ Conflicts(hand[c])
  /\ NextRule(c)
  /\ UNCHANGED <<table, group, sweeper, events, history, faults>>

\* create_if_due raises: the rest of the rules is not tried.  The INSERT may
\* have been applied before the connection was lost.
OnStoreErrorSwallowed == "commit"
OnStoreError == "dead_letter"

StoreFails(c) ==
  /\ pc[c] = "insert" \/ (pc[c] = "rules" /\ todo[c] # {})
  /\ Fault
  /\ \/ UNCHANGED <<table, unsent>>
     \/ /\ pc[c] = "insert" /\ ~Conflicts(hand[c])
        /\ \E i \in Ids :
             InsertRow(i, hand[c]) /\ unsent' = unsent \cup {i}
  /\ Goto(c, OnStoreError)
  /\ UNCHANGED <<group, offset, todo, hand, row, found, sweeper, events, due, dlq,
                 held>>

\* _open_or_attach_incident (see Incidents): whether it raises is only logged.
OnLinkErrorGivesUp == "rules"
OnLinkError == "publish"

LinkIncident(c) ==
  /\ pc[c] = "link"
  /\ \/ Goto(c, "publish") /\ UNCHANGED faults
     \/ Goto(c, OnLinkError) /\ Fault
  /\ UNCHANGED <<table, group, offset, todo, hand, row, found, sweeper, events,
                 history>>

\* publish_alert; its failure is only logged.  A produce that timed out may
\* still be delivered.
PublishCreated(c) ==
  /\ pc[c] = "publish"
  /\ LET created == AlertEvent("CREATED",
                               Snapshot(row[c], RuleSeverity[hand[c]], 0))
     IN \/ events' = events \cup {created} /\ UNCHANGED <<unsent, faults>>
        \/ /\ Fault
           /\ events' \in {events, events \cup {created}}
           /\ unsent' = unsent \cup {row[c]}
  /\ NextRule(c)
  /\ UNCHANGED <<table, group, sweeper, due, dlq, held>>

\* _dlq_or_hold.
DeadLetter(c) ==
  /\ pc[c] = "dead_letter"
  /\ dlq' = dlq \cup {offset[c]}
  /\ Goto(c, "commit")
  /\ UNCHANGED <<table, group, offset, todo, hand, row, found, sweeper, events, due,
                 held, unsent, faults>>

DeadLetterFails(c) ==
  /\ pc[c] = "dead_letter"
  /\ Fault
  /\ dlq' \in {dlq, dlq \cup {offset[c]}}
  /\ held' = held \cup {offset[c]}
  /\ Done(c)
  /\ UNCHANGED <<table, group, sweeper, events, due, unsent>>

\* Committing a message commits the offset after it, which in this count of
\* offsets is the message's own.
CommitPointOneTooFar(c) == offset[c] + 1
CommitPoint(c) == offset[c]

Commit(c) ==
  /\ pc[c] = "commit" /\ owner = c
  /\ committed' = CommitPoint(c)
  /\ due' = due \cup ({offset[c]} \X found[c])
  /\ Done(c)
  /\ UNCHANGED <<table, owner, position, sweeper, events, dlq, held, unsent,
                 faults>>

\* The broker refuses a replica the partition was taken from, or the call fails.
CommitFails(c) ==
  /\ pc[c] = "commit"
  /\ \/ owner # c /\ UNCHANGED faults
     \/ owner = c /\ Fault
  /\ Done(c)
  /\ UNCHANGED <<table, group, sweeper, events, history>>

-----------------------------------------------------------------------------
(* The sweeper: _run_escalation_sweeper. *)

\* The interval passes.  Rows not OPEN or at level 2 are never looked at.
Age(i) ==
  /\ status[i] = "OPEN" /\ level[i] < 2 /\ i \notin ripe
  /\ ripe' = ripe \cup {i}
  /\ UNCHANGED <<status, key, severity, level, group, consumer, sweeper, events,
                 history, faults>>

DueOnce(i) == status[i] = "OPEN" /\ level[i] < 1 /\ i \in ripe
Due(i) == status[i] = "OPEN" /\ level[i] < 2 /\ i \in ripe

due_for_escalation == {Snapshot(i, severity[i], level[i]) : i \in {j \in Ids : Due(j)}}

\* The ladder: INFO is not on it, CRITICAL is its top.
NextSeveritySkips(s) ==
  IF s \in {"WARNING", "HIGH"} THEN "CRITICAL" ELSE s
next_severity(s) ==
  CASE s = "WARNING" -> "HIGH" [] s = "HIGH" -> "CRITICAL" [] OTHER -> s

Sweep(c) ==
  /\ batch[c] = {} /\ hot[c] = Nothing
  /\ due_for_escalation # {}
  /\ batch' = [batch EXCEPT ![c] = due_for_escalation]
  /\ UNCHANGED <<table, group, consumer, hot, events, history, faults>>

\* Nothing above this rung, or the UPDATE raises: the candidate is skipped.
SkipCandidate(c, s) ==
  /\ hot[c] = Nothing /\ s \in batch[c]
  /\ \/ next_severity(s.severity) = s.severity /\ UNCHANGED faults
     \/ next_severity(s.severity) # s.severity /\ Fault
  /\ batch' = [batch EXCEPT ![c] = @ \ {s}]
  /\ UNCHANGED <<table, group, consumer, hot, events, history>>

\* The copy the sweeper announces.
BumpedLevelStale(s) == s.level
BumpedLevel(s) == s.level + 1

Escalate(c, s) ==
  /\ hot[c] = Nothing /\ s \in batch[c]
  /\ next_severity(s.severity) # s.severity
  /\ severity' = [severity EXCEPT ![s.id] = next_severity(s.severity)]
  /\ level' = [level EXCEPT ![s.id] = @ + 1]
  /\ ripe' = ripe \ {s.id}
  /\ batch' = [batch EXCEPT ![c] = @ \ {s}]
  /\ hot' = [hot EXCEPT ![c] =
               Snapshot(s.id, next_severity(s.severity), BumpedLevel(s))]
  /\ UNCHANGED <<status, key, group, consumer, events, history, faults>>

PublishEscalated(c) ==
  /\ hot[c] # Nothing
  /\ LET escalated == AlertEvent("ESCALATED", hot[c])
     IN \/ events' = events \cup {escalated} /\ UNCHANGED faults
        \/ Fault /\ events' \in {events, events \cup {escalated}}
  /\ hot' = [hot EXCEPT ![c] = Nothing]
  /\ UNCHANGED <<table, group, consumer, batch, history>>

-----------------------------------------------------------------------------
(* Operators, crashes and rebalances. *)

\* POST /alerts/{id}/acknowledge.
Acknowledge(i) ==
  /\ status[i] = "OPEN"
  /\ status' = [status EXCEPT ![i] = "ACKNOWLEDGED"]
  /\ UNCHANGED <<key, severity, level, ripe, group, consumer, sweeper, events,
                 history, faults>>

\* A replica dies and starts again with no work in hand.
Crash(c) ==
  /\ Fault
  /\ Done(c)
  /\ batch' = [batch EXCEPT ![c] = {}]
  /\ hot' = [hot EXCEPT ![c] = Nothing]
  /\ position' = IF owner = c THEN committed ELSE position
  /\ unsent' = unsent \cup ({row[c]} \ {0})
  /\ UNCHANGED <<table, owner, committed, events, due, dlq, held>>

\* The partition moves to a replica that is polling; its old owner may be in
\* the middle of a message.
Rebalance(c) ==
  /\ owner # c /\ pc[c] = "idle"
  /\ Fault
  /\ owner' = c /\ position' = committed
  /\ UNCHANGED <<table, committed, consumer, sweeper, events, history>>

ConsumerStep(c) ==
  \/ Poll(c) \/ RulesDone(c)
  \/ \E k \in Keys : SelectLatest(c, k)
  \/ Insert(c) \/ InsertConflicts(c) \/ StoreFails(c)
  \/ LinkIncident(c) \/ PublishCreated(c)
  \/ DeadLetter(c) \/ DeadLetterFails(c)
  \/ Commit(c) \/ CommitFails(c)

SweeperStep(c) ==
  \/ Sweep(c)
  \/ \E s \in batch[c] : SkipCandidate(c, s) \/ Escalate(c, s)
  \/ PublishEscalated(c)

Next ==
  \/ \E c \in Replicas : ConsumerStep(c) \/ SweeperStep(c)
  \/ \E i \in Ids : Age(i) \/ Acknowledge(i)
  \/ \E c \in Replicas : Crash(c) \/ Rebalance(c)

Spec == Init /\ [][Next]_vars

\* Both threads loop for as long as the process runs, every call they make has
\* a timeout, and time passes.
FairSpec ==
  /\ Spec
  /\ \A c \in Replicas : WF_vars(ConsumerStep(c)) /\ WF_vars(SweeperStep(c))
  /\ \A i \in Ids : WF_vars(Age(i))

-----------------------------------------------------------------------------
(* Properties. *)

Steps == {"idle", "rules", "insert", "link", "publish", "dead_letter", "commit"}

Snapshots == [id : Ids, severity : Severities, level : Nat]
AlertEvents ==
  [id : Ids, type : {"CREATED", "ESCALATED"}, severity : Severities,
   level : Nat, status : {"OPEN"}]

TypeOK ==
  /\ status \in [Ids -> {"none", "OPEN", "ACKNOWLEDGED"}]
  /\ key \in [Ids -> Keys \cup {NoKey}]
  /\ severity \in [Ids -> Severities]
  /\ level \in [Ids -> Nat]
  /\ ripe \subseteq Ids
  /\ owner \in Replicas
  /\ position \in 0..MaxOffset /\ committed \in 0..MaxOffset
  /\ pc \in [Replicas -> Steps]
  /\ offset \in [Replicas -> 0..MaxOffset]
  /\ todo \in [Replicas -> SUBSET Keys]
  /\ hand \in [Replicas -> Keys \cup {NoKey}]
  /\ row \in [Replicas -> Ids \cup {0}]
  /\ batch \in [Replicas -> SUBSET Snapshots]
  /\ hot \in [Replicas -> Snapshots \cup {Nothing}]
  /\ events \subseteq AlertEvents
  /\ found \in [Replicas -> SUBSET Keys]
  /\ due \subseteq (1..MaxOffset) \X Keys
  /\ dlq \subseteq 1..MaxOffset /\ held \subseteq 1..MaxOffset
  /\ unsent \subseteq Ids /\ faults \in Nat

\* store.py:59-74.  However replicas race, crash or have the partition taken
\* away in mid-message, a key never has two OPEN alerts.
OneOpenPerKey ==
  \A i, j \in Ids : status[i] = "OPEN" /\ status[j] = "OPEN"
                    /\ key[i] = key[j] => i = j

\* main.py:130-208.  A message is committed only when every key it was found
\* due for has an alert, or the message was dead-lettered.
CommittedIsAlerted == \A d \in due : RowsFor(d[2]) # {} \/ d[1] \in dlq

\* store.py:39-43 says create_if_due "refuses to create a new alert if one for
\* the same (rule, dedupe scope) is still open/unresolved": no key has two rows
\* that are not RESOLVED, also when an operator acknowledges one.
OneUnresolvedPerKey ==
  \A i, j \in Rows : key[i] = key[j] => i = j

\* store.py:107-121.  The sweeper works from an old query result, and still an
\* alert's severity is its rule's moved up by exactly its escalation level:
\* docs/phases/07-alerting.md:32-34 says a sweep moves it "one rung up the
\* WARNING->HIGH->CRITICAL ladder".
Rank == [INFO |-> 0, WARNING |-> 1, HIGH |-> 2, CRITICAL |-> 3]

LevelMatchesSeverity ==
  \A i \in Rows : Rank[severity[i]] = Rank[RuleSeverity[key[i]]] + level[i]

\* main.py:194-200, 363-392.  An alert that was never announced on the alerts
\* topic is about to be, or its announcement was lost to a crash or a failed
\* call.
Announced(i) == \E e \in events : e.id = i /\ e.type = "CREATED"

UnannouncedExplained ==
  \A i \in Rows : \/ Announced(i) \/ i \in unsent
                  \/ \E c \in Replicas : row[c] = i

\* main.py:347-360.  An ESCALATED event carries the severity and the level the
\* row has when it is published.
EscalationIsCurrent ==
  [][\A e \in events' \ events : e.type = "ESCALATED" =>
       e.severity = severity[e.id] /\ e.level = level[e.id]]_vars

\* main.py:339-360.  An alert left OPEN climbs to the top of the ladder, unless
\* it is INFO, whatever fails along the way.
EscalatesToTop ==
  \A i \in Ids : (status[i] = "OPEN")
                   ~> (status[i] # "OPEN" \/ severity[i] \in {"CRITICAL", "INFO"})

\* docs/alerting.md:49 says of acknowledging: "This stops escalation."
AckStopsEscalation ==
  [][\A i \in Ids : status[i] = "ACKNOWLEDGED" => severity'[i] = severity[i]]_vars
=============================================================================
