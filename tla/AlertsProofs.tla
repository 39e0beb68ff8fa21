---------------------------- MODULE AlertsProofs ----------------------------
(***************************************************************************)
(* Proofs about Alerts.  For any number of replicas: one OPEN alert per    *)
(* key, messages committed only when alerted or dead-lettered, every       *)
(* unannounced alert explained, and severities between their rule's and    *)
(* what their escalation level accounts for.  With one replica, the        *)
(* deployed configuration: one row per key, severities that match their    *)
(* escalation level, and escalation events that say what the row says.     *)
(***************************************************************************)
EXTENDS Alerts, TLAPS

\* What a consumer has in hand at each of its calls.
InHand ==
  \A c \in Replicas :
    /\ pc[c] # "idle" => offset[c] \in 1..MaxOffset
    /\ pc[c] \in {"insert", "link", "publish"} => hand[c] \in Keys
    /\ pc[c] \in {"link", "publish"} <=> row[c] \in Ids

TypeInv == TypeOK /\ InHand

\* The type invariant by the part of the state it is about.
TableOk ==
  /\ status \in [Ids -> {"none", "OPEN", "ACKNOWLEDGED"}]
  /\ key \in [Ids -> Keys \cup {NoKey}]
  /\ severity \in [Ids -> Severities]
  /\ level \in [Ids -> Nat]
  /\ ripe \subseteq Ids

GroupOk ==
  owner \in Replicas /\ position \in 0..MaxOffset /\ committed \in 0..MaxOffset

ConsumerOk ==
  /\ pc \in [Replicas -> Steps]
  /\ offset \in [Replicas -> 0..MaxOffset]
  /\ todo \in [Replicas -> SUBSET Keys]
  /\ hand \in [Replicas -> Keys \cup {NoKey}]
  /\ row \in [Replicas -> Ids \cup {0}]
  /\ found \in [Replicas -> SUBSET Keys]

SweeperOk ==
  /\ batch \in [Replicas -> SUBSET Snapshots]
  /\ hot \in [Replicas -> Snapshots \cup {Nothing}]

HistoryOk ==
  /\ events \subseteq AlertEvents
  /\ due \subseteq (1..MaxOffset) \X Keys
  /\ dlq \subseteq 1..MaxOffset /\ held \subseteq 1..MaxOffset
  /\ unsent \subseteq Ids /\ faults \in Nat

LEMMA TypeParts ==
  TypeOK <=> TableOk /\ GroupOk /\ ConsumerOk /\ SweeperOk /\ HistoryOk
  BY DEF TypeOK, TableOk, GroupOk, ConsumerOk, SweeperOk, HistoryOk

LEMMA TypeInit == Init => TypeInv
<1> SUFFICES ASSUME Init PROVE TypeInv
  OBVIOUS
<1> USE AlertAssumptions
<1>1. TableOk /\ GroupOk
  BY DEF Init, TableOk, GroupOk, Severities
<1>2. ConsumerOk
  BY DEF Init, ConsumerOk, Steps
<1>3. SweeperOk /\ HistoryOk
  BY DEF Init, SweeperOk, HistoryOk
<1>4. InHand
  BY DEF Init, InHand, Ids
<1>5. QED
  BY <1>1, <1>2, <1>3, <1>4, TypeParts DEF TypeInv

\* The steps that leave the table alone.
QuietConsumer(c) ==
  \/ Poll(c) \/ RulesDone(c) \/ \E k \in Keys : SelectLatest(c, k)
  \/ InsertConflicts(c) \/ LinkIncident(c) \/ PublishCreated(c)
  \/ DeadLetter(c) \/ DeadLetterFails(c) \/ Commit(c) \/ CommitFails(c)

QuietSweeper(c) ==
  \/ Sweep(c) \/ (\E s \in batch[c] : SkipCandidate(c, s)) \/ PublishEscalated(c)

LEMMA QuietKeepsTable ==
  ASSUME NEW c \in Replicas,
         QuietConsumer(c) \/ QuietSweeper(c) \/ Crash(c) \/ Rebalance(c)
  PROVE  UNCHANGED table
<1>1. CASE QuietConsumer(c)
  BY <1>1 DEF QuietConsumer, Poll, RulesDone, SelectLatest, InsertConflicts,
     LinkIncident, PublishCreated, DeadLetter, DeadLetterFails, Commit,
     CommitFails
<1>2. CASE QuietSweeper(c)
  BY <1>2 DEF QuietSweeper, Sweep, SkipCandidate, PublishEscalated
<1>3. CASE Crash(c) \/ Rebalance(c)
  BY <1>3 DEF Crash, Rebalance
<1>4. QED
  BY <1>1, <1>2, <1>3

\* A step is one of these.
LEMMA StepCases ==
  ASSUME [Next]_vars
  PROVE  \/ \E c \in Replicas : QuietConsumer(c) \/ Insert(c) \/ StoreFails(c)
         \/ \E c \in Replicas : QuietSweeper(c)
         \/ \E c \in Replicas : \E s \in batch[c] : Escalate(c, s)
         \/ \E i \in Ids : Age(i) \/ Acknowledge(i)
         \/ \E c \in Replicas : Crash(c) \/ Rebalance(c)
         \/ UNCHANGED vars
  BY DEF Next, ConsumerStep, SweeperStep, QuietConsumer, QuietSweeper

\* What inserting a row does.
LEMMA InsertAdds ==
  ASSUME TypeInv, NEW i \in Ids, NEW k \in Keys, InsertRow(i, k)
  PROVE  /\ TableOk' /\ i \notin Rows /\ Rows' = Rows \cup {i}
         /\ key'[i] = k /\ status'[i] = "OPEN" /\ severity'[i] = RuleSeverity[k]
         /\ \A j \in Ids \ {i} : /\ status'[j] = status[j] /\ key'[j] = key[j]
                                 /\ severity'[j] = severity[j]
         /\ level' = level /\ ripe' = ripe
<1>1. TableOk
  BY TypeParts DEF TypeInv
<1>2. /\ i \notin Rows
      /\ status' = [status EXCEPT ![i] = "OPEN"]
      /\ key' = [key EXCEPT ![i] = k]
      /\ severity' = [severity EXCEPT ![i] = RuleSeverity[k]]
      /\ level' = level /\ ripe' = ripe
  BY DEF InsertRow
<1>3. RuleSeverity[k] \in Severities
  BY AlertAssumptions
<1>4. TableOk'
  BY <1>1, <1>2, <1>3 DEF TableOk
<1>5. /\ key'[i] = k /\ status'[i] = "OPEN" /\ severity'[i] = RuleSeverity[k]
      /\ \A j \in Ids \ {i} : /\ status'[j] = status[j] /\ key'[j] = key[j]
                              /\ severity'[j] = severity[j]
  BY <1>1, <1>2 DEF TableOk
<1>6. Rows' = Rows \cup {i}
  BY <1>5 DEF Rows
<1>7. QED
  BY <1>2, <1>4, <1>5, <1>6

LEMMA TableType == TypeInv /\ [Next]_vars => TableOk'
<1> SUFFICES ASSUME TypeInv, [Next]_vars PROVE TableOk'
  OBVIOUS
<1>1. TableOk /\ SweeperOk /\ InHand
  BY TypeParts DEF TypeInv
<1>2. UNCHANGED table => TableOk'
  BY <1>1 DEF TableOk, table
<1>3. ASSUME NEW c \in Replicas, Insert(c) \/ StoreFails(c) PROVE TableOk'
  <2>1. \/ UNCHANGED table
        \/ pc[c] = "insert" /\ \E i \in Ids : InsertRow(i, hand[c])
    BY <1>3 DEF Insert, StoreFails
  <2>2. pc[c] = "insert" => hand[c] \in Keys
    BY <1>1 DEF InHand
  <2>3. QED
    BY <2>1, <2>2, <1>2, InsertAdds
<1>4. ASSUME NEW c \in Replicas, NEW s \in batch[c], Escalate(c, s)
      PROVE  TableOk'
  <2>1. s.id \in Ids /\ s.severity \in Severities
    BY <1>1 DEF SweeperOk, Snapshots
  <2>2. next_severity(s.severity) \in Severities
    BY <2>1 DEF next_severity, Severities
  <2>3. QED
    BY <1>1, <1>4, <2>1, <2>2 DEF Escalate, TableOk
<1>5. ASSUME NEW i \in Ids, Age(i) \/ Acknowledge(i) PROVE TableOk'
  BY <1>1, <1>5 DEF Age, Acknowledge, TableOk
<1>6. QED
  BY <1>2, <1>3, <1>4, <1>5, StepCases, QuietKeepsTable DEF vars, table

LEMMA GroupType == TypeInv /\ [Next]_vars => GroupOk'
<1> SUFFICES ASSUME TypeInv, [Next]_vars PROVE GroupOk'
  OBVIOUS
<1> USE AlertAssumptions
<1>1. GroupOk /\ ConsumerOk
  BY TypeParts DEF TypeInv
<1>2. UNCHANGED group => GroupOk'
  BY <1>1 DEF GroupOk, group
<1>3. ASSUME NEW c \in Replicas, QuietConsumer(c) PROVE GroupOk'
  <2>1. CASE Poll(c)
    BY <1>1, <2>1 DEF Poll, GroupOk
  <2>2. CASE Commit(c)
    BY <1>1, <2>2 DEF Commit, CommitPoint, GroupOk, ConsumerOk
  <2>3. ~Poll(c) /\ ~Commit(c) => UNCHANGED group
    BY <1>3 DEF QuietConsumer, RulesDone, SelectLatest, InsertConflicts,
       LinkIncident, PublishCreated, DeadLetter, DeadLetterFails, CommitFails
  <2>4. QED
    BY <1>2, <2>1, <2>2, <2>3
<1>4. ASSUME NEW c \in Replicas, Insert(c) \/ StoreFails(c) \/ QuietSweeper(c)
      PROVE  GroupOk'
  BY <1>2, <1>4 DEF Insert, StoreFails, QuietSweeper, Sweep, SkipCandidate,
     PublishEscalated
<1>5. ASSUME NEW c \in Replicas, Crash(c) \/ Rebalance(c) PROVE GroupOk'
  BY <1>1, <1>5 DEF Crash, Rebalance, GroupOk
<1>6. ASSUME NEW c \in Replicas, NEW s \in batch[c], Escalate(c, s)
      PROVE  GroupOk'
  BY <1>2, <1>6 DEF Escalate
<1>7. ASSUME NEW i \in Ids, Age(i) \/ Acknowledge(i) PROVE GroupOk'
  BY <1>2, <1>7 DEF Age, Acknowledge
<1>8. QED
  BY <1>2, <1>3, <1>4, <1>5, <1>6, <1>7, StepCases DEF vars, group

\* The steps of the sweepers, the operators and the group leave the consumers
\* alone.
LEMMA ConsumerFrame ==
  ASSUME \/ \E c \in Replicas : QuietSweeper(c) \/ Rebalance(c)
         \/ \E c \in Replicas : \E s \in batch[c] : Escalate(c, s)
         \/ \E i \in Ids : Age(i) \/ Acknowledge(i)
         \/ UNCHANGED vars
  PROVE  UNCHANGED consumer
  BY DEF QuietSweeper, Sweep, SkipCandidate, PublishEscalated, Rebalance, Escalate,
         Age, Acknowledge, vars, consumer

LEMMA ConsumerType ==
  TypeInv /\ [Next]_vars => ConsumerOk' /\ InHand'
<1> SUFFICES ASSUME TypeInv, [Next]_vars PROVE ConsumerOk' /\ InHand'
  OBVIOUS
<1> USE AlertAssumptions
<1>1. GroupOk /\ ConsumerOk /\ InHand
  BY TypeParts DEF TypeInv
<1>2. UNCHANGED consumer => ConsumerOk' /\ InHand'
  BY <1>1 DEF ConsumerOk, InHand, consumer
<1>3. 0 \notin Ids
  BY DEF Ids
<1>4. ASSUME NEW c \in Replicas, Done(c) PROVE ConsumerOk' /\ InHand'
  <2>1. ConsumerOk'
    BY <1>1, <1>4 DEF Done, Goto, ConsumerOk, Steps
  <2>2. InHand'
    BY <1>1, <1>3, <1>4 DEF Done, Goto, ConsumerOk, InHand
  <2>3. QED
    BY <2>1, <2>2
<1>5. ASSUME NEW c \in Replicas, NextRule(c), pc[c] # "idle"
      PROVE  ConsumerOk' /\ InHand'
  <2>1. ConsumerOk'
    BY <1>1, <1>5 DEF NextRule, Goto, ConsumerOk, Steps
  <2>2. InHand'
    BY <1>1, <1>3, <1>5 DEF NextRule, Goto, ConsumerOk, InHand
  <2>3. QED
    BY <2>1, <2>2
<1>6. ASSUME NEW c \in Replicas, Poll(c) PROVE ConsumerOk' /\ InHand'
  <2>1. /\ position + 1 \in 1..MaxOffset /\ row[c] \notin Ids
        /\ offset' = [offset EXCEPT ![c] = position + 1]
        /\ \E n \in {"dead_letter", "rules"} : pc' = [pc EXCEPT ![c] = n]
        /\ todo' \in [Replicas -> SUBSET Keys]
        /\ found' \in [Replicas -> SUBSET Keys]
        /\ hand' = hand /\ row' = row
    BY <1>1, <1>6 DEF Poll, Goto, GroupOk, ConsumerOk, InHand
  <2>2. ConsumerOk'
    BY <1>1, <2>1 DEF ConsumerOk, Steps
  <2>3. InHand'
    BY <1>1, <2>1 DEF ConsumerOk, InHand
  <2>4. QED
    BY <2>2, <2>3
<1>7. ASSUME NEW c \in Replicas, NEW k \in Keys, SelectLatest(c, k)
      PROVE  ConsumerOk' /\ InHand'
  <2>1. ConsumerOk'
    BY <1>1, <1>7 DEF SelectLatest, Goto, ConsumerOk, Steps
  <2>2. InHand'
    BY <1>1, <1>7 DEF SelectLatest, Goto, ConsumerOk, InHand
  <2>3. QED
    BY <2>1, <2>2
<1>8. ASSUME NEW c \in Replicas,
             RulesDone(c) \/ DeadLetter(c) \/ LinkIncident(c) \/ StoreFails(c)
      PROVE  ConsumerOk' /\ InHand'
  <2>1. /\ UNCHANGED <<offset, todo, hand, row, found>>
        /\ \/ pc[c] = "rules" /\ pc' = [pc EXCEPT ![c] = "commit"]
           \/ pc[c] = "dead_letter" /\ pc' = [pc EXCEPT ![c] = "commit"]
           \/ pc[c] = "link" /\ pc' = [pc EXCEPT ![c] = "publish"]
           \/ pc[c] \in {"insert", "rules"} /\ pc' = [pc EXCEPT ![c] = "dead_letter"]
    BY <1>8 DEF RulesDone, DeadLetter, LinkIncident, StoreFails, Goto, OnStoreError,
       OnLinkError
  <2>2. ConsumerOk'
    BY <1>1, <2>1 DEF ConsumerOk, Steps
  <2>3. InHand'
    BY <1>1, <2>1 DEF ConsumerOk, InHand
  <2>4. QED
    BY <2>2, <2>3
<1>9. ASSUME NEW c \in Replicas, Insert(c) PROVE ConsumerOk' /\ InHand'
  <2>1. /\ UNCHANGED <<offset, todo, hand, found>>
        /\ pc[c] = "insert" /\ pc' = [pc EXCEPT ![c] = "link"]
        /\ \E i \in Ids : row' = [row EXCEPT ![c] = i]
    BY <1>9 DEF Insert, Goto
  <2>2. ConsumerOk'
    BY <1>1, <2>1 DEF ConsumerOk, Steps
  <2>3. InHand'
    BY <1>1, <2>1 DEF ConsumerOk, InHand
  <2>4. QED
    BY <2>2, <2>3
<1>10. ASSUME NEW c \in Replicas, QuietConsumer(c) PROVE ConsumerOk' /\ InHand'
  <2>1. CASE InsertConflicts(c) \/ PublishCreated(c)
    BY <1>5, <2>1 DEF InsertConflicts, PublishCreated
  <2>2. CASE DeadLetterFails(c) \/ Commit(c) \/ CommitFails(c)
    BY <1>4, <2>2 DEF DeadLetterFails, Commit, CommitFails
  <2>3. QED
    BY <1>6, <1>7, <1>8, <1>10, <2>1, <2>2 DEF QuietConsumer
<1>11. ASSUME NEW c \in Replicas, Crash(c) PROVE ConsumerOk' /\ InHand'
  BY <1>4, <1>11 DEF Crash
<1>12. QED
  BY <1>2, <1>8, <1>9, <1>10, <1>11, StepCases, ConsumerFrame

LEMMA SweeperType == TypeInv /\ [Next]_vars => SweeperOk'
<1> SUFFICES ASSUME TypeInv, [Next]_vars PROVE SweeperOk'
  OBVIOUS
<1>1. TableOk /\ SweeperOk
  BY TypeParts DEF TypeInv
<1>2. UNCHANGED sweeper => SweeperOk'
  BY <1>1 DEF SweeperOk, sweeper
<1>3. ASSUME NEW c \in Replicas, QuietConsumer(c) \/ Insert(c) \/ StoreFails(c)
      PROVE  SweeperOk'
  BY <1>2, <1>3 DEF QuietConsumer, Poll, RulesDone, SelectLatest, InsertConflicts,
     LinkIncident, PublishCreated, DeadLetter, DeadLetterFails, Commit,
     CommitFails, Insert, StoreFails
<1>4. ASSUME NEW c \in Replicas, Sweep(c) PROVE SweeperOk'
  <2>1. due_for_escalation \subseteq Snapshots
    BY <1>1 DEF due_for_escalation, Snapshot, Snapshots, TableOk
  <2>2. QED
    BY <1>1, <1>4, <2>1 DEF Sweep, SweeperOk
<1>5. ASSUME NEW c \in Replicas, NEW s \in batch[c], SkipCandidate(c, s)
      PROVE  SweeperOk'
  BY <1>1, <1>5 DEF SkipCandidate, SweeperOk
<1>6. ASSUME NEW c \in Replicas, NEW s \in batch[c], Escalate(c, s)
      PROVE  SweeperOk'
  <2>1. s.id \in Ids /\ s.severity \in Severities /\ s.level \in Nat
    BY <1>1 DEF SweeperOk, Snapshots
  <2>2. next_severity(s.severity) \in Severities
    BY <2>1 DEF next_severity, Severities
  <2>3. Snapshot(s.id, next_severity(s.severity), BumpedLevel(s)) \in Snapshots
    BY <2>1, <2>2 DEF Snapshot, Snapshots, BumpedLevel
  <2>4. QED
    BY <1>1, <1>6, <2>3 DEF Escalate, SweeperOk
<1>7. ASSUME NEW c \in Replicas, PublishEscalated(c) \/ Crash(c) PROVE SweeperOk'
  BY <1>1, <1>7 DEF PublishEscalated, Crash, SweeperOk
<1>8. ASSUME NEW c \in Replicas, Rebalance(c) PROVE SweeperOk'
  BY <1>2, <1>8 DEF Rebalance
<1>9. ASSUME NEW i \in Ids, Age(i) \/ Acknowledge(i) PROVE SweeperOk'
  BY <1>2, <1>9 DEF Age, Acknowledge
<1>10. QED
  BY <1>2, <1>3, <1>4, <1>5, <1>6, <1>7, <1>8, <1>9, StepCases
     DEF QuietSweeper, vars, sweeper

LEMMA FaultType ==
  ASSUME TypeInv, Fault \/ UNCHANGED faults
  PROVE  faults' \in Nat
  BY DEF TypeInv, TypeOK, Fault

LEMMA HistoryType == TypeInv /\ [Next]_vars => HistoryOk'
<1> SUFFICES ASSUME TypeInv, [Next]_vars PROVE HistoryOk'
  OBVIOUS
<1>1. ConsumerOk /\ SweeperOk /\ HistoryOk /\ InHand
  BY TypeParts DEF TypeInv
<1>2. (Fault \/ UNCHANGED faults) /\ UNCHANGED <<events, due, dlq, held, unsent>>
        => HistoryOk'
  BY <1>1, FaultType DEF HistoryOk
<1>3. ASSUME NEW c \in Replicas, QuietConsumer(c) PROVE HistoryOk'
  <2>1. CASE PublishCreated(c)
    <3>1. row[c] \in Ids /\ hand[c] \in Keys
      BY <1>1, <2>1 DEF PublishCreated, InHand
    <3>2. RuleSeverity[hand[c]] \in Severities
      BY <3>1, AlertAssumptions
    <3>3. AlertEvent("CREATED", Snapshot(row[c], RuleSeverity[hand[c]], 0))
            \in AlertEvents
      BY <3>1, <3>2 DEF AlertEvent, Snapshot, AlertEvents
    <3>4. /\ events' \subseteq AlertEvents /\ unsent' \subseteq Ids
          /\ UNCHANGED <<due, dlq, held>>
      BY <1>1, <2>1, <3>1, <3>3 DEF PublishCreated, HistoryOk
    <3>5. faults' \in Nat
      BY <2>1, FaultType DEF PublishCreated
    <3>6. QED
      BY <1>1, <3>4, <3>5 DEF HistoryOk
  <2>2. CASE DeadLetter(c) \/ DeadLetterFails(c)
    <3>1. offset[c] \in 1..MaxOffset
      BY <1>1, <2>2 DEF DeadLetter, DeadLetterFails, InHand
    <3>2. /\ dlq' \in {dlq, dlq \cup {offset[c]}}
          /\ held' \in {held, held \cup {offset[c]}}
          /\ UNCHANGED <<events, due, unsent>> /\ (Fault \/ UNCHANGED faults)
      BY <2>2 DEF DeadLetter, DeadLetterFails
    <3>3. QED
      BY <1>1, <3>1, <3>2, FaultType DEF HistoryOk
  <2>3. CASE Commit(c)
    <3>1. offset[c] \in 1..MaxOffset /\ found[c] \subseteq Keys
      BY <1>1, <2>3 DEF Commit, InHand, ConsumerOk
    <3>2. /\ due' = due \cup ({offset[c]} \X found[c])
          /\ UNCHANGED <<events, dlq, held, unsent, faults>>
      BY <2>3 DEF Commit
    <3>3. due' \subseteq (1..MaxOffset) \X Keys
      BY <1>1, <3>1, <3>2 DEF HistoryOk
    <3>4. QED
      BY <1>1, <3>2, <3>3 DEF HistoryOk
  <2>4. CASE \/ Poll(c) \/ RulesDone(c) \/ \E k \in Keys : SelectLatest(c, k)
             \/ InsertConflicts(c) \/ LinkIncident(c) \/ CommitFails(c)
    BY <1>2, <2>4 DEF Poll, RulesDone, SelectLatest, InsertConflicts,
       LinkIncident, CommitFails, history
  <2>5. QED
    BY <1>3, <2>1, <2>2, <2>3, <2>4 DEF QuietConsumer
<1>4. ASSUME NEW c \in Replicas, Insert(c) PROVE HistoryOk'
  BY <1>2, <1>4 DEF Insert, history
<1>5. ASSUME NEW c \in Replicas, StoreFails(c) PROVE HistoryOk'
  <2>1. unsent' \subseteq Ids /\ UNCHANGED <<events, due, dlq, held>> /\ Fault
    BY <1>1, <1>5 DEF StoreFails, HistoryOk
  <2>2. QED
    BY <1>1, <2>1, FaultType DEF HistoryOk
<1>6. ASSUME NEW c \in Replicas, QuietSweeper(c) PROVE HistoryOk'
  <2>1. CASE PublishEscalated(c)
    <3>1. hot[c] \in Snapshots
      BY <1>1, <2>1 DEF PublishEscalated, SweeperOk
    <3>2. AlertEvent("ESCALATED", hot[c]) \in AlertEvents
      BY <3>1 DEF AlertEvent, Snapshots, AlertEvents
    <3>3. /\ events' \subseteq AlertEvents
          /\ UNCHANGED <<due, dlq, held, unsent>> /\ (Fault \/ UNCHANGED faults)
      BY <1>1, <2>1, <3>2 DEF PublishEscalated, HistoryOk, history
    <3>4. QED
      BY <1>1, <3>3, FaultType DEF HistoryOk
  <2>2. CASE Sweep(c) \/ \E s \in batch[c] : SkipCandidate(c, s)
    BY <1>2, <2>2 DEF Sweep, SkipCandidate, history
  <2>3. QED
    BY <1>6, <2>1, <2>2 DEF QuietSweeper
<1>7. ASSUME NEW c \in Replicas, NEW s \in batch[c], Escalate(c, s)
      PROVE  HistoryOk'
  BY <1>2, <1>7 DEF Escalate, history
<1>8. ASSUME NEW i \in Ids, Age(i) \/ Acknowledge(i) PROVE HistoryOk'
  BY <1>2, <1>8 DEF Age, Acknowledge, history
<1>9. ASSUME NEW c \in Replicas, Crash(c) PROVE HistoryOk'
  <2>1. unsent' \subseteq Ids /\ UNCHANGED <<events, due, dlq, held>> /\ Fault
    BY <1>1, <1>9 DEF Crash, HistoryOk, ConsumerOk
  <2>2. QED
    BY <1>1, <2>1, FaultType DEF HistoryOk
<1>10. ASSUME NEW c \in Replicas, Rebalance(c) PROVE HistoryOk'
  BY <1>2, <1>10 DEF Rebalance, history
<1>11. CASE UNCHANGED vars
  BY <1>2, <1>11 DEF vars
<1>12. QED
  BY <1>3, <1>4, <1>5, <1>6, <1>7, <1>8, <1>9, <1>10, <1>11, StepCases

LEMMA TypeNext == TypeInv /\ [Next]_vars => TypeInv'
<1> SUFFICES ASSUME TypeInv, [Next]_vars PROVE TypeInv'
  OBVIOUS
<1>1. TableOk' /\ GroupOk' /\ ConsumerOk' /\ InHand'
  BY TableType, GroupType, ConsumerType
<1>2. SweeperOk' /\ HistoryOk'
  BY SweeperType, HistoryType
<1>3. TypeOK'
  BY <1>1, <1>2 DEF TypeOK, TableOk, GroupOk, ConsumerOk, SweeperOk, HistoryOk
<1>4. QED
  BY <1>1, <1>3 DEF TypeInv

\* Every variable of the alert service keeps its type, however many replicas
\* there are: rows, offsets, keys in hand, sweeper candidates and events.
THEOREM AlertsType == Spec => []TypeOK
<1>1. TypeInv => TypeOK
  BY DEF TypeInv
<1>2. QED
  BY TypeInit, TypeNext, <1>1, PTL DEF Spec

-----------------------------------------------------------------------------
(* One OPEN alert per key, and no message lost, for any number of replicas. *)

\* Every key a message was due for is still to be tried, in hand, or has a row,
\* until the message is dead-lettered.
FoundOk(c) ==
  /\ pc[c] \in {"rules", "insert", "link", "publish"} =>
       \A k \in found[c] : \/ k \in todo[c] \/ RowsFor(k) # {}
                           \/ pc[c] = "insert" /\ k = hand[c]
  /\ pc[c] = "commit" =>
       (\A k \in found[c] : RowsFor(k) # {}) \/ offset[c] \in dlq

FoundInv == \A c \in Replicas : FoundOk(c)

RowInv ==
  /\ TypeInv
  /\ OneOpenPerKey
  /\ FoundInv /\ CommittedIsAlerted
  /\ UnannouncedExplained

LEMMA RowInit == Init => RowInv
<1> SUFFICES ASSUME Init PROVE RowInv
  OBVIOUS
<1>1. Rows = {} /\ due = {}
  BY DEF Init, Rows
<1>2. OneOpenPerKey /\ FoundInv
  BY DEF Init, OneOpenPerKey, FoundInv, FoundOk
<1>3. CommittedIsAlerted /\ UnannouncedExplained
  BY <1>1 DEF CommittedIsAlerted, UnannouncedExplained
<1>4. QED
  BY <1>2, <1>3, TypeInit DEF RowInv

\* How a step changes the rows: not at all, by one insert of the key in hand
\* while the key has no OPEN alert, or by an acknowledgement.
LEMMA RowCases ==
  ASSUME TypeInv, [Next]_vars
  PROVE  \/ status' = status /\ key' = key
         \/ \E c \in Replicas, i \in Ids :
              /\ Insert(c) \/ StoreFails(c)
              /\ pc[c] = "insert" /\ hand[c] \in Keys /\ OpenFor(hand[c]) = {}
              /\ InsertRow(i, hand[c])
         \/ \E i \in Ids : Acknowledge(i)
<1>1. ASSUME NEW c \in Replicas, Insert(c) \/ StoreFails(c), ~UNCHANGED table
      PROVE  /\ pc[c] = "insert" /\ hand[c] \in Keys /\ OpenFor(hand[c]) = {}
             /\ \E i \in Ids : InsertRow(i, hand[c])
  BY <1>1 DEF Insert, StoreFails, Conflicts, TypeInv, InHand
<1>2. ASSUME NEW c \in Replicas, NEW s \in batch[c], Escalate(c, s)
      PROVE  status' = status /\ key' = key
  BY <1>2 DEF Escalate
<1>3. ASSUME NEW i \in Ids, Age(i) PROVE status' = status /\ key' = key
  BY <1>3 DEF Age
<1>4. QED
  BY <1>1, <1>2, <1>3, StepCases, QuietKeepsTable DEF table, vars

\* Rows are never deleted and keep their key.
LEMMA RowsKept ==
  ASSUME TypeInv, [Next]_vars
  PROVE  /\ Rows \subseteq Rows' /\ \A i \in Rows : key'[i] = key[i]
         /\ \A k : RowsFor(k) # {} => RowsFor(k)' # {}
<1>1. Rows \subseteq Rows' /\ \A i \in Rows : key'[i] = key[i]
  <2>1. CASE status' = status /\ key' = key
    BY <2>1 DEF Rows
  <2>2. ASSUME NEW i \in Ids, NEW k \in Keys, InsertRow(i, k)
        PROVE  Rows \subseteq Rows' /\ \A j \in Rows : key'[j] = key[j]
    BY <2>2, InsertAdds DEF Rows
  <2>3. ASSUME NEW i \in Ids, Acknowledge(i)
        PROVE  Rows \subseteq Rows' /\ \A j \in Rows : key'[j] = key[j]
    BY <2>3 DEF Acknowledge, Rows, TypeInv, TypeOK
  <2>4. QED
    BY <2>1, <2>2, <2>3, RowCases
<1>2. \A k : RowsFor(k) # {} => RowsFor(k)' # {}
  BY <1>1 DEF RowsFor
<1>3. QED
  BY <1>1, <1>2

LEMMA OpenNext == TypeInv /\ OneOpenPerKey /\ [Next]_vars => OneOpenPerKey'
<1> SUFFICES ASSUME TypeInv, OneOpenPerKey, [Next]_vars PROVE OneOpenPerKey'
  OBVIOUS
<1>1. CASE status' = status /\ key' = key
  BY <1>1 DEF OneOpenPerKey
<1>2. ASSUME NEW i \in Ids, NEW k \in Keys, OpenFor(k) = {}, InsertRow(i, k)
      PROVE  OneOpenPerKey'
  <2>1. /\ key'[i] = k
        /\ \A j \in Ids \ {i} : status'[j] = status[j] /\ key'[j] = key[j]
    BY <1>2, InsertAdds
  <2>2. \A j \in Ids : ~(status[j] = "OPEN" /\ key[j] = k)
    BY <1>2 DEF OpenFor, RowsFor, Rows
  <2>3. QED
    BY <2>1, <2>2 DEF OneOpenPerKey
<1>3. ASSUME NEW i \in Ids, Acknowledge(i) PROVE OneOpenPerKey'
  BY <1>3 DEF Acknowledge, OneOpenPerKey, TypeInv, TypeOK
<1>4. QED
  BY <1>1, <1>2, <1>3, RowCases

LEMMA DlqGrows == [Next]_vars => dlq \subseteq dlq'
  BY DEF Next, ConsumerStep, SweeperStep, Poll, RulesDone, SelectLatest, Insert,
         InsertConflicts, StoreFails, LinkIncident, PublishCreated, DeadLetter,
         DeadLetterFails, Commit, CommitFails, Sweep, SkipCandidate, Escalate,
         PublishEscalated, Age, Acknowledge, Crash, Rebalance, history, vars

\* A consumer that does not move keeps what it relies on.
LEMMA FoundKept ==
  ASSUME RowInv, [Next]_vars, NEW c \in Replicas,
         pc'[c] = pc[c], offset'[c] = offset[c], todo'[c] = todo[c],
         hand'[c] = hand[c], found'[c] = found[c]
  PROVE  FoundOk(c)'
<1>1. FoundOk(c) /\ TypeInv
  BY DEF RowInv, FoundInv
<1>2. QED
  BY <1>1, RowsKept, DlqGrows DEF FoundOk

LEMMA FoundNext == RowInv /\ [Next]_vars => FoundInv'
<1> SUFFICES ASSUME RowInv, [Next]_vars PROVE FoundInv'
  OBVIOUS
<1>0. TypeInv /\ ConsumerOk /\ \A c \in Replicas : FoundOk(c)
  BY TypeParts DEF RowInv, FoundInv, TypeInv
<1>00. \A k : RowsFor(k) # {} => RowsFor(k)' # {}
  BY <1>0, RowsKept
<1>1. ASSUME UNCHANGED consumer PROVE FoundInv'
  BY <1>1, FoundKept DEF consumer, FoundInv
\* One consumer moves; the others keep what they rely on.
<1>2. ASSUME NEW c \in Replicas,
             \A d \in Replicas \ {c} :
               /\ pc'[d] = pc[d] /\ offset'[d] = offset[d] /\ todo'[d] = todo[d]
               /\ hand'[d] = hand[d] /\ found'[d] = found[d],
             FoundOk(c)'
      PROVE  FoundInv'
  BY <1>2, FoundKept DEF FoundInv
<1>3. ASSUME NEW c \in Replicas, Done(c) PROVE FoundInv'
  <2>1. pc'[c] = "idle"
    BY <1>0, <1>3 DEF Done, Goto, ConsumerOk
  <2>2. FoundOk(c)'
    BY <2>1 DEF FoundOk
  <2>3. QED
    BY <1>0, <1>2, <1>3, <2>2 DEF Done, Goto, ConsumerOk
<1>4. ASSUME NEW c \in Replicas, Poll(c) PROVE FoundInv'
  <2>1. \/ pc'[c] = "dead_letter"
        \/ pc'[c] = "rules" /\ todo'[c] = found'[c]
    BY <1>0, <1>4 DEF Poll, Goto, ConsumerOk
  <2>2. FoundOk(c)'
    BY <2>1 DEF FoundOk
  <2>3. QED
    BY <1>0, <1>2, <1>4, <2>2 DEF Poll, Goto, ConsumerOk
<1>5. ASSUME NEW c \in Replicas, NEW k \in Keys, SelectLatest(c, k)
      PROVE  FoundInv'
  <2>1. /\ pc[c] = "rules" /\ found'[c] = found[c]
        /\ todo'[c] = todo[c] \ {k}
        /\ \/ pc'[c] = "rules" /\ RowsFor(k) # {}
           \/ pc'[c] = "insert" /\ hand'[c] = k
    BY <1>0, <1>5 DEF SelectLatest, Goto, Suppressed, ConsumerOk
  <2>2. FoundOk(c)'
    BY <1>0, <1>00, <2>1 DEF FoundOk
  <2>3. QED
    BY <1>0, <1>2, <1>5, <2>2 DEF SelectLatest, Goto, ConsumerOk
<1>6. ASSUME NEW c \in Replicas, RulesDone(c) \/ LinkIncident(c) \/ DeadLetter(c)
      PROVE  FoundInv'
  <2>1. /\ found'[c] = found[c] /\ todo'[c] = todo[c] /\ offset'[c] = offset[c]
        /\ \/ pc[c] = "rules" /\ todo[c] = {} /\ pc'[c] = "commit"
           \/ pc[c] = "link" /\ pc'[c] = "publish"
           \/ pc[c] = "dead_letter" /\ pc'[c] = "commit" /\ offset[c] \in dlq'
    BY <1>0, <1>6 DEF RulesDone, LinkIncident, DeadLetter, Goto, OnLinkError,
       ConsumerOk
  <2>2. FoundOk(c)'
    BY <1>0, <1>00, <2>1 DEF FoundOk
  <2>3. QED
    BY <1>0, <1>2, <1>6, <2>2
       DEF RulesDone, LinkIncident, DeadLetter, Goto, ConsumerOk
<1>7. ASSUME NEW c \in Replicas, InsertConflicts(c) \/ PublishCreated(c)
      PROVE  FoundInv'
  <2>1. /\ found'[c] = found[c] /\ todo'[c] = todo[c] /\ pc'[c] = "rules"
        /\ \/ pc[c] = "insert" /\ OpenFor(hand[c]) # {}
           \/ pc[c] = "publish"
    BY <1>0, <1>7 DEF InsertConflicts, PublishCreated, NextRule, Goto, Conflicts,
       ConsumerOk
  <2>2. OpenFor(hand[c]) # {} => RowsFor(hand[c]) # {}
    BY DEF OpenFor
  <2>3. FoundOk(c)'
    BY <1>0, <1>00, <2>1, <2>2 DEF FoundOk
  <2>4. QED
    BY <1>0, <1>2, <1>7, <2>3
       DEF InsertConflicts, PublishCreated, NextRule, Goto, ConsumerOk
<1>8. ASSUME NEW c \in Replicas, Insert(c) PROVE FoundInv'
  <2>1. /\ found'[c] = found[c] /\ todo'[c] = todo[c] /\ pc'[c] = "link"
        /\ pc[c] = "insert"
    BY <1>0, <1>8 DEF Insert, Goto, ConsumerOk
  <2>2. PICK i \in Ids : InsertRow(i, hand[c])
    BY <1>8 DEF Insert
  <2>3. i \in Rows' /\ key'[i] = hand[c]
    BY <1>0, <2>1, <2>2, InsertAdds DEF TypeInv, InHand
  <2>4. \A k \in found'[c] : k \in todo'[c] \/ RowsFor(k)' # {}
    BY <1>0, <1>00, <2>1, <2>3 DEF FoundOk, RowsFor
  <2>5. FoundOk(c)'
    BY <2>1, <2>4 DEF FoundOk
  <2>6. QED
    BY <1>0, <1>2, <1>8, <2>5 DEF Insert, Goto, ConsumerOk
<1>9. ASSUME NEW c \in Replicas, StoreFails(c) PROVE FoundInv'
  <2>1. pc'[c] = "dead_letter"
    BY <1>0, <1>9 DEF StoreFails, Goto, OnStoreError, ConsumerOk
  <2>2. FoundOk(c)'
    BY <2>1 DEF FoundOk
  <2>3. QED
    BY <1>0, <1>2, <1>9, <2>2 DEF StoreFails, Goto, ConsumerOk
<1>10. ASSUME NEW c \in Replicas,
              DeadLetterFails(c) \/ Commit(c) \/ CommitFails(c) \/ Crash(c)
       PROVE  FoundInv'
  BY <1>3, <1>10 DEF DeadLetterFails, Commit, CommitFails, Crash
<1>11. QED
  BY <1>1, <1>4, <1>5, <1>6, <1>7, <1>8, <1>9, <1>10, StepCases, ConsumerFrame
     DEF QuietConsumer

LEMMA CommittedNext == RowInv /\ [Next]_vars => CommittedIsAlerted'
<1> SUFFICES ASSUME RowInv, [Next]_vars, NEW d \in due'
             PROVE  RowsFor(d[2])' # {} \/ d[1] \in dlq'
  BY DEF CommittedIsAlerted
<1>1. /\ dlq \subseteq dlq'
      /\ \A k : RowsFor(k) # {} => RowsFor(k)' # {}
  BY DlqGrows, RowsKept DEF RowInv
<1>2. CASE d \in due
  BY <1>1, <1>2 DEF RowInv, CommittedIsAlerted
<1>3. ASSUME NEW c \in Replicas, Commit(c), d \notin due
      PROVE  RowsFor(d[2])' # {} \/ d[1] \in dlq'
  <2>1. pc[c] = "commit" /\ d[1] = offset[c] /\ d[2] \in found[c]
    BY <1>3 DEF Commit
  <2>2. FoundOk(c)
    BY DEF RowInv, FoundInv
  <2>3. QED
    BY <1>1, <2>1, <2>2 DEF FoundOk
<1>4. d \notin due => \E c \in Replicas : Commit(c)
  BY DEF Next, ConsumerStep, SweeperStep, Poll, RulesDone, SelectLatest, Insert,
         InsertConflicts, StoreFails, LinkIncident, PublishCreated, DeadLetter,
         DeadLetterFails, CommitFails, Sweep, SkipCandidate, Escalate,
         PublishEscalated, Age, Acknowledge, Crash, Rebalance, history, vars
<1>5. QED
  BY <1>2, <1>3, <1>4

\* Events are never withdrawn, and a lost announcement stays known.
LEMMA AnnouncementsGrow ==
  [Next]_vars => events \subseteq events' /\ unsent \subseteq unsent'
  BY DEF Next, ConsumerStep, SweeperStep, Poll, RulesDone, SelectLatest, Insert,
         InsertConflicts, StoreFails, LinkIncident, PublishCreated, DeadLetter,
         DeadLetterFails, Commit, CommitFails, Sweep, SkipCandidate, Escalate,
         PublishEscalated, Age, Acknowledge, Crash, Rebalance, history, vars

LEMMA UnannouncedNext == RowInv /\ [Next]_vars => UnannouncedExplained'
<1> SUFFICES ASSUME RowInv, [Next]_vars PROVE UnannouncedExplained'
  OBVIOUS
<1>0. TypeInv /\ ConsumerOk /\ InHand
  BY TypeParts DEF RowInv, TypeInv
<1>1. \A i : /\ Announced(i) => Announced(i)'
             /\ i \in unsent => i \in unsent'
  BY AnnouncementsGrow DEF Announced
\* Rows stay as they are, and a consumer that lets go of a row explains it.
<1>2. ASSUME Rows' = Rows,
             \A c \in Replicas, i \in Ids :
               row[c] = i => row'[c] = i \/ Announced(i)' \/ i \in unsent'
      PROVE  UnannouncedExplained'
  BY <1>1, <1>2 DEF UnannouncedExplained, RowInv, Rows
<1>3. ASSUME row' = row, Rows' = Rows PROVE UnannouncedExplained'
  BY <1>2, <1>3
<1>4. ASSUME NEW c \in Replicas, QuietConsumer(c) PROVE UnannouncedExplained'
  <2>1. Rows' = Rows
    BY <1>4, QuietKeepsTable DEF table, Rows
  <2>2. CASE PublishCreated(c)
    <3> DEFINE created == AlertEvent("CREATED",
                                    Snapshot(row[c], RuleSeverity[hand[c]], 0))
    <3>1. created.id = row[c] /\ created.type = "CREATED"
      BY DEF AlertEvent, Snapshot
    <3>2. created \in events' \/ row[c] \in unsent'
      BY <2>2 DEF PublishCreated
    <3>3. \A i : row[c] = i => Announced(i)' \/ i \in unsent'
      BY <3>1, <3>2 DEF Announced
    <3>4. \A d \in Replicas \ {c} : row'[d] = row[d]
      BY <1>0, <2>2 DEF PublishCreated, NextRule, ConsumerOk
    <3>5. QED
      BY <1>2, <2>1, <3>3, <3>4
  <2>3. CASE \/ InsertConflicts(c) \/ DeadLetterFails(c) \/ Commit(c)
             \/ CommitFails(c)
    <3>1. pc[c] \notin {"link", "publish"}
      BY <2>3 DEF InsertConflicts, DeadLetterFails, Commit, CommitFails
    <3>2. row[c] \notin Ids
      BY <1>0, <3>1 DEF InHand
    <3>3. \A d \in Replicas \ {c} : row'[d] = row[d]
      BY <1>0, <2>3 DEF InsertConflicts, DeadLetterFails, Commit, CommitFails,
         NextRule, Done, ConsumerOk
    <3>4. QED
      BY <1>2, <2>1, <3>2, <3>3
  <2>4. CASE \/ Poll(c) \/ RulesDone(c) \/ \E k \in Keys : SelectLatest(c, k)
             \/ LinkIncident(c) \/ DeadLetter(c)
    BY <1>3, <2>1, <2>4 DEF Poll, RulesDone, SelectLatest, LinkIncident, DeadLetter
  <2>5. QED
    BY <1>4, <2>2, <2>3, <2>4 DEF QuietConsumer
<1>5. ASSUME NEW c \in Replicas, Insert(c) PROVE UnannouncedExplained'
  <2>1. PICK i \in Ids : InsertRow(i, hand[c]) /\ row' = [row EXCEPT ![c] = i]
    BY <1>5 DEF Insert
  <2>2. pc[c] = "insert" /\ hand[c] \in Keys /\ row[c] \notin Ids
    BY <1>0, <1>5 DEF Insert, InHand
  <2>3. Rows' = Rows \cup {i}
    BY <1>0, <2>1, <2>2, InsertAdds
  <2>4. /\ row'[c] = i
        /\ \A d \in Replicas \ {c} : row'[d] = row[d]
    BY <1>0, <2>1 DEF ConsumerOk
  <2>5. QED
    BY <1>1, <2>2, <2>3, <2>4 DEF UnannouncedExplained, RowInv, Rows
<1>6. ASSUME NEW c \in Replicas, StoreFails(c) PROVE UnannouncedExplained'
  <2>1. row' = row
    BY <1>6 DEF StoreFails
  <2>2. CASE UNCHANGED table
    BY <1>3, <2>1, <2>2 DEF table, Rows
  <2>3. CASE ~UNCHANGED table
    <3>1. PICK i \in Ids : InsertRow(i, hand[c]) /\ i \in unsent'
      BY <1>6, <2>3 DEF StoreFails
    <3>2. hand[c] \in Keys
      BY <1>0, <1>6, <2>3 DEF StoreFails, InHand
    <3>3. Rows' = Rows \cup {i}
      BY <1>0, <3>1, <3>2, InsertAdds
    <3>4. QED
      BY <1>1, <2>1, <3>1, <3>3 DEF UnannouncedExplained, RowInv
  <2>4. QED
    BY <2>2, <2>3
<1>7. ASSUME NEW c \in Replicas, Crash(c) PROVE UnannouncedExplained'
  <2>1. Rows' = Rows
    BY <1>7 DEF Crash, table, Rows
  <2>2. row[c] \in Ids => row[c] \in unsent'
    BY <1>7 DEF Crash, Ids
  <2>3. \A d \in Replicas \ {c} : row'[d] = row[d]
    BY <1>0, <1>7 DEF Crash, Done, ConsumerOk
  <2>4. QED
    BY <1>2, <2>1, <2>2, <2>3
<1>8. ASSUME NEW c \in Replicas, QuietSweeper(c) \/ Rebalance(c)
      PROVE  UnannouncedExplained'
  BY <1>3, <1>8, QuietKeepsTable, ConsumerFrame DEF table, Rows, consumer
<1>9. ASSUME NEW c \in Replicas, NEW s \in batch[c], Escalate(c, s)
      PROVE  UnannouncedExplained'
  BY <1>3, <1>9 DEF Escalate, consumer, Rows
<1>10. ASSUME NEW i \in Ids, Age(i) \/ Acknowledge(i) PROVE UnannouncedExplained'
  <2>1. Rows' = Rows /\ row' = row
    BY <1>0, <1>10 DEF Age, Acknowledge, consumer, Rows, TypeInv, TypeOK
  <2>2. QED
    BY <1>3, <2>1
<1>11. CASE UNCHANGED vars
  BY <1>3, <1>11 DEF vars, Rows
<1>12. QED
  BY <1>4, <1>5, <1>6, <1>7, <1>8, <1>9, <1>10, <1>11, StepCases

LEMMA RowNext == RowInv /\ [Next]_vars => RowInv'
<1> SUFFICES ASSUME RowInv, [Next]_vars PROVE RowInv'
  OBVIOUS
<1>1. TypeInv' /\ OneOpenPerKey'
  BY TypeNext, OpenNext DEF RowInv
<1>2. FoundInv' /\ CommittedIsAlerted' /\ UnannouncedExplained'
  BY FoundNext, CommittedNext, UnannouncedNext
<1>3. QED
  BY <1>1, <1>2 DEF RowInv

\* create_if_due's partial unique index and ON CONFLICT keep a key from ever
\* having two OPEN alerts, whatever the other replicas do between the SELECT
\* and the INSERT.
THEOREM AlertsOneOpen == Spec => []OneOpenPerKey
<1>1. RowInv => OneOpenPerKey
  BY DEF RowInv
<1>2. QED
  BY RowInit, RowNext, <1>1, PTL DEF Spec

\* The consumers commit a message only when every key it was due for has an
\* alert or the message is on the dead-letter topic, through failed calls,
\* crashes and rebalances in mid-message.
THEOREM AlertsCommitted == Spec => []CommittedIsAlerted
<1>1. RowInv => CommittedIsAlerted
  BY DEF RowInv
<1>2. QED
  BY RowInit, RowNext, <1>1, PTL DEF Spec

\* An alert no CREATED event announced is in a consumer's hand or was lost by
\* a failed call or a crash: no path through the rules loop forgets one.
THEOREM AlertsUnannounced == Spec => []UnannouncedExplained
<1>1. RowInv => UnannouncedExplained
  BY DEF RowInv
<1>2. QED
  BY RowInit, RowNext, <1>1, PTL DEF Spec

-----------------------------------------------------------------------------
(* One replica: the SELECT, the INSERT and the sweep are not raced. *)

OneReplica == \A c, d \in Replicas : c = d

\* No one else inserts between the SELECT and the INSERT.
SelectHolds ==
  \A c \in Replicas : pc[c] = "insert" => RowsFor(hand[c]) = {}

RowsWellFormed ==
  /\ \A i \in Rows : key[i] \in Keys
  /\ \A i \in Ids \ Rows : level[i] = 0

\* What the sweeper remembers of a row is what the row says.
Current(s) == s.id \in Rows /\ severity[s.id] = s.severity /\ level[s.id] = s.level

SweeperCurrent ==
  \A c \in Replicas : /\ \A s \in batch[c] : Current(s)
                      /\ hot[c] # Nothing => Current(hot[c])

SoleInv ==
  /\ OneReplica /\ TypeInv
  /\ SelectHolds /\ OneUnresolvedPerKey
  /\ RowsWellFormed /\ SweeperCurrent /\ LevelMatchesSeverity

LEMMA SoleInit == Init /\ OneReplica => SoleInv
<1> SUFFICES ASSUME Init, OneReplica PROVE SoleInv
  OBVIOUS
<1>1. Rows = {}
  BY DEF Init, Rows
<1>2. SelectHolds /\ SweeperCurrent
  BY DEF Init, SelectHolds, SweeperCurrent
<1>3. RowsWellFormed /\ OneUnresolvedPerKey /\ LevelMatchesSeverity
  BY <1>1 DEF Init, RowsWellFormed, OneUnresolvedPerKey, LevelMatchesSeverity
<1>4. QED
  BY <1>2, <1>3, TypeInit DEF SoleInv

\* One rung of the ladder is one rank.
LEMMA NextRung ==
  ASSUME NEW s \in Severities, next_severity(s) # s
  PROVE  /\ next_severity(s) \in Severities
         /\ Rank[next_severity(s)] = Rank[s] + 1
  BY DEF Severities, next_severity, Rank

LEMMA RankType == \A s \in Severities : Rank[s] \in 0..3
  BY DEF Severities, Rank

LEMMA SelectNext == SoleInv /\ [Next]_vars => SelectHolds'
<1> SUFFICES ASSUME SoleInv, [Next]_vars, NEW d \in Replicas,
                    pc'[d] = "insert"
             PROVE  RowsFor(hand[d])' = {}
  BY DEF SelectHolds
<1>0. TypeInv /\ ConsumerOk /\ TableOk
  BY TypeParts DEF SoleInv, TypeInv
<1>1. ASSUME pc[d] = "insert", hand'[d] = hand[d], Rows' = Rows, key' = key
      PROVE  RowsFor(hand[d])' = {}
  BY <1>1 DEF SoleInv, SelectHolds, RowsFor
<1>2. ASSUME NEW c \in Replicas, QuietConsumer(c) PROVE RowsFor(hand[d])' = {}
  <2>1. c = d /\ Rows' = Rows /\ key' = key
    BY <1>2, QuietKeepsTable DEF SoleInv, OneReplica, table, Rows
  <2>2. PICK k \in Keys : SelectLatest(d, k)
    BY <1>0, <1>2, <2>1
       DEF QuietConsumer, Poll, RulesDone, InsertConflicts, LinkIncident,
           PublishCreated, DeadLetter, DeadLetterFails, Commit, CommitFails,
           NextRule, Done, Goto, OnLinkError, ConsumerOk
  <2>3. hand'[d] = k /\ RowsFor(k) = {}
    BY <1>0, <2>2 DEF SelectLatest, Suppressed, Goto, ConsumerOk
  <2>4. QED
    BY <2>1, <2>3 DEF RowsFor
<1>3. ASSUME NEW c \in Replicas, Insert(c) \/ StoreFails(c) \/ Crash(c) PROVE FALSE
  <2>1. c = d
    BY DEF SoleInv, OneReplica
  <2>2. QED
    BY <1>0, <1>3, <2>1
       DEF Insert, StoreFails, Crash, Done, Goto, OnStoreError, ConsumerOk
<1>4. ASSUME UNCHANGED consumer, Rows' = Rows, key' = key
      PROVE  RowsFor(hand[d])' = {}
  BY <1>1, <1>4 DEF consumer
<1>5. ASSUME NEW c \in Replicas, QuietSweeper(c) \/ Rebalance(c)
      PROVE  RowsFor(hand[d])' = {}
  BY <1>4, <1>5, QuietKeepsTable, ConsumerFrame DEF table, Rows
<1>6. ASSUME NEW c \in Replicas, NEW s \in batch[c], Escalate(c, s)
      PROVE  RowsFor(hand[d])' = {}
  BY <1>4, <1>6 DEF Escalate, Rows
<1>7. ASSUME NEW i \in Ids, Age(i) \/ Acknowledge(i) PROVE RowsFor(hand[d])' = {}
  <2>1. Rows' = Rows /\ key' = key
    BY <1>0, <1>7 DEF Age, Acknowledge, Rows, TableOk
  <2>2. QED
    BY <1>4, <1>7, <2>1 DEF Age, Acknowledge
<1>8. CASE UNCHANGED vars
  BY <1>4, <1>8 DEF vars, consumer, Rows
<1>9. QED
  BY <1>2, <1>3, <1>5, <1>6, <1>7, <1>8, StepCases

\* A new row is the first of its key, at level 0 and with its rule's severity.
LEMMA SoleInsert ==
  ASSUME SoleInv, NEW c \in Replicas, NEW i \in Ids, pc[c] = "insert",
         InsertRow(i, hand[c])
  PROVE  OneUnresolvedPerKey' /\ RowsWellFormed' /\ LevelMatchesSeverity'
<1>1. hand[c] \in Keys /\ RowsFor(hand[c]) = {} /\ level[i] \in Nat
  BY DEF SoleInv, SelectHolds, TypeInv, InHand, TypeOK
<1>2. /\ i \notin Rows /\ Rows' = Rows \cup {i} /\ level' = level
      /\ key'[i] = hand[c] /\ severity'[i] = RuleSeverity[hand[c]]
      /\ \A j \in Rows : key'[j] = key[j] /\ severity'[j] = severity[j]
  BY <1>1, InsertAdds DEF SoleInv, Rows
<1>3. OneUnresolvedPerKey'
  BY <1>1, <1>2 DEF SoleInv, OneUnresolvedPerKey, RowsFor
<1>4. RowsWellFormed'
  BY <1>1, <1>2 DEF SoleInv, RowsWellFormed
<1>5. level[i] = 0 /\ RuleSeverity[hand[c]] \in Severities
  BY <1>1, <1>2, AlertAssumptions DEF SoleInv, RowsWellFormed
<1>6. Rank[severity'[i]] = Rank[RuleSeverity[key'[i]]] + level'[i]
  BY <1>2, <1>5, RankType
<1>7. LevelMatchesSeverity'
  BY <1>2, <1>6 DEF SoleInv, LevelMatchesSeverity
<1>8. QED
  BY <1>3, <1>4, <1>7

\* An escalation moves the row one rung up from where it stands.
LEMMA SoleEscalate ==
  ASSUME SoleInv, NEW c \in Replicas, NEW s \in batch[c], Escalate(c, s)
  PROVE  /\ OneUnresolvedPerKey' /\ RowsWellFormed' /\ LevelMatchesSeverity'
         /\ SweeperCurrent'
<1>1. TableOk /\ SweeperOk /\ TypeInv
  BY TypeParts DEF SoleInv, TypeInv
<1>2. /\ s \in Snapshots /\ Current(s) /\ s.severity \in Severities
      /\ s.id \in Ids /\ s.level \in Nat
  BY <1>1 DEF SoleInv, SweeperCurrent, SweeperOk, Snapshots
<1>3. /\ Rows' = Rows /\ key' = key
      /\ severity'[s.id] = next_severity(s.severity) /\ level'[s.id] = level[s.id] + 1
      /\ \A j \in Ids \ {s.id} : severity'[j] = severity[j] /\ level'[j] = level[j]
  BY <1>1, <1>2 DEF Escalate, Rows, TableOk
<1>4. OneUnresolvedPerKey' /\ RowsWellFormed'
  BY <1>2, <1>3 DEF SoleInv, OneUnresolvedPerKey, RowsWellFormed, Current, Rows
<1>5. LevelMatchesSeverity'
  <2>1. Rank[next_severity(s.severity)] = Rank[s.severity] + 1
    BY <1>2, NextRung DEF Escalate
  <2>2. key[s.id] \in Keys /\ Rank[s.severity] \in Nat
    BY <1>2, RankType DEF SoleInv, RowsWellFormed, Current
  <2>3. RuleSeverity[key[s.id]] \in Severities
    BY <2>2, AlertAssumptions
  <2>4. Rank[RuleSeverity[key[s.id]]] \in Nat
    BY <2>3, RankType
  <2>5. Rank[s.severity] = Rank[RuleSeverity[key[s.id]]] + level[s.id]
    BY <1>2 DEF SoleInv, LevelMatchesSeverity, Current
  <2>6. Rank[severity'[s.id]] = Rank[RuleSeverity[key'[s.id]]] + level'[s.id]
    BY <1>1, <1>2, <1>3, <2>1, <2>2, <2>4, <2>5 DEF TableOk
  <2>7. QED
    BY <1>3, <2>6 DEF SoleInv, LevelMatchesSeverity, Rows
<1>6. SweeperCurrent'
  <2> SUFFICES ASSUME NEW d \in Replicas
               PROVE  /\ \A u \in batch'[d] : Current(u)'
                      /\ hot'[d] # Nothing => Current(hot[d])'
    BY DEF SweeperCurrent
  <2>1. d = c
    BY DEF SoleInv, OneReplica
  <2>2. /\ batch'[d] = batch[d] \ {s}
        /\ hot'[d] = Snapshot(s.id, next_severity(s.severity), s.level + 1)
    BY <1>1, <2>1 DEF Escalate, SweeperOk, BumpedLevel
  <2>3. Current(hot[d])'
    BY <1>2, <1>3, <2>2 DEF Current, Snapshot
  <2>4. ASSUME NEW u \in batch'[d] PROVE Current(u)'
    <3>1. u \in Snapshots /\ Current(u) /\ u # s
      BY <1>1, <2>2, <2>4 DEF SoleInv, SweeperCurrent, SweeperOk
    <3>2. u.id # s.id
      BY <1>2, <3>1 DEF Current, Snapshots
    <3>3. QED
      BY <1>3, <3>1, <3>2 DEF Current, Snapshots
  <2>5. QED
    BY <2>3, <2>4
<1>7. QED
  BY <1>4, <1>5, <1>6

LEMMA SoleNext == SoleInv /\ [Next]_vars => SoleInv'
<1> SUFFICES ASSUME SoleInv, [Next]_vars PROVE SoleInv'
  OBVIOUS
<1> DEFINE RowsOk == OneUnresolvedPerKey /\ RowsWellFormed /\ LevelMatchesSeverity
<1>0. TypeInv /\ TableOk /\ SweeperOk /\ ConsumerOk
  BY TypeParts DEF SoleInv, TypeInv
<1>1. OneReplica' /\ TypeInv' /\ SelectHolds'
  BY TypeNext, SelectNext DEF SoleInv, OneReplica
\* The rows keep what the invariant says of them.
<1>2. ASSUME Rows' = Rows, key' = key, severity' = severity, level' = level
      PROVE  RowsOk'
  BY <1>2 DEF SoleInv, OneUnresolvedPerKey, RowsWellFormed, LevelMatchesSeverity
<1>3. ASSUME Rows \subseteq Rows', level' = level,
             \A i \in Rows : severity'[i] = severity[i],
             \A c \in Replicas : /\ batch'[c] \subseteq batch[c]
                                 /\ hot'[c] \in {hot[c], Nothing}
      PROVE  SweeperCurrent'
  <2>1. \A u : Current(u) => Current(u)'
    BY <1>3 DEF Current
  <2> SUFFICES ASSUME NEW d \in Replicas
               PROVE  /\ \A u \in batch'[d] : Current(u)'
                      /\ hot'[d] # Nothing => Current(hot[d])'
    BY DEF SweeperCurrent
  <2>2. \A u \in batch'[d] : Current(u)'
    BY <1>3, <2>1 DEF SoleInv, SweeperCurrent
  <2>3. ASSUME hot'[d] # Nothing PROVE Current(hot[d])'
    <3>1. hot'[d] = hot[d] /\ Current(hot[d])
      BY <1>3, <2>3 DEF SoleInv, SweeperCurrent
    <3>2. QED
      BY <1>3, <3>1 DEF Current
  <2>4. QED
    BY <2>2, <2>3
<1>4. ASSUME NEW c \in Replicas,
             QuietConsumer(c) \/ QuietSweeper(c) \/ Crash(c) \/ Rebalance(c)
      PROVE  RowsOk' /\ SweeperCurrent'
  <2>1. Rows' = Rows /\ key' = key /\ severity' = severity /\ level' = level
    BY <1>4, QuietKeepsTable DEF table, Rows
  <2>2. CASE Sweep(c)
    <3>1. hot' = hot /\ \A d \in Replicas : batch'[d] = due_for_escalation
      BY <1>0, <2>2 DEF Sweep, SweeperOk, SoleInv, OneReplica
    <3>2. \A u \in due_for_escalation : Current(u)
      BY DEF due_for_escalation, Due, Current, Snapshot, Rows
    <3>3. \A u : Current(u) => Current(u)'
      BY <2>1 DEF Current
    <3>4. \A d \in Replicas : hot'[d] # Nothing => Current(hot[d])'
      BY <2>1, <3>1 DEF SoleInv, SweeperCurrent, Current
    <3>5. SweeperCurrent'
      BY <3>1, <3>2, <3>3, <3>4 DEF SweeperCurrent
    <3>6. QED
      BY <1>2, <2>1, <3>5
  <2>3. CASE ~Sweep(c)
    <3>1. CASE QuietConsumer(c) \/ Rebalance(c)
      <4>1. batch' = batch /\ hot' = hot
        BY <3>1 DEF QuietConsumer, Poll, RulesDone, SelectLatest, InsertConflicts,
           LinkIncident, PublishCreated, DeadLetter, DeadLetterFails, Commit,
           CommitFails, Rebalance, sweeper
      <4>2. QED
        BY <1>2, <1>3, <2>1, <4>1
    <3>2. CASE QuietSweeper(c) \/ Crash(c)
      <4>1. \A d \in Replicas : /\ batch'[d] \subseteq batch[d]
                                /\ hot'[d] \in {hot[d], Nothing}
        BY <1>0, <2>3, <3>2
           DEF QuietSweeper, SkipCandidate, PublishEscalated, Crash, SweeperOk
      <4>2. QED
        BY <1>2, <1>3, <2>1, <4>1
    <3>3. QED
      BY <1>4, <3>1, <3>2
  <2>4. QED
    BY <2>2, <2>3
<1>5. ASSUME NEW c \in Replicas, Insert(c) \/ StoreFails(c)
      PROVE  RowsOk' /\ SweeperCurrent'
  <2>1. batch' = batch /\ hot' = hot
    BY <1>5 DEF Insert, StoreFails, sweeper
  <2>2. CASE UNCHANGED table
    <3>1. Rows' = Rows /\ key' = key /\ severity' = severity /\ level' = level
      BY <2>2 DEF table, Rows
    <3>2. QED
      BY <1>2, <1>3, <2>1, <3>1
  <2>3. CASE ~UNCHANGED table
    <3>1. PICK i \in Ids : pc[c] = "insert" /\ InsertRow(i, hand[c])
      BY <1>5, <2>3 DEF Insert, StoreFails
    <3>2. hand[c] \in Keys
      BY <1>0, <3>1 DEF TypeInv, InHand
    <3>3. /\ Rows \subseteq Rows' /\ level' = level
          /\ \A j \in Rows : severity'[j] = severity[j]
      BY <1>0, <3>1, <3>2, InsertAdds DEF Rows
    <3>4. SweeperCurrent'
      BY <1>3, <2>1, <3>3
    <3>5. QED
      BY <3>1, <3>4, SoleInsert
  <2>4. QED
    BY <2>2, <2>3
<1>6. ASSUME NEW c \in Replicas, NEW s \in batch[c], Escalate(c, s)
      PROVE  RowsOk' /\ SweeperCurrent'
  BY <1>6, SoleEscalate
<1>7. ASSUME NEW i \in Ids, Age(i) \/ Acknowledge(i)
      PROVE  RowsOk' /\ SweeperCurrent'
  <2>1. /\ Rows' = Rows /\ key' = key /\ severity' = severity /\ level' = level
        /\ batch' = batch /\ hot' = hot
    BY <1>0, <1>7 DEF Age, Acknowledge, Rows, TableOk, sweeper
  <2>2. QED
    BY <1>2, <1>3, <2>1
<1>8. ASSUME UNCHANGED vars PROVE RowsOk' /\ SweeperCurrent'
  <2>1. /\ Rows' = Rows /\ key' = key /\ severity' = severity /\ level' = level
        /\ batch' = batch /\ hot' = hot
    BY <1>8 DEF vars, Rows
  <2>2. QED
    BY <1>2, <1>3, <2>1
<1>9. RowsOk' /\ SweeperCurrent'
  BY <1>4, <1>5, <1>6, <1>7, <1>8, StepCases
<1>10. QED
  BY <1>1, <1>9 DEF SoleInv

\* create_if_due refuses a second unresolved alert for a key, also after the
\* first is acknowledged, when one replica runs the consumer.
THEOREM AlertsOneUnresolved == Spec /\ OneReplica => []OneUnresolvedPerKey
<1>1. SoleInv => OneUnresolvedPerKey
  BY DEF SoleInv
<1>2. QED
  BY SoleInit, SoleNext, <1>1, PTL DEF Spec

\* With one sweeper, escalate moves an alert up exactly one rung per level,
\* whatever operators acknowledge while it works through an old result.
THEOREM AlertsLevel == Spec /\ OneReplica => []LevelMatchesSeverity
<1>1. SoleInv => LevelMatchesSeverity
  BY DEF SoleInv
<1>2. QED
  BY SoleInit, SoleNext, <1>1, PTL DEF Spec

\* With one sweeper, the copy it announces after the UPDATE is what the row
\* says.
THEOREM AlertsEscalationCurrent == Spec /\ OneReplica => EscalationIsCurrent
<1> DEFINE Says ==
      \A e \in events' \ events : e.type = "ESCALATED" =>
        e.severity = severity[e.id] /\ e.level = level[e.id]
<1>1. SoleInv /\ [Next]_vars => [Says]_vars
  <2> SUFFICES ASSUME SoleInv, [Next]_vars, NEW e \in events' \ events,
                      e.type = "ESCALATED"
               PROVE  e.severity = severity[e.id] /\ e.level = level[e.id]
    BY DEF vars
  <2>1. ASSUME NEW c \in Replicas, PublishCreated(c) PROVE FALSE
    <3>1. e.type = "CREATED"
      BY <2>1 DEF PublishCreated, AlertEvent
    <3>2. QED
      BY <3>1
  <2>2. ASSUME NEW c \in Replicas, PublishEscalated(c)
        PROVE  e.severity = severity[e.id] /\ e.level = level[e.id]
    <3>1. e = AlertEvent("ESCALATED", hot[c]) /\ hot[c] # Nothing
      BY <2>2 DEF PublishEscalated
    <3>2. Current(hot[c])
      BY <3>1 DEF SoleInv, SweeperCurrent
    <3>3. QED
      BY <3>1, <3>2 DEF AlertEvent, Current
  <2>3. \E c \in Replicas : PublishCreated(c) \/ PublishEscalated(c)
    BY DEF Next, ConsumerStep, SweeperStep, Poll, RulesDone, SelectLatest, Insert,
           InsertConflicts, StoreFails, LinkIncident, DeadLetter, DeadLetterFails,
           Commit, CommitFails, Sweep, SkipCandidate, Escalate, Age, Acknowledge,
           Crash, Rebalance, vars
  <2>4. QED
    BY <2>1, <2>2, <2>3
<1>2. QED
  BY <1>1, SoleInit, SoleNext, PTL DEF Spec, EscalationIsCurrent

-----------------------------------------------------------------------------
(* Any number of sweepers: what LevelMatchesSeverity leaves when they race. *)

\* An alert is at or above its rule's severity, and no higher than its level
\* accounts for.
Within(i, sev, lvl) ==
  /\ Rank[RuleSeverity[key[i]]] <= Rank[sev]
  /\ Rank[sev] <= Rank[RuleSeverity[key[i]]] + lvl

SeverityWithinLevel == \A i \in Rows : Within(i, severity[i], level[i])

\* A copy in a sweeper's hands was true of its row at a level the row has since
\* reached or passed.
Lags(s) ==
  s.id \in Rows /\ s.level <= level[s.id] /\ Within(s.id, s.severity, s.level)

LadderInv ==
  /\ TypeInv
  /\ \A i \in Rows : key[i] \in Keys
  /\ SeverityWithinLevel
  /\ \A c \in Replicas : \A s \in batch[c] : Lags(s)

LEMMA LadderInit == Init => LadderInv
<1> SUFFICES ASSUME Init PROVE LadderInv
  OBVIOUS
<1>1. Rows = {} /\ \A c \in Replicas : batch[c] = {}
  BY DEF Init, Rows
<1>2. QED
  BY <1>1, TypeInit DEF LadderInv, SeverityWithinLevel

\* The ranks that the ladder compares are numbers.
LEMMA RanksOfRow ==
  ASSUME LadderInv, NEW i \in Rows
  PROVE  /\ Rank[RuleSeverity[key[i]]] \in Nat /\ Rank[severity[i]] \in Nat
         /\ level[i] \in Nat
<1>1. i \in Ids /\ key[i] \in Keys
  BY DEF LadderInv, Rows
<1>2. RuleSeverity[key[i]] \in Severities
  BY <1>1, AlertAssumptions
<1>3. severity[i] \in Severities /\ level[i] \in Nat
  BY <1>1, TypeParts DEF LadderInv, TypeInv, TableOk
<1>4. QED
  BY <1>2, <1>3, RankType

\* A step that leaves severities and levels of the rows alone keeps the ladder.
LEMMA LadderFrame ==
  ASSUME LadderInv, Rows \subseteq Rows', level' = level,
         \A i \in Rows : key'[i] = key[i] /\ severity'[i] = severity[i]
  PROVE  /\ \A i \in Rows : Within(i, severity[i], level[i])'
         /\ \A s : Lags(s) => Lags(s)'
<1>1. \A i \in Rows : \A sev, lvl : Within(i, sev, lvl) =>
        /\ Rank[RuleSeverity[key'[i]]] <= Rank[sev]
        /\ Rank[sev] <= Rank[RuleSeverity[key'[i]]] + lvl
  BY DEF Within
<1>2. \A i \in Rows : Within(i, severity[i], level[i])'
  BY <1>1 DEF LadderInv, SeverityWithinLevel, Within
<1>3. \A s : Lags(s) => Lags(s)'
  BY <1>1 DEF Lags, Within
<1>4. QED
  BY <1>2, <1>3

\* An escalation from an old copy: the severity is one rung above the copy's,
\* the level one above the row's, which is at least the copy's.
LEMMA LadderEscalate ==
  ASSUME LadderInv, NEW c \in Replicas, NEW s \in batch[c], Escalate(c, s)
  PROVE  /\ \A i \in Rows' : key'[i] \in Keys
         /\ SeverityWithinLevel'
         /\ \A d \in Replicas : \A u \in batch'[d] : Lags(u)'
<1>1. TableOk /\ SweeperOk
  BY TypeParts DEF LadderInv, TypeInv
<1>2. /\ s.id \in Ids /\ s.severity \in Severities /\ s.level \in Nat /\ Lags(s)
  BY <1>1 DEF LadderInv, SweeperOk, Snapshots
<1>3. /\ Rows' = Rows /\ key' = key
      /\ severity'[s.id] = next_severity(s.severity)
      /\ level'[s.id] = level[s.id] + 1
      /\ \A j \in Ids \ {s.id} : severity'[j] = severity[j] /\ level'[j] = level[j]
  BY <1>1, <1>2 DEF Escalate, Rows, TableOk
<1>4. s.id \in Rows
  BY <1>2 DEF Lags
<1>5. Within(s.id, severity[s.id], level[s.id])'
  <2>1. Rank[next_severity(s.severity)] = Rank[s.severity] + 1
    BY <1>2, NextRung DEF Escalate
  <2>2. /\ Rank[s.severity] \in Nat /\ level[s.id] \in Nat
        /\ Rank[RuleSeverity[key[s.id]]] \in Nat
    BY <1>2, <1>4, RankType, RanksOfRow
  <2>3. /\ Rank[RuleSeverity[key[s.id]]] <= Rank[s.severity]
        /\ Rank[s.severity] <= Rank[RuleSeverity[key[s.id]]] + s.level
        /\ s.level <= level[s.id]
    BY <1>2 DEF Lags, Within
  <2>4. /\ Rank[RuleSeverity[key[s.id]]] <= Rank[s.severity] + 1
        /\ Rank[s.severity] + 1 <= Rank[RuleSeverity[key[s.id]]] + (level[s.id] + 1)
    BY <1>2, <2>2, <2>3
  <2>5. QED
    BY <1>3, <2>1, <2>4 DEF Within
<1>6. SeverityWithinLevel'
  <2>1. ASSUME NEW i \in Rows, i # s.id
        PROVE  Within(i, severity[i], level[i])'
    BY <1>3, <2>1 DEF LadderInv, SeverityWithinLevel, Within, Rows
  <2>2. QED
    BY <1>3, <1>5, <2>1 DEF SeverityWithinLevel
<1>7. ASSUME NEW d \in Replicas, NEW u \in batch'[d] PROVE Lags(u)'
  <2>1. u \in batch[d]
    BY <1>1, <1>7 DEF Escalate, SweeperOk
  <2>2. Lags(u) /\ u.level \in Nat /\ u.id \in Ids
    BY <1>1, <2>1 DEF LadderInv, SweeperOk, Snapshots
  <2>3. level[u.id] \in Nat /\ level'[u.id] \in {level[u.id], level[u.id] + 1}
    BY <1>1, <1>3, <2>2 DEF TableOk
  <2>4. u.level <= level[u.id]
    BY <2>2 DEF Lags
  <2>5. u.level <= level'[u.id]
    BY <2>2, <2>3, <2>4
  <2>6. QED
    BY <1>3, <2>2, <2>5 DEF Lags, Within
<1>8. QED
  BY <1>3, <1>6, <1>7 DEF LadderInv

LEMMA LadderNext == LadderInv /\ [Next]_vars => LadderInv'
<1> SUFFICES ASSUME LadderInv, [Next]_vars PROVE LadderInv'
  OBVIOUS
<1> DEFINE Ladder == /\ \A i \in Rows : key[i] \in Keys
                     /\ SeverityWithinLevel
                     /\ \A c \in Replicas : \A s \in batch[c] : Lags(s)
<1>1. TypeInv /\ TableOk /\ SweeperOk /\ TypeInv'
  BY TypeParts, TypeNext DEF LadderInv, TypeInv
<1>2. ASSUME Rows' = Rows, key' = key, severity' = severity, level' = level,
             \A d \in Replicas : \A u \in batch'[d] : u \in batch[d] \/ Lags(u)
      PROVE  Ladder'
  <2>1. /\ \A i \in Rows : Within(i, severity[i], level[i])'
        /\ \A s : Lags(s) => Lags(s)'
    BY <1>2, LadderFrame
  <2>2. QED
    BY <1>2, <2>1 DEF LadderInv, SeverityWithinLevel
<1>3. ASSUME NEW c \in Replicas,
             QuietConsumer(c) \/ QuietSweeper(c) \/ Crash(c) \/ Rebalance(c)
      PROVE  Ladder'
  <2>1. Rows' = Rows /\ key' = key /\ severity' = severity /\ level' = level
    BY <1>3, QuietKeepsTable DEF table, Rows
  <2>2. CASE Sweep(c)
    <3>1. \A d \in Replicas : batch'[d] \in {batch[d], due_for_escalation}
      BY <1>1, <2>2 DEF Sweep, SweeperOk
    <3>2. ASSUME NEW u \in due_for_escalation PROVE Lags(u)
      <4>1. PICK i \in Ids : Due(i) /\ u = Snapshot(i, severity[i], level[i])
        BY <3>2 DEF due_for_escalation
      <4>2. i \in Rows
        BY <4>1 DEF Due, Rows
      <4>3. Within(i, severity[i], level[i]) /\ level[i] \in Nat
        BY <4>2, RanksOfRow DEF LadderInv, SeverityWithinLevel
      <4>4. level[i] <= level[i]
        BY <4>3
      <4>5. QED
        BY <4>1, <4>2, <4>3, <4>4 DEF Snapshot, Lags
    <3>3. QED
      BY <1>2, <2>1, <3>1, <3>2
  <2>3. CASE ~Sweep(c)
    <3>1. \A d \in Replicas : batch'[d] \subseteq batch[d]
      <4>1. CASE QuietConsumer(c) \/ Rebalance(c)
        BY <4>1 DEF QuietConsumer, Poll, RulesDone, SelectLatest,
           InsertConflicts, LinkIncident, PublishCreated, DeadLetter,
           DeadLetterFails, Commit, CommitFails, Rebalance, sweeper
      <4>2. CASE QuietSweeper(c) \/ Crash(c)
        BY <1>1, <2>3, <4>2
           DEF QuietSweeper, SkipCandidate, PublishEscalated, Crash, SweeperOk
      <4>3. QED
        BY <1>3, <4>1, <4>2
    <3>2. QED
      BY <1>2, <2>1, <3>1
  <2>4. QED
    BY <2>2, <2>3
<1>4. ASSUME NEW c \in Replicas, Insert(c) \/ StoreFails(c)
      PROVE  Ladder'
  <2>1. batch' = batch
    BY <1>4 DEF Insert, StoreFails, sweeper
  <2>2. CASE UNCHANGED table
    <3>1. Rows' = Rows /\ key' = key /\ severity' = severity /\ level' = level
      BY <2>2 DEF table, Rows
    <3>2. QED
      BY <1>2, <2>1, <3>1
  <2>3. CASE ~UNCHANGED table
    <3>1. PICK i \in Ids : pc[c] = "insert" /\ InsertRow(i, hand[c])
      BY <1>4, <2>3 DEF Insert, StoreFails
    <3>2. hand[c] \in Keys
      BY <1>1, <3>1 DEF TypeInv, InHand
    <3>3. /\ i \notin Rows /\ Rows' = Rows \cup {i} /\ level' = level
          /\ key'[i] = hand[c] /\ severity'[i] = RuleSeverity[hand[c]]
          /\ \A j \in Ids \ {i} : key'[j] = key[j] /\ severity'[j] = severity[j]
      BY <1>1, <3>1, <3>2, InsertAdds
    <3>4. \A j \in Rows : key'[j] = key[j] /\ severity'[j] = severity[j]
      BY <3>3 DEF Rows
    <3>5. /\ \A j \in Rows : Within(j, severity[j], level[j])'
          /\ \A s : Lags(s) => Lags(s)'
      BY <3>3, <3>4, LadderFrame
    <3>6. Within(i, severity[i], level[i])'
      <4>1. RuleSeverity[hand[c]] \in Severities
        BY <3>2, AlertAssumptions
      <4>2. Rank[RuleSeverity[hand[c]]] \in Nat /\ level[i] \in Nat
        BY <1>1, <4>1, RankType DEF TableOk
      <4>3. QED
        BY <3>3, <4>2 DEF Within
    <3>7. QED
      BY <2>1, <3>2, <3>3, <3>4, <3>5, <3>6 DEF LadderInv, SeverityWithinLevel
  <2>4. QED
    BY <2>2, <2>3
<1>5. ASSUME NEW c \in Replicas, NEW s \in batch[c], Escalate(c, s)
      PROVE  Ladder'
  BY <1>5, LadderEscalate
<1>6. ASSUME NEW i \in Ids, Age(i) \/ Acknowledge(i) PROVE Ladder'
  <2>1. /\ Rows' = Rows /\ key' = key /\ severity' = severity /\ level' = level
        /\ batch' = batch
    BY <1>1, <1>6 DEF Age, Acknowledge, Rows, TableOk, sweeper
  <2>2. QED
    BY <1>2, <2>1
<1>7. ASSUME UNCHANGED vars PROVE Ladder'
  <2>1. /\ Rows' = Rows /\ key' = key /\ severity' = severity /\ level' = level
        /\ batch' = batch
    BY <1>7 DEF vars, Rows
  <2>2. QED
    BY <1>2, <2>1
<1>8. Ladder'
  BY <1>3, <1>4, <1>5, <1>6, <1>7, StepCases
<1>9. QED
  BY <1>1, <1>8 DEF LadderInv

\* store.py:107-121.  However many sweepers escalate one alert from old query
\* results, which can take its severity back a rung, the alert never falls
\* below its rule's severity and never stands higher than its escalation level
\* accounts for.
THEOREM AlertsWithinLevel == Spec => []SeverityWithinLevel
<1>1. LadderInv => SeverityWithinLevel
  BY DEF LadderInv
<1>2. QED
  BY LadderInit, LadderNext, <1>1, PTL DEF Spec
=============================================================================
