--------------------------- MODULE StreamProcessor ---------------------------
(***************************************************************************)
(* The stream processor's consume loop: one thread takes telemetry from    *)
(* one partition of telemetry.raw, claims its event id in Redis, writes    *)
(* the raw point to InfluxDB, folds it into the in-memory windows and      *)
(* republishes it on telemetry.processed; what cannot be stored or         *)
(* republished goes to the dead-letter topic.  Every call to Redis,        *)
(* InfluxDB or Kafka is a step of its own, so that the process may die,    *)
(* and the broker may redeliver, between any two of them.                  *)
(*                                                                         *)
(* Offsets count from 1.  `position` messages have been fetched,           *)
(* `committed` is the group's committed offset, and a message is in hand   *)
(* (its offset is `position`) exactly when pc is not "idle".               *)
(***************************************************************************)
EXTENDS Naturals, Sequences

CONSTANTS Events,       \* event ids
          Malformed,    \* stands for a payload that does not parse
          MaxLog,       \* bound: messages ingestion appends
          MaxRestarts,  \* bound: crashes, shutdowns and rebalances
          MaxExpiries,  \* bound: Redis expiries of each event's claim
          Faults        \* the dependencies that may fail a call

Dependencies == {"redis", "influx", "processed_topic", "dlq_topic", "commit"}

ASSUME StreamAssumptions ==
  /\ Malformed \notin Events
  /\ MaxLog \in Nat /\ MaxRestarts \in Nat /\ MaxExpiries \in Nat
  /\ Faults \subseteq Dependencies

VARIABLES
  log,        \* the partition of telemetry.raw
  committed,  \* the consumer group's committed offset
  position,   \* the consumer's fetch position
  pc,         \* which call the loop makes next
  claimed,    \* event ids with a live key in Redis
  stored,     \* event ids with a raw point in InfluxDB
  window,     \* how often each event is folded into the in-memory windows
  processed,  \* event ids on telemetry.processed
  dlq,        \* messages on the dead-letter topic
  held,       \* history: offsets _process_message returned False for
  orphaned,   \* history: event ids claimed by a run that never finished them
  restarts,   \* history: restarts and rebalances so far
  expired     \* history: expiries of each event's claim

external == <<log, restarts>>
history  == <<held, orphaned, expired>>
vars == <<log, committed, position, pc, claimed, stored, window, processed,
          dlq, held, orphaned, restarts, expired>>

Msgs == Events \cup {Malformed}

PastClaim  == {"influx", "publish", "dlq_influx", "dlq_republish"}
DeadLetter == {"dlq_unmarshal", "dlq_influx", "dlq_republish"}
Steps      == {"idle", "claim", "commit", "dlq_unmarshal"} \cup PastClaim

msg == log[position]   \* the message in hand

Init ==
  /\ log = <<>> /\ committed = 0 /\ position = 0 /\ pc = "idle"
  /\ claimed = {} /\ stored = {} /\ processed = {} /\ dlq = {}
  /\ window = [e \in Events |-> 0]
  /\ held = {} /\ orphaned = {} /\ restarts = 0
  /\ expired = [e \in Events |-> 0]

-----------------------------------------------------------------------------
(* Environment. *)

\* Ingestion publishes; an MQTT redelivery publishes the same event again.
Produce(m) ==
  /\ Len(log) < MaxLog
  /\ log' = Append(log, m)
  /\ UNCHANGED <<committed, position, pc, claimed, stored, window, processed,
                 dlq, history, restarts>>

\* DEDUP_TTL passes for one claim.
ExpireClaim(e) ==
  /\ e \in claimed
  /\ expired[e] < MaxExpiries
  /\ claimed' = claimed \ {e}
  /\ expired' = [expired EXCEPT ![e] = @ + 1]
  /\ UNCHANGED <<external, committed, position, pc, stored, window, processed,
                 dlq, held, orphaned>>

\* The process dies or is stopped, at any step, and starts again: the windows
\* are lost and the group resumes from the committed offset.
Restart ==
  /\ restarts < MaxRestarts
  /\ restarts' = restarts + 1
  /\ position' = committed
  /\ pc' = "idle"
  /\ window' = [e \in Events |-> 0]
  /\ orphaned' = orphaned \cup (IF pc \in PastClaim THEN {msg} ELSE {})
  /\ UNCHANGED <<log, committed, claimed, stored, processed, dlq, held, expired>>

\* The group rebalances between two polls: the position goes back to the
\* committed offset while the windows stay.
Rebalance ==
  /\ pc = "idle"
  /\ restarts < MaxRestarts
  /\ restarts' = restarts + 1
  /\ position' = committed
  /\ UNCHANGED <<log, committed, pc, claimed, stored, window, processed, dlq,
                 history>>

-----------------------------------------------------------------------------
(* The consume loop. *)

\* _process_message returned False: log it and go on with the next message.
HoldOffset == held' = held \cup {position}

\* poll returns the next message and the payload is parsed.
FetchableStopsShort == position + 1 < Len(log)
Fetchable == position < Len(log)

Poll ==
  /\ pc = "idle"
  /\ Fetchable
  /\ position' = position + 1
  /\ pc' = IF log[position + 1] = Malformed THEN "dlq_unmarshal" ELSE "claim"
  /\ UNCHANGED <<external, committed, claimed, stored, window, processed, dlq,
                 history>>

\* dedup.claim: SET NX with a TTL.
FirstSeenUnchecked(e) == TRUE
FirstSeen(e) == e \notin claimed

ClaimFirst ==
  /\ pc = "claim"
  /\ FirstSeen(msg)
  /\ claimed' = claimed \cup {msg}
  /\ pc' = "influx"
  /\ UNCHANGED <<external, committed, position, stored, window, processed, dlq,
                 history>>

ClaimDuplicate ==
  /\ pc = "claim"
  /\ ~FirstSeen(msg)
  /\ pc' = "commit"
  /\ UNCHANGED <<external, committed, position, claimed, stored, window,
                 processed, dlq, history>>

\* Redis raises: the offset is held back.  The SET may have been applied
\* before the connection was lost.
ClaimUnavailable ==
  /\ pc = "claim"
  /\ "redis" \in Faults
  /\ pc' = "idle"
  /\ HoldOffset
  /\ \/ UNCHANGED <<claimed, orphaned>>
     \/ /\ FirstSeen(msg)
        /\ claimed' = claimed \cup {msg}
        /\ orphaned' = orphaned \cup {msg}
  /\ UNCHANGED <<external, committed, position, stored, window, processed, dlq,
                 expired>>

\* influx.write_raw_point returns; registry.record follows without a call out.
WriteRawPoint ==
  /\ pc = "influx"
  /\ stored' = stored \cup {msg}
  /\ window' = [window EXCEPT ![msg] = @ + 1]
  /\ pc' = "publish"
  /\ UNCHANGED <<external, committed, position, claimed, processed, dlq, history>>

\* The breaker is open, or every attempt raised (one may still have written).
OnInfluxErrorSwallowed == "publish"
OnInfluxError == "dlq_influx"

WriteRawPointFails ==
  /\ pc = "influx"
  /\ "influx" \in Faults
  /\ stored' \in {stored, stored \cup {msg}}
  /\ pc' = OnInfluxError
  /\ UNCHANGED <<external, committed, position, claimed, window, processed, dlq,
                 history>>

PublishProcessed ==
  /\ pc = "publish"
  /\ processed' = processed \cup {msg}
  /\ pc' = "commit"
  /\ UNCHANGED <<external, committed, position, claimed, stored, window, dlq,
                 history>>

\* Breaker open, or every attempt failed or timed out; a produce that timed
\* out may still be delivered.
OnPublishErrorCommitted == "commit"
OnPublishError == "dlq_republish"

PublishProcessedFails ==
  /\ pc = "publish"
  /\ "processed_topic" \in Faults
  /\ processed' \in {processed, processed \cup {msg}}
  /\ pc' = OnPublishError
  /\ UNCHANGED <<external, committed, position, claimed, stored, window, dlq,
                 history>>

DeadLettered ==
  /\ pc \in DeadLetter
  /\ dlq' = dlq \cup {msg}
  /\ pc' = "commit"
  /\ UNCHANGED <<external, committed, position, claimed, stored, window,
                 processed, history>>

\* The single dead-letter attempt fails too: the offset is held back, while
\* the claim made before stays in Redis.
DeadLetterFails ==
  /\ pc \in DeadLetter
  /\ "dlq_topic" \in Faults
  /\ dlq' \in {dlq, dlq \cup {msg}}
  /\ pc' = "idle"
  /\ HoldOffset
  /\ orphaned' = orphaned \cup (IF pc \in PastClaim THEN {msg} ELSE {})
  /\ UNCHANGED <<external, committed, position, claimed, stored, window,
                 processed, expired>>

\* Committing a message commits the offset after it, which in this count of
\* offsets is the message's own.
CommitPointOneTooFar == position + 1
CommitPoint == position

Commit ==
  /\ pc = "commit"
  /\ committed' = CommitPoint
  /\ pc' = "idle"
  /\ UNCHANGED <<external, position, claimed, stored, window, processed, dlq,
                 history>>

\* commit raises: logged, and the loop goes on.
CommitFails ==
  /\ pc = "commit"
  /\ "commit" \in Faults
  /\ pc' = "idle"
  /\ UNCHANGED <<external, committed, position, claimed, stored, window,
                 processed, dlq, history>>

Consume ==
  \/ Poll
  \/ ClaimFirst \/ ClaimDuplicate \/ ClaimUnavailable
  \/ WriteRawPoint \/ WriteRawPointFails
  \/ PublishProcessed \/ PublishProcessedFails
  \/ DeadLettered \/ DeadLetterFails
  \/ Commit \/ CommitFails

Next ==
  \/ Consume
  \/ \E m \in Msgs : Produce(m)
  \/ \E e \in Events : ExpireClaim(e)
  \/ Restart
  \/ Rebalance

Spec == Init /\ [][Next]_vars

\* Every call of the loop has a timeout, so the loop keeps taking steps.
FairSpec == Spec /\ WF_vars(Consume)

-----------------------------------------------------------------------------
(* Properties. *)

\* A message's effect is durable: republished, or on the dead-letter topic.
Handled(m) == m \in processed \/ m \in dlq

TypeOK ==
  /\ log \in Seq(Msgs)
  /\ committed \in 0..position /\ position \in 0..Len(log)
  /\ pc \in Steps
  /\ pc # "idle" => position > 0
  /\ claimed \subseteq Events /\ stored \subseteq Events
  /\ processed \subseteq Events /\ dlq \subseteq Msgs
  /\ window \in [Events -> Nat] /\ expired \in [Events -> Nat]
  /\ held \subseteq Nat /\ orphaned \subseteq Events
  /\ restarts \in Nat

\* main.py:107-204.  The committed offset passes a message that is neither
\* republished nor dead-lettered only if processing gave that offset up, or
\* some run claimed the event and never finished it: there is no other loss,
\* whatever fails, restarts, rebalances or expires.
LossIsExplained ==
  \A o \in 1..committed :
    Handled(log[o]) \/ o \in held \/ log[o] \in orphaned

\* main.py:172-190.  Nothing is republished, or folded into a window, before
\* its raw point is in InfluxDB.
StoredFirst ==
  \A e \in Events : e \in processed \/ window[e] > 0 => e \in stored

\* dedup.py:1-8.  An event is folded into the windows once for the claim it
\* holds and once more for each time that claim expired, however often it is
\* produced, redelivered or rebalanced.
FoldedOncePerClaim == \A e \in Events : window[e] <= 1 + expired[e]

\* main.py:108-127.  The loop never wedges: whatever fails, it reaches the end
\* of the partition once producers and restarts stop.
ReachesTheEnd == <>[](pc = "idle" /\ position = Len(log))
=============================================================================
