------------------------------ MODULE Detector ------------------------------
(***************************************************************************)
(* The anomaly detector.  One thread consumes telemetry.processed: it      *)
(* claims each event in Postgres for good, folds it into the EWMA baseline *)
(* of its series and into the device's feature vector, judges it by range, *)
(* z-score and isolation forest, and publishes what any of them flags.  A  *)
(* second thread refreshes the catalog of sensors, a third retrains the    *)
(* forest from a copy of the buffered vectors.                             *)
(*                                                                         *)
(* One device, the only one of its machine type, one partition.  A vector  *)
(* is represented by its width: the forest's arithmetic is random, but     *)
(* whether it indexes past the end of a vector depends on widths alone.    *)
(* A z-score is given in tenths of its threshold, a forest score in        *)
(* hundredths.  Offsets are as in StreamProcessor.                         *)
(***************************************************************************)
EXTENDS Integers, Sequences, FiniteSets, FiniteSetsExt

CONSTANTS Events, Malformed, Metrics,
          Log,             \* the partition: a sequence of events and Malformed
          MetricOf, Value, \* of each event
          Low, High,       \* operating range of every metric
          MinSamples,      \* min_samples_for_zscore
          ForestThreshold, \* forest_score_threshold, in hundredths
          MinTraining,     \* MIN_TRAINING_SAMPLES
          BufferSize, SubsampleSize,
          ZScores, ForestScores,   \* the values a step may meet
          MaxChanges,      \* bound: changes of the sensors table
          MaxFaults,       \* bound: failing calls
          MaxRestarts      \* bound: restarts and rebalances

ASSUME DetectorAssumptions ==
  /\ Malformed \notin Events /\ IsFiniteSet(Metrics)
  /\ Log \in Seq(Events \cup {Malformed})
  /\ MetricOf \in [Events -> Metrics] /\ Value \in [Events -> Int]
  /\ Low \in Int /\ High \in Int
  /\ {MinSamples, ForestThreshold, MinTraining, BufferSize, SubsampleSize,
      MaxChanges, MaxFaults, MaxRestarts} \subseteq Nat
  /\ MinTraining > 0 /\ BufferSize > 0
  /\ ZScores \subseteq Nat /\ ForestScores \subseteq Nat

VARIABLES
  position, committed, pc,
  claims,     \* idempotency_keys: event ids claimed for ever
  published,  \* event ids on anomalies.detected
  dlq,        \* messages on the dead-letter topic
  sensors,    \* the metrics of the device in Postgres
  catalog,    \* the same as the catalog last saw it
  info,       \* what lookup returned for the message in hand; {} is None
  order,      \* its feature order
  samples,    \* EWMATracker._sample_count of each series
  latest,     \* metrics of which the feature store holds a value
  vector,     \* width of the vector the message in hand completed, or 0
  buffer,     \* widths of the buffered training vectors
  forest,     \* widest vector the forest was trained on; 0 is no forest
  trainer, snapshot,   \* the trainer thread and its copy of the buffer
  anomaly,    \* the verdict on the message in hand
  judged,     \* history: events nothing fired for
  folded,     \* history: how often each event entered the baselines
  held,       \* history: offsets left uncommitted
  orphaned,   \* history: events claimed by a run that never finished them
  changes,    \* history: changes of the sensors table
  removed,    \* history: metrics that were taken out of it
  faults, restarts

offsets  == <<position, committed>>
topics   == <<published, dlq>>
reading  == <<info, order, vector, anomaly>>
memory   == <<samples, latest, buffer>>
training == <<forest, trainer, snapshot>>
database == <<sensors, changes, removed>>
outcome  == <<judged, held, orphaned>>
env      == <<faults, restarts>>
vars == <<offsets, pc, claims, topics, database, catalog, reading, memory,
          training, folded, outcome, env>>

msg == Log[position]
None == [severity |-> 0, methods |-> {}]

PastClaim == {"lookup", "features", "observe", "score", "publish",
              "dlq_publish", "dead"}
Steps == PastClaim \cup {"idle", "claim", "dlq_unmarshal", "commit"}

\* Locals of _process_message are cleared once they are not read again.
ForgetReading == info' = {} /\ order' = {} /\ vector' = 0

EmptyMemory ==
  /\ samples' = [m \in Metrics |-> 0] /\ latest' = {} /\ buffer' = <<>>
  /\ forest' = 0 /\ trainer' = "wait" /\ snapshot' = <<>>

Init ==
  /\ position = 0 /\ committed = 0 /\ pc = "idle"
  /\ claims = {} /\ published = {} /\ dlq = {}
  /\ sensors \in SUBSET Metrics /\ catalog = sensors
  /\ info = {} /\ order = {} /\ vector = 0 /\ anomaly = None
  /\ samples = [m \in Metrics |-> 0] /\ latest = {} /\ buffer = <<>>
  /\ forest = 0 /\ trainer = "wait" /\ snapshot = <<>>
  /\ judged = {} /\ folded = [e \in Events |-> 0] /\ held = {} /\ orphaned = {}
  /\ changes = 0 /\ removed = {} /\ faults = 0 /\ restarts = 0

-----------------------------------------------------------------------------
(* The three levels: 0 is "did not fire", 1 WARNING, 2 HIGH, 3 CRITICAL.   *)

rule_check(v) ==
  LET span == High - Low
      overshoot == IF v > High THEN v - High ELSE Low - v
  IN  IF span <= 0 \/ v \in Low..High THEN 0
      ELSE IF 2 * overshoot >= span THEN 3
      ELSE IF 5 * overshoot >= span THEN 2 ELSE 1

stat_check(z, n) ==
  IF n < MinSamples \/ z < 10 THEN 0
  ELSE IF z >= 16 THEN 3
  ELSE IF z >= 13 THEN 2 ELSE 1

\* EWMATracker.update: a series' first reading has no deviation to judge by.
z_score(n, z) == IF n = 1 THEN 0 ELSE z

isolation_check(s) ==
  IF s < ForestThreshold THEN 0
  ELSE IF s >= 75 THEN 3
  ELSE IF s >= ForestThreshold + 6 THEN 2 ELSE 1

\* The catalog has a range for the metric, not only the device.
HasRangeOfDevice(e) == info # {}
has_range(e) == MetricOf[e] \in info

\* run_detectors: the severity each method reports, 0 where it did not fire.
run_detectors(e, z, s) ==
  [RULE |-> IF has_range(e) THEN rule_check(Value[e]) ELSE 0,
   STATISTICAL |-> LET n == samples[MetricOf[e]] IN stat_check(z_score(n, z), n),
   ISOLATION_FOREST |->
     IF vector > 0 /\ forest > 0 THEN isolation_check(s) ELSE 0]

combine_detections(results) ==
  [severity |-> Max({results[m] : m \in DOMAIN results}),
   methods |-> {m \in DOMAIN results : results[m] > 0}]

-----------------------------------------------------------------------------
(* The consume loop. *)

\* A call to Postgres or Kafka fails.
Fault == faults < MaxFaults /\ faults' = faults + 1

FetchableStopsShort == position + 1 < Len(Log)
Fetchable == position < Len(Log)

Poll ==
  /\ pc = "idle"
  /\ Fetchable
  /\ position' = position + 1
  /\ pc' = IF Log[position + 1] = Malformed THEN "dlq_unmarshal" ELSE "claim"
  /\ UNCHANGED <<committed, claims, topics, database, catalog, reading, memory,
                 training, folded, outcome, env>>

\* claim_telemetry_event_once: INSERT ... ON CONFLICT DO NOTHING, committed.
FirstSeenUnchecked(e) == TRUE
FirstSeen(e) == e \notin claims

ClaimFirst ==
  /\ pc = "claim"
  /\ FirstSeen(msg)
  /\ claims' = claims \cup {msg}
  /\ pc' = "lookup"
  /\ UNCHANGED <<offsets, topics, database, catalog, reading, memory, training,
                 folded, outcome, env>>

ClaimDuplicate ==
  /\ pc = "claim"
  /\ ~FirstSeen(msg)
  /\ pc' = "commit"
  /\ UNCHANGED <<offsets, claims, topics, database, catalog, reading, memory,
                 training, folded, outcome, env>>

\* Postgres raises and the offset is held back; the transaction may have been
\* committed before the connection broke.
ClaimFails ==
  /\ pc = "claim"
  /\ Fault
  /\ pc' = "idle"
  /\ held' = held \cup {position}
  /\ \/ UNCHANGED <<claims, orphaned>>
     \/ /\ FirstSeen(msg)
        /\ claims' = claims \cup {msg}
        /\ orphaned' = orphaned \cup {msg}
  /\ UNCHANGED <<offsets, topics, database, catalog, reading, memory, training,
                 folded, judged, restarts>>

\* cat.lookup and cat.features_for each take the lock: a refresh may fall
\* between the two.
Lookup ==
  /\ pc = "lookup"
  /\ info' = catalog
  /\ pc' = IF catalog = {} THEN "observe" ELSE "features"
  /\ UNCHANGED <<offsets, claims, topics, database, catalog, order, vector,
                 anomaly, memory, training, folded, outcome, env>>

FeaturesFor ==
  /\ pc = "features"
  /\ order' = catalog
  /\ pc' = "observe"
  /\ UNCHANGED <<offsets, claims, topics, database, catalog, info, vector,
                 anomaly, memory, training, folded, outcome, env>>

\* The oldest vectors leave a full buffer.
TrimmedLate(b) == IF Len(b) > BufferSize + 1 THEN Tail(b) ELSE b
Trimmed(b) == IF Len(b) > BufferSize
              THEN SubSeq(b, Len(b) - BufferSize + 1, Len(b)) ELSE b

\* trackers.update, then fs.observe if the catalog knows the device.
Observe ==
  LET values == IF info = {} THEN latest ELSE latest \cup {MetricOf[msg]}
      complete == info # {} /\ order # {} /\ order \subseteq values
  IN  /\ pc = "observe"
      /\ samples' = [samples EXCEPT ![MetricOf[msg]] = @ + 1]
      /\ latest' = values
      /\ vector' = IF complete THEN Cardinality(order) ELSE 0
      /\ buffer' = IF complete THEN Trimmed(Append(buffer, Cardinality(order)))
                   ELSE buffer
      /\ folded' = [folded EXCEPT ![msg] = @ + 1]
      /\ pc' = "score"
      /\ UNCHANGED <<offsets, claims, topics, database, catalog, info, order,
                     anomaly, training, outcome, env>>

\* forests.get, forest.score and the verdict.  Nothing fires: done.
Score ==
  /\ pc = "score"
  /\ \E z \in ZScores, s \in ForestScores :
       anomaly' = combine_detections(run_detectors(msg, z, s))
  /\ IF anomaly'.methods = {}
     THEN judged' = judged \cup {msg} /\ pc' = "commit"
     ELSE pc' = "publish" /\ UNCHANGED judged
  /\ ForgetReading
  /\ UNCHANGED <<offsets, claims, topics, database, catalog, memory, training,
                 folded, held, orphaned, env>>

\* _path_length indexes a vector narrower than a split feature: IndexError
\* ends the loop's thread, while the other two keep the process up.
ScoreRaises ==
  /\ pc = "score"
  /\ 0 < vector /\ vector < forest
  /\ pc' = "dead"
  /\ UNCHANGED <<offsets, claims, topics, database, catalog, reading, memory,
                 training, folded, outcome, env>>

PublishAnomaly ==
  /\ pc = "publish"
  /\ published' = published \cup {msg}
  /\ pc' = "commit"
  /\ anomaly' = None
  /\ UNCHANGED <<offsets, claims, dlq, database, catalog, info, order, vector,
                 memory, training, folded, outcome, env>>

\* Breaker open, or the attempts failed; one that timed out may be delivered.
OnPublishErrorCommitted == "commit"
OnPublishError == "dlq_publish"

PublishFails ==
  /\ pc = "publish"
  /\ published' \in {published, published \cup {msg}}
  /\ Fault
  /\ pc' = OnPublishError
  /\ anomaly' = None
  /\ UNCHANGED <<offsets, claims, dlq, database, catalog, info, order, vector,
                 memory, training, folded, outcome, restarts>>

DeadLettered ==
  /\ pc \in {"dlq_unmarshal", "dlq_publish"}
  /\ dlq' = dlq \cup {msg}
  /\ pc' = "commit"
  /\ UNCHANGED <<offsets, claims, published, database, catalog, reading, memory,
                 training, folded, outcome, env>>

\* The offset is held back, but a claim made for the event stays.
DeadLetterFails ==
  /\ pc \in {"dlq_unmarshal", "dlq_publish"}
  /\ dlq' \in {dlq, dlq \cup {msg}}
  /\ Fault
  /\ pc' = "idle"
  /\ held' = held \cup {position}
  /\ orphaned' = orphaned \cup (IF pc = "dlq_publish" THEN {msg} ELSE {})
  /\ UNCHANGED <<offsets, claims, published, database, catalog, reading, memory,
                 training, folded, judged, restarts>>

Commit ==
  /\ pc = "commit"
  /\ committed' = position
  /\ pc' = "idle"
  /\ UNCHANGED <<position, claims, topics, database, catalog, reading, memory,
                 training, folded, outcome, env>>

CommitFails ==
  /\ pc = "commit"
  /\ Fault
  /\ pc' = "idle"
  /\ UNCHANGED <<offsets, claims, topics, database, catalog, reading, memory,
                 training, folded, outcome, restarts>>

Consume ==
  \/ Poll \/ ClaimFirst \/ ClaimDuplicate \/ ClaimFails
  \/ Lookup \/ FeaturesFor \/ Observe \/ Score \/ ScoreRaises
  \/ PublishAnomaly \/ PublishFails \/ DeadLettered \/ DeadLetterFails
  \/ Commit \/ CommitFails

-----------------------------------------------------------------------------
(* The other threads and the environment. *)

\* refresh queries, then swaps under the lock; a failed one keeps what it had.
Refresh ==
  /\ catalog # sensors
  /\ catalog' = sensors
  /\ UNCHANGED <<offsets, pc, claims, topics, database, reading, memory,
                 training, folded, outcome, env>>

\* run_forest_trainer copies the buffer under the lock.
EnoughData == Len(buffer) >= MinTraining

TrainingSnapshot ==
  /\ trainer = "wait"
  /\ EnoughData
  /\ trainer' = "fit"
  /\ snapshot' = buffer
  /\ UNCHANGED <<offsets, pc, claims, topics, database, catalog, reading,
                 memory, forest, folded, outcome, env>>

\* A tree splits on features of the rows it was given.
TrainedWidthOfCatalog == Cardinality(catalog)
TrainedWidth == Max({snapshot[i] : i \in DOMAIN snapshot})

Fit ==
  /\ trainer = "fit"
  /\ trainer' = "wait"
  /\ snapshot' = <<>>
  /\ forest' = TrainedWidth
  /\ UNCHANGED <<offsets, pc, claims, topics, database, catalog, reading,
                 memory, folded, outcome, env>>

\* _feature_range takes the features of the first row of a node and indexes
\* every row by them.  A subsample smaller than the data is in random order,
\* otherwise the rows keep theirs; a single row is not split.
FitMayRaise(rows) ==
  /\ SubsampleSize > 1
  /\ \E i, j \in DOMAIN rows :
       rows[i] > rows[j] /\ (i < j \/ SubsampleSize < Len(rows))

FitRaises ==
  /\ trainer = "fit"
  /\ FitMayRaise(snapshot)
  /\ trainer' = "dead"
  /\ UNCHANGED <<offsets, pc, claims, topics, database, catalog, reading,
                 memory, forest, snapshot, folded, outcome, env>>

\* Sensors are added to and removed from the device.
ChangeSensors(new) ==
  /\ changes < MaxChanges /\ new # sensors
  /\ sensors' = new
  /\ changes' = changes + 1
  /\ removed' = removed \cup (sensors \ new)
  /\ UNCHANGED <<offsets, pc, claims, topics, catalog, reading, memory,
                 training, folded, outcome, env>>

\* The process dies at any step and starts again with empty memory and a
\* fresh catalog.
Restart ==
  /\ restarts < MaxRestarts
  /\ restarts' = restarts + 1
  /\ position' = committed
  /\ pc' = "idle"
  /\ catalog' = sensors
  /\ EmptyMemory
  /\ ForgetReading /\ anomaly' = None
  /\ orphaned' = orphaned \cup (IF pc \in PastClaim THEN {msg} ELSE {})
  /\ UNCHANGED <<committed, claims, topics, database, folded, judged, held,
                 faults>>

\* The group rebalances between two polls.
Rebalance ==
  /\ pc = "idle"
  /\ restarts < MaxRestarts
  /\ restarts' = restarts + 1
  /\ position' = committed
  /\ UNCHANGED <<committed, pc, claims, topics, database, catalog, reading,
                 memory, training, folded, outcome, faults>>

Next ==
  \/ Consume
  \/ Refresh
  \/ TrainingSnapshot \/ Fit \/ FitRaises
  \/ \E new \in SUBSET Metrics : ChangeSensors(new)
  \/ Restart
  \/ Rebalance

Spec == Init /\ [][Next]_vars

\* Every call of the loop has a timeout, so the loop keeps taking steps.
FairSpec == Spec /\ WF_vars(Consume)

-----------------------------------------------------------------------------
(* Properties. *)

TypeOK ==
  /\ committed \in 0..position /\ position \in 0..Len(Log)
  /\ pc \in Steps /\ (pc # "idle" => position > 0)
  /\ claims \cup published \cup judged \cup orphaned \subseteq Events
  /\ dlq \subseteq Events \cup {Malformed} /\ held \subseteq 1..Len(Log)
  /\ sensors \cup removed \cup catalog \cup info \cup order \cup latest
       \subseteq Metrics
  /\ samples \in [Metrics -> Nat] /\ folded \in [Events -> Nat]
  /\ vector \in Nat /\ forest \in Nat
  /\ buffer \in Seq(Nat) /\ Len(buffer) <= BufferSize /\ snapshot \in Seq(Nat)
  /\ trainer \in {"wait", "fit", "dead"}
  /\ anomaly.severity \in 0..3
  /\ changes \in Nat /\ faults \in Nat /\ restarts \in Nat

\* Offsets whose message was published, dead-lettered or judged unremarkable,
\* or that were held back, or whose event some run claimed and never finished.
Accounted ==
  {o \in 1..Len(Log) : \/ Log[o] \in published \cup dlq \cup judged \cup orphaned
                       \/ o \in held}

Group == INSTANCE ConsumerGroup
           WITH position <- position, committed <- committed,
                accounted <- Accounted

\* main.py:104-249.  The loop implements a consumer group that passes no
\* message it has not accounted for: a reading is never skipped in silence
\* except where a permanent claim outlived the run that made it.
ImplementsConsumerGroup == Group!Spec

\* idempotency.py:8-12, main.py:144-157.  No reading enters the EWMA baseline
\* and the training buffer twice, whatever is redelivered after whichever
\* crash, rebalance or lost answer.
FoldedOnce == \A e \in Events : folded[e] <= 1

\* main.py:185-190, isolationforest.py:115-120.  Scoring can end the consume
\* loop only after a sensor was removed: while a machine type only gains
\* metrics, a vector is never narrower than those its forest was trained on,
\* whenever the catalog, the trainer and the loop run.
LoopDiesOnlyAfterRemoval == pc = "dead" => removed # {}

\* main.py:175-197, stats.py:74-76, forestregistry.py:20-26.  What an anomaly
\* about to be published names has its data behind it, although the catalog, the
\* baselines and the forest are written at other times than they are read: RULE
\* a metric that the sensors table lists, or listed before it was taken out;
\* STATISTICAL at least MinSamples different readings of the series, none counted
\* twice after a redelivery; ISOLATION_FOREST a buffer that still holds as many
\* vectors as training asks for, though the forest was fitted from an older copy.
Readings(m) == {e \in Events : MetricOf[e] = m /\ folded[e] > 0}

AnomalyIsGrounded ==
  pc = "publish" =>
    /\ "RULE" \in anomaly.methods => MetricOf[msg] \in sensors \cup removed
    /\ "STATISTICAL" \in anomaly.methods =>
         Cardinality(Readings(MetricOf[msg])) >= MinSamples
    /\ "ISOLATION_FOREST" \in anomaly.methods =>
         Len(buffer) >= Min({MinTraining, BufferSize})

\* main.py:104-124.  Unless scoring ended it, the loop reaches the end of the
\* partition whatever fails.
KeepsUp == <>[](pc = "dead" \/ (pc = "idle" /\ position = Len(Log)))
=============================================================================
