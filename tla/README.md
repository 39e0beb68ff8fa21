# A TLA+ verification of InduSense

InduSense carries sensor readings from machines to operators:

    device/simulator --MQTT--> ingestion --Kafka telemetry.raw, device.events-->
      stream-processor --telemetry.processed--> anomaly-detector
      --anomalies.detected--> alert-service --alerts--> api (WebSocket, REST)

Redis holds the stream processor's claims, InfluxDB the time series, Postgres
the alerts, incidents, users and devices. Every hop promises at-least-once
delivery, every consumer claims to be idempotent, and every database statement
commits on its own (`autocommit=True` in both connection pools). The
interesting questions are what survives when these promises meet: crashes
between two calls, redelivery, two clients working on one row, a decision made
on something read earlier.

## Inventory

| Component | State | Operations | Hard because |
|---|---|---|---|
| ingestion (`services/ingestion`) | job queue, 50 workers, MQTT session, packet ids | handler, worker, Kafka sink, ack, ordered shutdown | redelivery on reconnect, acknowledgement by packet id, full queue, shutdown races |
| stream-processor (`services/stream-processor`) | Kafka offsets, Redis claims, in-memory windows | poll, claim, raw write, aggregate, republish, dead-letter, commit; flusher thread | crash after the claim, held offsets, several dependencies failing |
| retry and breaker (`shared/reliability.py`) | state, consecutive failures, opening time | `allow`, `record_success`, `record_failure`, `retry_with_backoff` | shared by all threads of a service; late reports |
| anomaly-detector (`services/anomaly-detector`) | permanent claims in Postgres, EWMA baselines, feature buffers, forests, sensor catalog | consume, claim, fold, judge, publish; catalog and trainer threads | crash after a claim that never expires; catalog, buffer and forest of different ages |
| windows (`stream-processor/window.py`, `registry.py`) | per-series sample buffer | insert by event time, trim, statistics; flusher thread | readings out of order, clocks ahead |
| rules and counts (`alert-service/rules.py`, `anomalycount.py`) | rule cache, times per rule and device | refresh, scope, conditions, count | anomalies out of order, rules edited meanwhile |
| sessions (`shared/auth.py`, `frontend/lib/api.ts`) | refresh tokens in Redis, token pair in localStorage, rate-limit counter | login, rotation, logout | tabs race; a failure between delete and record |
| alert feed (`api/ws_alerts.py`) | consumer group, hub of connections, scheduled broadcasts | fan-out, register, broadcast, unregister | a thread, coroutines and clients interleave |
| alert-service (`services/alert-service`) | `alerts` table, rule cache, anomaly counts | two consumers, escalation sweeper, notifications | check-then-insert, sweeping from an old query result, crash after INSERT |
| incident store (`shared/incidents.py`) | `incidents`, `incident_events` | `open_or_attach`, `transition`, `assign`, `resolve` | alert threads and API requests race; no transaction around update and audit |
| other API resources (`services/api`) | device credentials, devices | rotate, decommission, REST queries | single transactions; the rest only reads |
| simulator, frontend, migrations, seed, deployment | - | - | load generation, presentation, configuration |

What makes each correct: ingestion never acknowledges what it has not recorded;
the stream processor loses nothing silently and aggregates an event once per
claim; the breaker opens at its threshold and always recovers; a machine has
one active incident, whose status is in the audit trail; a rule has one open
alert per scope, which is announced and escalated until somebody looks; the
detector folds a reading once and skips none without cause; an aggregate or a
count says what the whole history says; a session has one refresh token, and
none after logout; a viewer gets each alert of the own organization.
`PROJECT.json` lists every component, and under `hazards` each place where the
code is exposed to something a test would hardly reach.

## Modules

| Module | Models | Specification |
|---|---|---|
| `StreamProcessor` | the consume loop, one partition, its dependencies | `Spec`, `FairSpec` |
| `CircuitBreaker` | `CircuitBreaker` and `retry_with_backoff` under several threads | `Spec`, `FairSpec` |
| `IncidentLifecycle` | abstract: what the incident state machine promises | `Spec` |
| `Incidents` | the incident store, statement by statement; implements `IncidentLifecycle` | `Spec` |
| `Alerts` | consumers, alert store and sweeper on several replicas, operators | `Spec`, `FairSpec` |
| `Ingestion` | handler, queue, workers, shutdown, with the MQTT broker's session | `Spec`, `FairSpec` |
| `ConsumerGroup` | abstract: what a consume loop promises of its partition | `Spec` |
| `Detector` | the detector's loop, catalog refresher and forest trainer; implements `ConsumerGroup` | `Spec`, `FairSpec` |
| `SeriesWindows` | the window buffer and the flusher | `Init`, `Next` |
| `AnomalyCounts` | rule cache, conditions and anomaly counts | `Init`, `Next` |
| `TimeWindows` | `SeriesWindows` and `AnomalyCounts` side by side; they do not interact, so one moves while the other waits | `WindowsSpec` |
| `Sessions` | login, rotation, logout, rate limiter and the browser's tabs | `Spec` |
| `AlertFeed` | fan-out thread, hub and connections | `Spec`, `FairSpec` |
| `StreamProcessorProofs`, `IncidentsProofs`, `IngestionProofs`, `DetectorProofs`, `SessionsProofs`, `AlertsProofs`, `AlertFeedProofs` | theorems about the module they extend | |
| `SharedStateProofs` | theorems about what threads share in memory: `CircuitBreaker` and `TimeWindows` | |
| `MCIncidents`, `MCAlerts`, `MCDetector`, `MCAlertFeed`, `MCWindows` | constants for TLC that a cfg cannot write | |

Correspondence. A thread is a program counter `pc` naming the next call to the
outside (Redis, InfluxDB, Kafka, Postgres, MQTT); what runs between two calls
is part of the action that makes the first. One SQL statement is one action.
A failed call is an action of its own; where the code cannot know whether a
failed call took effect (a produce that timed out, an INSERT whose connection
broke) the effect is a choice. Offsets count from 1, so committing a message
sets `committed` to its own offset. Event payloads, titles, notes and times are
left out; time appears only as the facts the code tests (`cooled` for the
breaker's cooldown, `ripe` for the escalation interval, `ExpireClaim` for the
Redis TTL). Variables marked "history" are read by no action.

- `StreamProcessor`: `Poll` is the loop's poll and the parse; `Claim*` is
  `dedup.claim`; `WriteRawPoint` includes `registry.record`, which follows
  without a call out; `DeadLettered`/`DeadLetterFails` are the three dead-letter
  sites; `HoldOffset` is `_process_message` returning False. `Restart` loses the
  windows, `Rebalance` keeps them.
- `CircuitBreaker`: the three methods hold the lock, so each is one step. The
  attempts in between interleave.
- `Incidents`: linkers are the alert service's two consumer threads, operators
  the API's requests. The unique index appears as `Conflicts` (the INSERT does
  nothing) and `ReopenRefused` (the UPDATE raises).
- `Alerts`: a key is one (rule, dedupe key) pair. Which keys a message is due
  for is a free choice, because it depends on the rule cache and the in-memory
  counts. No code sets an alert RESOLVED, so the cooldown branch of
  `create_if_due` is never taken. A rebalance gives the partition to a replica
  that is polling while its old owner may be in mid-message; the old owner's
  commit is refused.
- `Ingestion`: the handler is two steps, its shutdown check and its put. The
  broker is environment: an in-flight window, packet ids that come round after
  `IdSpace` messages, redelivery only on reconnect (as MQTT 3.1.1 requires).
- `Detector`: the claim is one committed INSERT and never expires. `Lookup` and
  `FeaturesFor` are two acquisitions of the catalog's lock, so a `Refresh` may
  fall between them. `Observe` is `trackers.update` and `fs.observe`. A feature
  vector is its width: whether training or scoring indexes past a vector's end
  depends on widths alone (`FitRaises`, `ScoreRaises`), and what the forest and
  the EWMA answer is a free choice of score. Severities and the combination of
  the three detectors are computed as the code does.
- `SeriesWindows`: `Track` puts the series into the registry, `Add` the sample
  into its buffer; a flush takes the lock once per window (`Compute`).
  Averages, deviations and rates are kept as the sums and differences they are
  quotients of, so that they stay integers. The reference they are compared
  with is computed from all readings in the order they came in.
- `AnomalyCounts`: one rule in its versions; `refresh` brings the cached copy up
  to date at any time or never. The tracker's list of times is a set of times
  numbered by arrival, which keeps equal times apart: the code filters the list
  and takes its length, so nothing depends on its order. In `Alerts` the outcome of this evaluation is a
  free choice of keys, which covers everything it can say.
- `Sessions`: a tab's request stops at each call to Redis or Postgres: the
  limiter and the DELETE (`RefreshDelete`), the roles (`RolesForUser`), the SET
  (`IssuePair`), the answer. The DELETE's result is what decides between two
  requests with one token. Any idle tab may log in, also while a pair is stored:
  the login page does not ask. A login refused with a 401 refreshes a stored pair
  as every request does (`StartRefresh`); its retry is a further login attempt.
  `RequestFails` is a failed or ambiguous call, a dead
  API or a lost answer; the tab clears the pair in every case.
- `AlertFeed`: the hub's lock is never held over an await, so taking the targets
  (`Start`), each send, `Register` and `Unregister` are single steps of the
  event loop. The consumer group is fresh at each start and begins at the end.
  The hub's dict and a broadcast's list of targets are sets: nothing depends on
  their order, so a broadcast may serve its targets in any.
- Abstract: `ConsumerGroup` has `position`, `committed` and the offsets that are
  `accounted` for. The mapping takes an offset as accounted for when its
  message was published, dead-lettered, judged unremarkable (detector) or
  republished (stream processor), was held back, or its event's claim outlived
  the run that made it. `IncidentLifecycle` has the statuses only.

## Runs

| Run | Shows | Bounds |
|---|---|---|
| `Stream` | `LossIsExplained`, `StoredFirst`, `FoldedOncePerClaim`, `ReachesTheEnd` | 2 events, 2 messages, every dependency failing at will, 1 restart or rebalance, 1 expiry per claim |
| `Breaker` | `ClosedIffBelowThreshold`, `HalfOpenHasTrial`, `Recovers` | 3 threads, threshold 2, 2 attempts, 2 outages |
| `Incidents` | `OneActivePerMachine`, `ResolvedIsDated`, `FailureNeedsResolution`, `StatusTraced`, `ImplementsLifecycle` | 2 alerts, 2 linkers, 1 operator, 2 incidents, 1 client dying |
| `AlertsRace` | `OneOpenPerKey`, `CommittedIsAlerted` | 2 replicas, 1 key, 2 messages, 2 faults |
| `AlertsSingle` | `OneUnresolvedPerKey`, `LevelMatchesSeverity`, `UnannouncedExplained`, `EscalationIsCurrent`, `EscalatesToTop` | 1 replica (as deployed), 2 keys (HIGH, WARNING), a poison message, 1 fault |
| `Ingest` | `AckedIsRecorded`, `EventuallySettled` | 3 messages, two invalid, 2 workers, queue of 1, in-flight window of 2, 1 lost connection, 1 stop, both topics failing |
| `Detector` | `FoldedOnce`, `LoopDiesOnlyAfterRemoval`, `AnomalyIsGrounded`, `ImplementsConsumerGroup`, `KeepsUp` | 3 readings of 2 metrics and a malformed message, 2 faults, 1 restart or rebalance, 1 change of the sensors, buffer of 2 |
| `Sessions` | `OneStrandPerSession`, `LogoutEndsSession`, `StaysSignedIn`, `NoNewSessionsOnceInactive` | 2 tabs, 4 token pairs, 2 auth requests per window, 1 fault |
| `AlertFeed` | `FeedIsFaithful`, `EveryViewerTold` | 2 viewers, 2 organizations, 2 events, one possibly malformed, 2 faults (failed commit, rejoin, restart) |
| `Windows` | `AggregatesAreExact`, `CountIsExact` | 3 readings at 5 times with 2 values, windows of 1 and 3, 1 flush per start; 4 anomalies of 2 devices, 5 versions of a rule, 2 edits |

Why the bounds are enough. Every hazard in the list needs at most two actors
and one or two adverse events: a claim and its redelivery, a select and a
rival's insert, a delivery and its duplicate. Two messages are the least that
let a commit pass a held offset; two workers the least that hold two jobs of
one packet id; three messages the least of which two can fill the broker's
in-flight window and hold the third back; three threads let a straggler report during another's trial;
threshold 2 separates the first failure from the opening one; two vectors let a
buffer mix widths; four token pairs let two sessions rotate once each; three
readings give an early, a late and an intermediate one in every order, and a
fourth anomaly lets an entry be stale behind a newer one; two faults are a
failed commit and the rejoin that repeats its event. The safety
properties that are proved hold for every value of these constants anyway.
Every property has a mutant in `PROJECT.json`: the change to the code that the
property is there to catch.

Two runs show a disagreement between the code and what its comments or
documents say (`findings` in `PROJECT.json` has the quotations):

- `IncidentsClosed`: two racing transitions reopen a closed incident.
- `AlertsAck`: an alert acknowledged during a sweep is escalated all the same.

Others met on the way, each reproduced by TLC on these modules, and left
without a run of their own: a held offset is passed by the next commit, though
`stream-processor/main.py:131-133` wants it redelivered, and a crash after the
claim loses the raw point that `dedup.py:13-15` calls correct regardless
(`LossIsExplained` names both as the only losses; `ImplementsConsumerGroup`
does for the detector, where the claim is for ever); a message dropped on a
full queue is not redelivered "later" (`mqtt_client.py:158-159`) while the
connection lasts, and enough of them fill the broker's in-flight window and hold
back every later message until a reconnect (`EventuallySettled` names both as
the only messages left over); removing a sensor can end the
detector's loop, or its trainer, with an IndexError (`isolationforest.py:118`,
`92`) while the process stays up; a tab that loses a rotation race, or meets a
429, clears the pair another tab has just stored (`api.ts:52`; `StaysSignedIn`
names these as exceptions), and a lost answer leaves a live token nobody
holds; a deactivated user's sessions can be refreshed for ever
(`auth.py:303-321`); a reading ahead of the processor's clock trims samples its
shorter windows still cover (`window.py:68`), a late anomaly is counted with
later ones no single window holds, and a rule widened by an edit misses what
was trimmed before (`anomalycount.py:36`), which are the provisos of
`AggregatesAreExact` and `CountIsExact`; the loser of an incident insert
race logs no ALERT_ATTACHED event (`incidents.py:157-165`); a client dying
between UPDATE and audit INSERT leaves a transition unlogged
(`incidents.py:191-192`; `StatusTraced` names this as the only way); an alert
for a machine whose incident is RESOLVED opens a second one
(`incidents.py:130`); a second replica can create a second unresolved alert
around an acknowledgement, and its sweeper can escalate an alert twice, which
is why `AlertsSingle` has one replica; CREATED events are lost when the service
dies after the INSERT (`UnannouncedExplained` names it); events say OPEN for
acknowledged alerts (`main.py:374`); INFO alerts never move up; a duplicate
job's late acknowledgement can release another message once packet ids have
wrapped, which is why `AckedIsRecorded` says `sent <= IdSpace`; a handler past
its shutdown check can enqueue after the workers have left.

## Fairness

Weak fairness only. Threads keep running: every call they make has a timeout
(10 s produce, database and HTTP timeouts), and loops run until shutdown. Time
passes (`CooldownPasses`, `Age`). Outages end (`ComeUp`). Paho's loop
reconnects by itself and the container runtime restarts a stopped service
(`Connect`, `Start`). Nothing is assumed of failures, crashes, operators or
connection losses: they are bounded, never forced. `FairSpec` of `Ingestion`
gives no fairness to losing a connection, because nothing in the service makes
one happen. In `AlertFeed` the event loop resumes every coroutine whose await is
over, and the server's pings end the wait for a browser that is gone. In
`Detector` only the consume loop is fair: neither the refresher nor the trainer
is needed for `KeepsUp`. `Sessions` and `Windows` have safety properties only.

## Proofs

Each theorem is proved by TLAPS for every value of the constants allowed by
the module's named assumptions (`StreamAssumptions`, `BreakerAssumptions`,
`IncidentAssumptions`, `IngestionAssumptions`, `DetectorAssumptions`,
`SessionAssumptions`, `AlertAssumptions`, `FeedAssumptions`,
`WindowAssumptions`, `RuleAssumptions`), which only say that bounds are
naturals, that thresholds are positive, that special values lie outside the
sets they are special to, that times and values are integers, that windows are
durations one of which is the longest (`main.py:87` takes
`max(cfg.windows_seconds)`), and that a rule has one of the four conditions, a
window and a threshold or none. The schema's CHECK gives the conditions and its
NOT NULL the window; that the window is not negative is what it means, no
constraint says it, and with a negative one the tracker would still count the
anomaly it is called for. TLC evaluates the assumptions in
every run; the inductive invariants were model-checked on instances of the size
of the runs, some with a further operator, tab or event, before they were
proved.

Five theorems carry a hypothesis on the number of actors, and each is about a
property the unrestricted system does not have. `OneReplica` is the deployment:
`docker-compose.yml:271` names the container and the chart's `values.yaml:119`
asks for one alert service; with two, TLC finds each of the three properties
stated under it violated. `OneOperator` says
that the API's calls on incidents come one at a time; without it the run
`IncidentsClosed` reopens a closed incident. Linkers are not restricted.

| Theorem | Says | Module |
|---|---|---|
| `TypeCorrect` | `TypeOK`; the committed offset never passes the position | `StreamProcessorProofs` |
| `LossExplained` | `LossIsExplained` | |
| `RawPointFirst` | `StoredFirst` | |
| `FoldedOnce` | `FoldedOncePerClaim` | |
| `BreakerTypeCorrect` | `TypeOK`; no call exceeds its attempts | `SharedStateProofs` |
| `ThresholdExact` | `ClosedIffBelowThreshold` | |
| `NeverHalfOpenAlone` | `HalfOpenHasTrial` | |
| `IncidentTypeCorrect` | `TypeOK`; only rows that exist are dated | `IncidentsProofs` |
| `OneActive` | `OneActivePerMachine` | |
| `ResolutionDated` | `ResolvedIsDated` | |
| `FailureExplained` | `FailureNeedsResolution` | |
| `IngestTypeCorrect` | `TypeOK`; the queue stays within its capacity | `IngestionProofs` |
| `AckedRecorded` | `AckedIsRecorded` | |
| `StreamIsConsumerGroup` | the stream processor implements `ConsumerGroup` | `StreamProcessorProofs` |
| `ReadingFoldedOnce` | `FoldedOnce` of the detector | `DetectorProofs` |
| `DetectorIsConsumerGroup` | `ImplementsConsumerGroup` | |
| `OneStrand` | `OneStrandPerSession` | `SessionsProofs` |
| `LogoutIsFinal` | `LogoutEndsSession` | |
| `BrowserStaysSignedIn` | `StaysSignedIn` | |
| `InactiveGainsNothing` | `NoNewSessionsOnceInactive` (an action property) | |
| `StatusIsTraced` | `StatusTraced` | `IncidentsProofs` |
| `StoreImplementsLifecycle` | `OneOperator`: `ImplementsLifecycle` | |
| `ClosedStaysClosed` | `OneOperator`: `ClosedIsTerminal` | |
| `AlertsType` | `TypeOK` | `AlertsProofs` |
| `AlertsOneOpen` | `OneOpenPerKey` | |
| `AlertsCommitted` | `CommittedIsAlerted` | |
| `AlertsUnannounced` | `UnannouncedExplained` | |
| `AlertsOneUnresolved` | `OneReplica`: `OneUnresolvedPerKey` | |
| `AlertsLevel` | `OneReplica`: `LevelMatchesSeverity` | |
| `AlertsEscalationCurrent` | `OneReplica`: `EscalationIsCurrent` (an action property) | |
| `DetectorLoopDies` | `LoopDiesOnlyAfterRemoval` | `DetectorProofs` |
| `DetectorAnomalyGrounded` | `AnomalyIsGrounded` | |
| `DetectorType` | `TypeOK` | |
| `FeedFaithful` | `FeedIsFaithful` | `AlertFeedProofs` |
| `WindowsAggregateExactly` | `AggregatesAreExact` | `SharedStateProofs` |
| `BufferKeepsWindow` | `BufferHolds`: the buffer is the history in event-time order, less what the longest window before some reading leaves out | |
| `CountsAreExact` | `CountIsExact` | |
| `TrackerIsExact` | `TrackerHolds`: the tracker holds exactly the anomalies no later evaluation cut off | |
| `AlertsWithinLevel` | `SeverityWithinLevel`: an alert is at or above its rule's severity, and no higher than its level accounts for | `AlertsProofs` |

The arguments:

- Stream processor. `LossIsExplained` speaks of committed offsets, but a commit
  may pass offsets that were never handled and a duplicate is committed without
  being processed. `LossInv` therefore accounts for everything *fetched*
  (`FetchedAccounted`), and for every live claim (`ClaimsSettled`): its event is
  settled or in hand. That is what makes it right to commit a duplicate.
  `SettledIsStable` says that no step takes back what is settled. For
  `FoldedOnce`, `FoldInv` counts the fold still owed by the message in hand
  together with those done against the claims there have been.
- Breaker. The three properties are inductive once it is added that an attempt
  is only made while the budget lasts (`BudgetLeft`).
- Incidents. Every call decides from an earlier statement, so `IInv` adds what a
  client in mid-call may rely on: `InHand`; `CloseIsDated`, because CLOSED is
  only entered from RESOLVED (`ClosedFromResolved`) and `resolved_at` is never
  cleared. Only `InsertIncident` and `UpdateStatus` change the table; the
  index's two guards keep `OneActivePerMachine`. `StatusTraced` accepts any
  client about to log something about the incident, which is not inductive: when
  two operators move one incident, the first to log explains only its own move.
  `LatestTraced` asks for a client about to log the *present* status. For the
  refinement, `MoveIsValid` says that the move an operator has checked is still
  valid when its UPDATE comes: linkers only insert rows, and with `OneOperator`
  nobody else updates one. `ClosedStaysClosed` then follows from the lifecycle.
  For `FailureNeedsResolution`, the history `ceased` keeps, per alert, the
  incidents that ceased to be active while its call ran; `RaceInv` says that an
  alert being linked is in the hands of one client, and that a linker whose
  INSERT conflicted finds the winner either still active or in `ceased`.
- Ingestion. A duplicate job may be acknowledged long after its message was
  released, so `IngestInv` is about packet ids: until they wrap, the next one is
  fresh (`MidsFresh`) and one in circulation stands for one message
  (`MidsAgree`). An acknowledgement then releases only the message its worker
  recorded (`JobsInHand`).
- Refinement. A fetch of the abstract group needs everything fetched before to
  be accounted for, and a commit its own message: exactly `FetchedAccounted`
  and `CommitSettled` of `LossInv`, respectively of the detector's `GroupInv`,
  together with the fact that no outcome is taken back (`SettledIsStable`,
  `OutcomesAreStable`). Every other step adds accounts or stutters.
- Detector. `FoldInv` weighs the folds done and the one still owed by the
  reading in hand against the one claim an event can have. That scoring fails
  only after a removal is about widths: while no sensor was removed, the vectors
  of a buffer only get wider (`Widening`, `GrowingInv`), so the widest index a
  forest asks for exists in every later vector. A maximum over a sequence is a
  CHOOSE; `LeastNumber`, the least-number principle from the library's
  well-founded minimum, takes the place of induction for it. That an anomaly is grounded needs one fact per
  method (`GroundInv`): the catalog and the copy in hand hold only metrics the
  table lists or listed (`RangeInv`, with the history `removed`); a series counts
  no more samples than different readings were folded, since none is folded twice
  (`SampleInv`, from `FoldInv`); and a forest is only trained from, and followed
  by, a buffer that large (`MemoryInv`).
- Alerts. `RowInv`: what a consumer found for a key stays true until it commits
  (`FoundInv`), because rows are never deleted and the index admits one OPEN row
  per key. With one replica, `SoleInv`: the SELECT still holds at the INSERT
  (`SelectHolds`), and the copy of a row in the sweeper's hands is the row
  (`SweeperCurrent`), since operators change neither severity nor level. With
  several replicas a sweeper may write the severity of an old copy, which can
  take a row back a rung (TLC shows it); `LadderInv` says that every copy lags
  behind its row by level only (`Lags`), and what is left is that a severity
  lies between its rule's and its rule's plus its level.
- Windows. The buffer is sorted by event time and trimmed, the history is
  neither. `Holds` relates the two by the function that takes each position of
  the buffer to the reading it holds: it is ordered by event time and then by
  arrival, and a reading it misses lies further back from some reading than the
  longest window. An insertion shifts this function at the slot, a trim cuts its
  front off. Within a window that no reading is too far ahead of, it is a
  bijection (`StatsExact`), so counts, extremes, first and last agree, and so do
  sums once a sum is known not to depend on the numbering (`SumBijection`). The
  library's sum is a fold in an order nobody chose, and induction over it is out
  of the provers' reach; a smallest set on which two folds differ
  (`SmallestSet`, from the well-foundedness of the strict subsets of a finite
  set) takes its place. A point speaks of the readings that were in when it was
  computed (`PointsSeen`), so later ones change nothing (`ExactStays`).
- Counts. The tracker trims at each evaluation with the window of that moment,
  so what it holds is not what one window says. `TrackerHolds` says what it does
  hold, without provisos: for each device the anomalies that no later evaluation
  cut off (`Survivors`). `VerdictIsLatest` ties the verdict to the last entry;
  where no earlier cut-off lies behind the verdict's, survivors are the
  anomalies within the window, and `CountIsExact` follows.
- Feed. `FeedInv` follows an event from the consumer to the browser: one whose
  commit did not fail stays at or below every offset the group could resume from
  (`Settled`), so it is polled and scheduled once (`TaskInv`), and a target
  leaves the broadcast when it is served (`GotInv`). A restart begins behind all
  events seen before.
- Sessions. That a session has one strand is inductive only with the numbering
  of `TokenInv`: tokens are numbered as they are issued and a session is one of
  its own tokens, so a login's session is new to every live token, every
  rotation and every session ended. `StrandInv` adds that a rotation in
  progress is never of an ended session, since a logout that deletes a token
  finds no rotation of its session. For `StaysSignedIn`, `SignedIn` says that
  while nothing troubles the browser tabs may be logging in and at most one
  rotates the stored token, and that tokens on their way to the browser are live
  and never the one being rotated.
  For `NoNewSessionsOnceInactive` a step loses strands or turns a token into a
  rotation or back (`StrandsMove`), and only a login adds one.

Some attempts at proofs changed the models. The detector's checks were written
with CASE although their guards overlap, which leaves the value open where two
guards hold; they are IF ... ELSE IF now, in the code's order. The feed's hub
and targets were sequences filtered with SelectSeq, which the prover cannot
expand; they are sets now, which allows more orders than the code has. The anomaly
tracker's times were a sequence too, and are a set of numbered times; the sums
of a window are taken over positions and no longer over a set of images.

Only model-checked: all liveness (`ReachesTheEnd`, `Recovers`,
`EscalatesToTop`, `EventuallySettled`, `KeepsUp`, `EveryViewerTold`), which
TLAPS cannot do under fairness, and the two counterexamples. Every invariant and
action property of a passing run is proved.

## Not modelled, and the plan

Still open: the composition of ingestion's topic with the stream processor's
log, so that the end-to-end promise (a published reading is stored,
dead-lettered, or its loss is explained) is one property. The two proved halves
(`AckedRecorded`, and both consumers implementing `ConsumerGroup`) meet at the
topic.

Left out for good: the isolation forest's arithmetic and the EWMA's (random or
floating-point, out of TLC's reach); password hashing, the role table, address
resolution and pagination (pure functions of one request, without state);
device credential rotation (one transaction guarded by a unique index) and
decommissioning (one UPDATE); the simulator (a load generator, part of
`Ingestion`'s environment); presentation, configuration, metrics, tracing,
logging and audit rows of logins (no state a property reads); seed data.
