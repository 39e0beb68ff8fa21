------------------------------ MODULE Ingestion ------------------------------
(***************************************************************************)
(* The ingestion service between the MQTT broker and Kafka.  Paho's        *)
(* network thread runs the subscription handler, which puts each message   *)
(* on a bounded queue; a pool of workers takes jobs off it, validates      *)
(* them, records them in Kafka (on their topic or on dead-letter) and only *)
(* then acknowledges them to the broker by packet id.  The main thread     *)
(* stops the service in order: signal, disconnect, drain, exit.            *)
(*                                                                         *)
(* The broker (external) keeps a persistent session: it holds a message in *)
(* flight until its packet id is acknowledged, keeps at most MaxInflight   *)
(* of them, and sends them again, with their packet ids, only when the     *)
(* client reconnects.  The handler is subscribed to three topic patterns   *)
(* only, so the worker's unrecognized-topic branch is never taken.         *)
(***************************************************************************)
EXTENDS Naturals, Sequences, FiniteSets

CONSTANTS Messages,
          Invalid,       \* messages that fail parsing or validation
          Workers,
          QueueCapacity, \* INGESTION_QUEUE_CAPACITY
          MaxInflight,   \* the broker's in-flight window
          IdSpace,       \* packet ids before they are used again
          Faults,        \* the Kafka topics that may fail a produce
          MaxLosses,     \* bound: losses of the MQTT connection
          MaxStops       \* bound: shutdowns and crashes

ASSUME IngestionAssumptions ==
  /\ Invalid \subseteq Messages
  /\ QueueCapacity \in Nat /\ MaxInflight \in Nat
  /\ IdSpace \in Nat \ {0}
  /\ Faults \subseteq {"topic", "dlq_topic"}
  /\ MaxLosses \in Nat /\ MaxStops \in Nat

VARIABLES
  published,  \* messages devices have published
  pending,    \* broker: messages not sent yet
  inflight,   \* broker: deliveries sent and not acknowledged
  sent,       \* broker: messages sent so far, which gives the next packet id
  resend,     \* broker: deliveries to repeat on this connection
  connected,  \* the MQTT connection
  run,        \* the process: "up", "stopping", "draining" or "down"
  inbox,      \* the delivery the handler has in hand, past its first check
  queue,      \* jobs
  pc,         \* per worker: its next call
  job,        \* per worker: the job in hand
  topic,      \* messages on telemetry.raw or device.events
  dlq,        \* messages on dead-letter
  dropped,    \* history: messages whose last delivery was left unacknowledged
  losses,     \* history: connection losses so far
  stops       \* history: shutdowns and crashes so far

broker  == <<published, pending, inflight, sent>>
link    == <<resend, connected>>
pool    == <<pc, job>>
kafka   == <<topic, dlq>>
history == <<dropped, losses, stops>>
vars == <<published, pending, inflight, sent, resend, connected, run, inbox,
          queue, pc, job, topic, dlq, dropped, losses, stops>>

\* A delivery is what the handler turns into an InboundMessage: the payload and
\* the packet id its ack closure captures.
Delivery(mid, m) == [mid |-> mid, msg |-> m]
Deliveries == [mid : Nat, msg : Messages]
NoJob == [mid |-> 0]

Mids == {d.mid : d \in inflight}
NextMid == sent % IdSpace
Recorded == topic \cup dlq

Init ==
  /\ published = {} /\ pending = {} /\ inflight = {} /\ sent = 0
  /\ resend = {} /\ connected = FALSE
  /\ run = "up" /\ inbox = {} /\ queue = <<>>
  /\ pc = [w \in Workers |-> "idle"]
  /\ job = [w \in Workers |-> NoJob]
  /\ topic = {} /\ dlq = {}
  /\ dropped = {} /\ losses = 0 /\ stops = 0

-----------------------------------------------------------------------------
(* Devices, the broker and the connection. *)

Publish(m) ==
  /\ m \notin published
  /\ published' = published \cup {m}
  /\ pending' = pending \cup {m}
  /\ UNCHANGED <<inflight, sent, link, run, inbox, queue, pool, kafka, history>>

\* clean_session=False: the session's unacknowledged deliveries are due again.
CleanSession == {}
SessionBacklog == inflight

\* The client connects, at start or by itself after a loss.
Connect ==
  /\ ~connected /\ run \in {"up", "stopping"}
  /\ connected' = TRUE
  /\ resend' = SessionBacklog
  /\ UNCHANGED <<broker, run, inbox, queue, pool, kafka, history>>

LoseConnection ==
  /\ connected /\ losses < MaxLosses
  /\ losses' = losses + 1
  /\ connected' = FALSE /\ resend' = {}
  /\ UNCHANGED <<broker, run, inbox, queue, pool, kafka, dropped, stops>>

\* handler: while shutting down a delivery is neither queued nor acknowledged.
Handle(d) ==
  \/ run = "up" /\ inbox' = {d} /\ dropped' = dropped \ {d.msg}
  \/ run # "up" /\ dropped' = dropped \cup {d.msg} /\ UNCHANGED inbox

\* A delivery reaches the handler; the network thread handles one at a time.
Send(m) ==
  /\ connected /\ resend = {} /\ inbox = {}
  /\ m \in pending
  /\ Cardinality(inflight) < MaxInflight /\ NextMid \notin Mids
  /\ pending' = pending \ {m}
  /\ inflight' = inflight \cup {Delivery(NextMid, m)}
  /\ sent' = sent + 1
  /\ Handle(Delivery(NextMid, m))
  /\ UNCHANGED <<published, link, run, queue, pool, kafka, losses, stops>>

Resend(d) ==
  /\ connected /\ inbox = {}
  /\ d \in resend
  /\ resend' = resend \ {d}
  /\ Handle(d)
  /\ UNCHANGED <<broker, connected, run, queue, pool, kafka, losses, stops>>

\* put_nowait: a full queue drops the delivery without acknowledging it.
Enqueue(d) ==
  /\ d \in inbox
  /\ inbox' = {}
  /\ \/ /\ Len(queue) < QueueCapacity
        /\ queue' = Append(queue, d) /\ UNCHANGED dropped
     \/ /\ Len(queue) >= QueueCapacity
        /\ dropped' = dropped \cup {d.msg} /\ UNCHANGED queue
  /\ UNCHANGED <<broker, link, run, pool, kafka, losses, stops>>

-----------------------------------------------------------------------------
(* The workers. *)

Goto(w, step) == pc' = [pc EXCEPT ![w] = step]

\* The job is finished with, acknowledged or not.
Finish(w) == Goto(w, "idle") /\ job' = [job EXCEPT ![w] = NoJob]

\* get (or get_nowait, when draining), parse and validate.
FirstCallUnvalidated(m) == "publish"
FirstCall(m) == IF m \in Invalid THEN "dead_letter" ELSE "publish"

Take(w) ==
  /\ pc[w] = "idle" /\ queue # <<>>
  /\ queue' = Tail(queue)
  /\ job' = [job EXCEPT ![w] = Head(queue)]
  /\ Goto(w, FirstCall(Head(queue).msg))
  /\ UNCHANGED <<broker, link, run, inbox, kafka, history>>

\* publish_telemetry, publish_machine_event.
PublishTopic(w) ==
  /\ pc[w] = "publish"
  /\ topic' = topic \cup {job[w].msg}
  /\ Goto(w, "ack")
  /\ UNCHANGED <<broker, link, run, inbox, queue, job, dlq, history>>

\* The breaker is open or every attempt failed: dead-letter it instead.  A
\* produce that timed out may still be delivered.
OnTopicErrorAcked == "ack"
OnTopicError == "dead_letter"

PublishTopicFails(w) ==
  /\ pc[w] = "publish" /\ "topic" \in Faults
  /\ topic' \in {topic, topic \cup {job[w].msg}}
  /\ Goto(w, OnTopicError)
  /\ UNCHANGED <<broker, link, run, inbox, queue, job, dlq, history>>

DeadLetter(w) ==
  /\ pc[w] = "dead_letter"
  /\ dlq' = dlq \cup {job[w].msg}
  /\ Goto(w, "ack")
  /\ UNCHANGED <<broker, link, run, inbox, queue, job, topic, history>>

\* The message is left unacknowledged.
DeadLetterFails(w) ==
  /\ pc[w] = "dead_letter" /\ "dlq_topic" \in Faults
  /\ dlq' \in {dlq, dlq \cup {job[w].msg}}
  /\ dropped' = dropped \cup {job[w].msg}
  /\ Finish(w)
  /\ UNCHANGED <<broker, link, run, inbox, queue, topic, losses, stops>>

\* job.ack(): the client sends the packet id the job was delivered with; with
\* no connection the acknowledgement is lost.
Ack(w) ==
  /\ pc[w] = "ack"
  /\ \/ connected /\ inflight' = {d \in inflight : d.mid # job[w].mid}
     \/ ~connected /\ UNCHANGED inflight
  /\ resend' = {d \in resend : d \in inflight'}
  /\ Finish(w)
  /\ UNCHANGED <<published, pending, sent, connected, run, inbox, queue, kafka,
                 history>>

\* Draining ends when the queue is empty.
Exit(w) ==
  /\ pc[w] = "idle" /\ run # "up" /\ queue = <<>>
  /\ Goto(w, "exited")
  /\ UNCHANGED <<broker, link, run, inbox, queue, job, kafka, history>>

-----------------------------------------------------------------------------
(* The main thread, crashes and restarts. *)

\* SIGTERM sets shutdown_event.
Shutdown ==
  /\ run = "up" /\ stops < MaxStops
  /\ stops' = stops + 1
  /\ run' = "stopping"
  /\ UNCHANGED <<broker, link, inbox, queue, pool, kafka, dropped, losses>>

\* disconnect and loop_stop, which waits for the network thread to finish.
Disconnect ==
  /\ run = "stopping" /\ inbox = {}
  /\ run' = "draining"
  /\ connected' = FALSE /\ resend' = {}
  /\ UNCHANGED <<broker, inbox, queue, pool, kafka, history>>

\* Every worker has been joined; main returns.
Stopped ==
  /\ run = "draining" /\ \A w \in Workers : pc[w] = "exited"
  /\ run' = "down"
  /\ UNCHANGED <<broker, link, inbox, queue, pool, kafka, history>>

Crash ==
  /\ run # "down" /\ stops < MaxStops
  /\ stops' = stops + 1
  /\ run' = "down"
  /\ connected' = FALSE /\ resend' = {}
  /\ UNCHANGED <<broker, inbox, queue, pool, kafka, dropped, losses>>

\* A new process starts with nothing in memory.
Start ==
  /\ run = "down"
  /\ run' = "up"
  /\ inbox' = {} /\ queue' = <<>>
  /\ pc' = [w \in Workers |-> "idle"]
  /\ job' = [w \in Workers |-> NoJob]
  /\ UNCHANGED <<broker, link, kafka, history>>

Network ==
  \/ Connect
  \/ \E m \in Messages : Send(m)
  \/ \E d \in resend : Resend(d)
  \/ \E d \in inbox : Enqueue(d)

Work(w) ==
  /\ run # "down"
  /\ \/ Take(w)
     \/ PublishTopic(w) \/ PublishTopicFails(w)
     \/ DeadLetter(w) \/ DeadLetterFails(w)
     \/ Ack(w) \/ Exit(w)

Main == Disconnect \/ Stopped \/ Start

Next ==
  \/ \E m \in Messages : Publish(m)
  \/ run # "down" /\ Network
  \/ \E w \in Workers : Work(w)
  \/ Main
  \/ LoseConnection \/ Shutdown \/ Crash

Spec == Init /\ [][Next]_vars

\* Paho's loop reconnects by itself, a worker's calls have timeouts, a stopped
\* service is started again.  Nothing makes a connection drop.
FairSpec ==
  /\ Spec
  /\ WF_vars(run # "down" /\ Network)
  /\ \A w \in Workers : WF_vars(Work(w))
  /\ WF_vars(Main)

-----------------------------------------------------------------------------
(* Properties. *)

TypeOK ==
  /\ published \subseteq Messages /\ pending \subseteq published
  /\ inflight \subseteq Deliveries /\ resend \subseteq inflight
  /\ sent \in Nat /\ connected \in BOOLEAN
  /\ run \in {"up", "stopping", "draining", "down"}
  /\ inbox \subseteq Deliveries
  /\ queue \in Seq(Deliveries) /\ Len(queue) <= QueueCapacity
  /\ pc \in [Workers -> {"idle", "publish", "dead_letter", "ack", "exited"}]
  /\ job \in [Workers -> Deliveries \cup {NoJob}]
  /\ topic \subseteq Messages \ Invalid /\ dlq \subseteq Messages
  /\ dropped \subseteq Messages /\ losses \in Nat /\ stops \in Nat

Settled(m) == m \notin pending /\ \A d \in inflight : d.msg # m

\* mqtt_client.py:55-63, kafka_producer.py:88-93.  Once the broker has let a
\* message go it is in Kafka, however connections, crashes, shutdowns and
\* duplicate deliveries interleave, as long as packet ids have not wrapped.
AckedIsRecorded ==
  sent <= IdSpace => \A m \in published : Settled(m) => m \in Recorded

\* The broker may not send the message: the window is full, and of deliveries
\* that nobody is going to acknowledge on this connection.
HeldBack(m) ==
  /\ m \in pending /\ Cardinality(inflight) >= MaxInflight
  /\ \A d \in inflight : d.msg \in dropped

\* mqtt_client.py:144-176, main.py:105-202.  Once connections and processes stop
\* failing, every published message is recorded and acknowledged for good, but
\* for one that the handler or a worker chose to leave unacknowledged at its last
\* delivery, and one that waits behind a window full of those: only a reconnect
\* sends them again, and nothing in the service asks for one.
EventuallySettled ==
  \A m \in Messages :
    <>[](m \in published =>
           (m \in Recorded /\ Settled(m)) \/ m \in dropped \/ HeldBack(m))
=============================================================================
