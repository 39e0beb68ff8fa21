--------------------------- MODULE IngestionProofs ---------------------------
(***************************************************************************)
(* What the broker lets go of is in Kafka: proved for any messages, number *)
(* of workers, queue capacity, in-flight window, set of failing topics and *)
(* number of lost connections and stops.  The invariant is about packet    *)
(* ids: a job may be a duplicate whose message was acknowledged long ago,  *)
(* so acknowledging it is only harmless because, until the ids wrap, no    *)
(* two messages in circulation share one.                                  *)
(***************************************************************************)
EXTENDS Ingestion, TLAPS

\* Workers with a job in hand.
Busy == {w \in Workers : pc[w] \in {"publish", "dead_letter", "ack"}}

\* Every copy of a delivery that may still lead to an acknowledgement.
Circulating ==
  inflight \cup inbox \cup {queue[n] : n \in 1..Len(queue)}
    \cup {job[w] : w \in Busy}

\* A busy worker holds a delivery; it only publishes a valid one, and has
\* recorded the one it is about to acknowledge.
JobsInHand ==
  \A w \in Busy :
    /\ job[w] \in Deliveries
    /\ pc[w] = "publish" => job[w].msg \notin Invalid
    /\ pc[w] = "ack" => job[w].msg \in Recorded

\* Until packet ids wrap, the next one is fresh and one in circulation stands
\* for one message.
MidsFresh == sent <= IdSpace => \A d \in Circulating : d.mid < sent
MidsAgree ==
  sent <= IdSpace => \A d, e \in Circulating : d.mid = e.mid => d.msg = e.msg

IngestInv ==
  TypeOK /\ JobsInHand /\ MidsFresh /\ MidsAgree /\ AckedIsRecorded

LEMMA IngestInit == Init => IngestInv
<1> SUFFICES ASSUME Init PROVE IngestInv
  OBVIOUS
<1>1. TypeOK
  <2>1. connected \in BOOLEAN
    BY Zenon DEF Init
  <2>2. QED
    BY <2>1, IngestionAssumptions DEF Init, TypeOK
<1>2. Busy = {} /\ Circulating = {}
  BY DEF Init, Busy, Circulating
<1>3. QED
  BY <1>1, <1>2 DEF Init, IngestInv, JobsInHand, MidsFresh, MidsAgree,
                    AckedIsRecorded

\* A step that brings nothing new into circulation keeps the packet ids apart.
LEMMA NothingNew ==
  ASSUME MidsFresh, MidsAgree, Circulating' \subseteq Circulating, sent' = sent
  PROVE  MidsFresh' /\ MidsAgree'
  BY DEF MidsFresh, MidsAgree

\* A step that keeps the broker's messages and loses nothing from Kafka keeps
\* every released message recorded.
LEMMA NothingReleased ==
  ASSUME AckedIsRecorded, UNCHANGED broker, Recorded \subseteq Recorded'
  PROVE  AckedIsRecorded'
  BY DEF AckedIsRecorded, Settled, broker

\* A worker that keeps its job, or drops it, adds nothing to circulation.
LEMMA StillCirculating ==
  ASSUME UNCHANGED <<inflight, inbox, queue>>,
         \A w \in Busy' : w \in Busy /\ job'[w] = job[w]
  PROVE  Circulating' \subseteq Circulating
  BY DEF Circulating

LEMMA CirculatingTypes ==
  ASSUME TypeOK, JobsInHand PROVE Circulating \subseteq Deliveries
<1>1. inflight \subseteq Deliveries /\ inbox \subseteq Deliveries
  BY DEF TypeOK
<1>2. \A n \in 1..Len(queue) : queue[n] \in Deliveries
  BY DEF TypeOK
<1>3. \A w \in Busy : job[w] \in Deliveries
  BY DEF JobsInHand
<1>4. QED
  BY <1>1, <1>2, <1>3, Zenon DEF Circulating

LEMMA IngestNext == IngestInv /\ [Next]_vars => IngestInv'
<1> SUFFICES ASSUME IngestInv, [Next]_vars PROVE IngestInv'
  OBVIOUS
<1> USE IngestionAssumptions
<1>0. TypeOK /\ JobsInHand /\ MidsFresh /\ MidsAgree /\ AckedIsRecorded
  BY DEF IngestInv
\* Steps of the environment and of the main thread.
<1>1. ASSUME NEW m \in Messages, Publish(m) PROVE IngestInv'
  <2>1. /\ UNCHANGED <<inflight, sent, resend, connected, run, inbox, queue,
                       pc, job, topic, dlq, dropped, losses, stops>>
        /\ published' = published \cup {m} /\ pending' = pending \cup {m}
    BY <1>1 DEF Publish, link, pool, kafka, history
  <2>2. Busy' = Busy /\ Circulating' = Circulating /\ Recorded' = Recorded
    BY <2>1 DEF Busy, Circulating, Recorded
  <2>3. TypeOK'
    BY <1>0, <2>1 DEF TypeOK
  <2>4. JobsInHand'
    BY <1>0, <2>1, <2>2 DEF JobsInHand
  <2>5. AckedIsRecorded'
    BY <1>0, <2>1, <2>2 DEF AckedIsRecorded, Settled
  <2>6. QED
    BY <1>0, <2>1, <2>2, <2>3, <2>4, <2>5, NothingNew DEF IngestInv
<1>2. ASSUME Connect \/ LoseConnection \/ Shutdown \/ Disconnect \/ Stopped
               \/ Crash
      PROVE  IngestInv'
  <2>1. UNCHANGED <<published, pending, inflight, sent, inbox, queue, pc, job,
                    topic, dlq, dropped>>
    BY <1>2 DEF Connect, LoseConnection, Shutdown, Disconnect, Stopped, Crash,
                broker, pool, kafka, history
  <2>2. /\ resend' \subseteq inflight
        /\ run' \in {"up", "stopping", "draining", "down"}
        /\ losses' \in Nat /\ stops' \in Nat
    BY <1>0, <1>2 DEF TypeOK, Connect, LoseConnection, Shutdown, Disconnect,
                      Stopped, Crash, SessionBacklog, link, history
  <2>3. connected' \in BOOLEAN
    BY <1>0, <1>2, Zenon DEF TypeOK, Connect, LoseConnection, Shutdown,
                             Disconnect, Stopped, Crash, link
  <2>4. TypeOK'
    BY <1>0, <2>1, <2>2, <2>3 DEF TypeOK
  <2>5. Busy' = Busy /\ Circulating' = Circulating /\ Recorded' = Recorded
    BY <2>1 DEF Busy, Circulating, Recorded
  <2>6. JobsInHand'
    BY <1>0, <2>1, <2>5 DEF JobsInHand
  <2>7. QED
    BY <1>0, <2>1, <2>4, <2>5, <2>6, NothingNew, NothingReleased
       DEF IngestInv, broker
<1>3. ASSUME Start PROVE IngestInv'
  <2>1. /\ UNCHANGED <<published, pending, inflight, sent, resend, connected,
                       topic, dlq, dropped, losses, stops>>
        /\ run' = "up" /\ inbox' = {} /\ queue' = <<>>
        /\ pc' = [w \in Workers |-> "idle"]
        /\ job' = [w \in Workers |-> NoJob]
    BY <1>3 DEF Start, broker, link, kafka, history
  <2>2. TypeOK'
    BY <1>0, <2>1 DEF TypeOK
  <2>3. Busy' = {} /\ Circulating' \subseteq Circulating /\ Recorded' = Recorded
    BY <2>1 DEF Busy, Circulating, Recorded
  <2>4. QED
    BY <1>0, <2>1, <2>2, <2>3, NothingNew, NothingReleased
       DEF IngestInv, JobsInHand, broker
\* The handler.
<1>4. ASSUME NEW m \in Messages, Send(m) PROVE IngestInv'
  <2> DEFINE d == Delivery(NextMid, m)
  <2>1. /\ UNCHANGED <<published, resend, connected, run, queue, pc, job, topic,
                       dlq, losses, stops>>
        /\ m \in pending /\ pending' = pending \ {m}
        /\ inflight' = inflight \cup {d} /\ sent' = sent + 1
    BY <1>4 DEF Send, link, pool, kafka
  <2>2. inbox' \subseteq inbox \cup {d} /\ dropped' \subseteq dropped \cup {m}
    BY <1>4 DEF Send, Handle, Delivery
  <2>3. d \in Deliveries /\ d.mid = NextMid /\ d.msg = m
    BY <1>0 DEF TypeOK, Delivery, Deliveries, NextMid
  <2>4. TypeOK'
    BY <1>0, <2>1, <2>2, <2>3 DEF TypeOK
  <2>5. Busy' = Busy /\ Circulating' \subseteq Circulating \cup {d}
    BY <2>1, <2>2 DEF Busy, Circulating
  <2>6. JobsInHand'
    BY <1>0, <2>1, <2>5 DEF JobsInHand, Recorded
  <2>7. ASSUME sent' <= IdSpace
        PROVE  d.mid = sent /\ \A e \in Circulating : e.mid < sent
    <3>1. sent \in Nat /\ sent < IdSpace
      BY <1>0, <2>1, <2>7 DEF TypeOK
    <3>2. sent % IdSpace = sent
      BY <3>1
    <3>3. QED
      BY <1>0, <2>3, <3>1, <3>2 DEF NextMid, MidsFresh
  <2>8. ASSUME sent' <= IdSpace PROVE sent <= IdSpace /\ sent \in Nat
    BY <1>0, <2>1, <2>8 DEF TypeOK
  <2>9. MidsFresh'
    <3>1. SUFFICES ASSUME sent' <= IdSpace, NEW e \in Circulating'
                   PROVE  e.mid < sent'
      BY DEF MidsFresh
    <3>2. e.mid = sent \/ (e \in Circulating /\ e.mid < sent)
      BY <2>5, <2>7, <3>1
    <3>3. CASE e.mid = sent
      BY <2>1, <2>8, <3>1, <3>3
    <3>4. CASE e \in Circulating /\ e.mid < sent
      <4>1. e.mid \in Nat
        BY <1>0, <3>4, CirculatingTypes DEF Deliveries
      <4>2. QED
        BY <2>1, <2>8, <3>1, <3>4, <4>1
    <3>5. QED
      BY <3>2, <3>3, <3>4
  <2>10. MidsAgree'
    <3>1. SUFFICES ASSUME sent' <= IdSpace, NEW e \in Circulating',
                          NEW f \in Circulating', e.mid = f.mid
                   PROVE  e.msg = f.msg
      BY DEF MidsAgree
    <3>2. ASSUME NEW g \in Circulating PROVE g.mid # d.mid
      <4>1. g.mid < sent /\ d.mid = sent /\ sent \in Nat
        BY <2>7, <2>8, <3>1
      <4>2. QED
        BY <4>1
    <3>3. CASE e \in Circulating /\ f \in Circulating
      BY <1>0, <2>8, <3>1, <3>3 DEF MidsAgree
    <3>4. QED
      BY <2>5, <3>1, <3>2, <3>3
  <2>11. AckedIsRecorded'
    BY <1>0, <2>1, <2>3, <2>8 DEF AckedIsRecorded, Settled, Recorded
  <2>12. QED
    BY <2>4, <2>6, <2>9, <2>10, <2>11 DEF IngestInv
<1>5. ASSUME NEW d \in resend, Resend(d) PROVE IngestInv'
  <2>1. /\ UNCHANGED <<published, pending, inflight, sent, connected, run,
                       queue, pc, job, topic, dlq, losses, stops>>
        /\ resend' = resend \ {d}
        /\ inbox' \subseteq inbox \cup {d}
        /\ dropped' \subseteq dropped \cup {d.msg}
    BY <1>5 DEF Resend, Handle, broker, pool, kafka
  <2>2. d \in inflight /\ d \in Deliveries /\ d.msg \in Messages
    BY <1>0 DEF TypeOK, Deliveries
  <2>3. TypeOK'
    BY <1>0, <2>1, <2>2 DEF TypeOK
  <2>4. /\ Busy' = Busy /\ Circulating' \subseteq Circulating
        /\ Recorded' = Recorded
    BY <2>1, <2>2 DEF Busy, Circulating, Recorded
  <2>5. JobsInHand'
    BY <1>0, <2>1, <2>4 DEF JobsInHand
  <2>6. QED
    BY <1>0, <2>1, <2>3, <2>4, <2>5, NothingNew, NothingReleased
       DEF IngestInv, broker
<1>6. ASSUME NEW d \in inbox, Enqueue(d) PROVE IngestInv'
  <2>1. /\ UNCHANGED <<published, pending, inflight, sent, resend, connected,
                       run, pc, job, topic, dlq, losses, stops>>
        /\ inbox' = {} /\ d \in Deliveries /\ d.msg \in Messages
    BY <1>0, <1>6 DEF Enqueue, broker, link, pool, kafka, TypeOK, Deliveries
  <2>2. /\ queue' \in Seq(Deliveries) /\ Len(queue') <= QueueCapacity
        /\ dropped' \subseteq Messages
        /\ \A n \in 1..Len(queue') :
             queue'[n] = d \/ \E k \in 1..Len(queue) : queue'[n] = queue[k]
    <3>1. CASE /\ Len(queue) < QueueCapacity
               /\ queue' = Append(queue, d) /\ dropped' = dropped
      BY <1>0, <2>1, <3>1 DEF TypeOK
    <3>2. CASE dropped' = dropped \cup {d.msg} /\ queue' = queue
      BY <1>0, <2>1, <3>2 DEF TypeOK
    <3>3. QED
      BY <1>6, <3>1, <3>2 DEF Enqueue
  <2>3. TypeOK'
    BY <1>0, <2>1, <2>2 DEF TypeOK
  <2>4. /\ Busy' = Busy /\ Recorded' = Recorded
    BY <2>1 DEF Busy, Recorded
  <2>5. Circulating' \subseteq Circulating
    BY <2>1, <2>2, <2>4 DEF Circulating
  <2>6. JobsInHand'
    BY <1>0, <2>1, <2>4 DEF JobsInHand
  <2>7. QED
    BY <1>0, <2>1, <2>3, <2>4, <2>5, <2>6, NothingNew, NothingReleased
       DEF IngestInv, broker
\* The workers.
<1>7. ASSUME NEW w \in Workers, Take(w) PROVE IngestInv'
  <2> DEFINE d == Head(queue)
  <2>1. /\ UNCHANGED <<published, pending, inflight, sent, resend, connected,
                       run, inbox, topic, dlq, dropped, losses, stops>>
        /\ pc[w] = "idle" /\ queue # <<>> /\ queue' = Tail(queue)
        /\ job' = [job EXCEPT ![w] = d]
        /\ pc' = [pc EXCEPT ![w] = FirstCall(d.msg)]
    BY <1>7 DEF Take, Goto, broker, link, kafka, history
  <2>2. /\ d \in Deliveries /\ d = queue[1] /\ 1 \in 1..Len(queue)
        /\ queue' \in Seq(Deliveries) /\ Len(queue') <= QueueCapacity
        /\ \A n \in 1..Len(queue') :
             n + 1 \in 1..Len(queue) /\ queue'[n] = queue[n + 1]
    BY <1>0, <2>1 DEF TypeOK
  <2>3. FirstCall(d.msg) \in {"publish", "dead_letter"}
    BY DEF FirstCall
  <2>4. TypeOK'
    BY <1>0, <2>1, <2>2, <2>3 DEF TypeOK
  <2>5. \A v \in Workers \ {w} : pc'[v] = pc[v] /\ job'[v] = job[v]
    BY <1>0, <2>1 DEF TypeOK
  <2>6. pc'[w] = FirstCall(d.msg) /\ job'[w] = d
    BY <1>0, <2>1 DEF TypeOK
  <2>7. JobsInHand'
    BY <1>0, <2>1, <2>2, <2>3, <2>5, <2>6
       DEF JobsInHand, Busy, Recorded, FirstCall
  <2>8. Circulating' \subseteq Circulating
    BY <2>1, <2>2, <2>5, <2>6 DEF Circulating, Busy
  <2>9. QED
    BY <1>0, <2>1, <2>4, <2>7, <2>8, NothingNew, NothingReleased
       DEF IngestInv, broker, Recorded
<1>8. ASSUME NEW w \in Workers, w \in Busy,
             UNCHANGED <<published, pending, inflight, sent, resend, connected,
                         run, inbox, queue, losses, stops>>,
             topic \subseteq topic', topic' \subseteq Messages \ Invalid,
             dlq \subseteq dlq', dlq' \subseteq Messages,
             dropped' \subseteq Messages,
             \/ /\ UNCHANGED job
                /\ \/ pc' = [pc EXCEPT ![w] = "dead_letter"]
                   \/ pc' = [pc EXCEPT ![w] = "ack"] /\ job[w].msg \in Recorded'
             \/ /\ pc' = [pc EXCEPT ![w] = "idle"]
                /\ job' = [job EXCEPT ![w] = NoJob]
      PROVE  IngestInv'
  <2>1. TypeOK'
    BY <1>0, <1>8 DEF TypeOK
  <2>2. Recorded \subseteq Recorded'
    BY <1>8 DEF Recorded
  <2>3. \A v \in Workers \ {w} : pc'[v] = pc[v] /\ job'[v] = job[v]
    BY <1>0, <1>8 DEF TypeOK
  <2>4. \A v \in Busy' : v \in Busy /\ job'[v] = job[v]
    BY <1>0, <1>8, <2>3 DEF TypeOK, Busy
  <2>5. JobsInHand'
    BY <1>0, <1>8, <2>2, <2>3, <2>4 DEF TypeOK, JobsInHand, Busy
  <2>6. QED
    BY <1>0, <1>8, <2>1, <2>2, <2>4, <2>5, StillCirculating, NothingNew,
       NothingReleased DEF IngestInv, broker
<1>9. ASSUME NEW w \in Workers,
             PublishTopic(w) \/ PublishTopicFails(w) \/ DeadLetter(w)
               \/ DeadLetterFails(w)
      PROVE  IngestInv'
  <2>1. /\ w \in Busy /\ job[w].msg \in Messages
        /\ pc[w] = "publish" => job[w].msg \notin Invalid
    BY <1>0, <1>9 DEF PublishTopic, PublishTopicFails, DeadLetter,
                      DeadLetterFails, Busy, JobsInHand, Deliveries
  <2>2. UNCHANGED <<published, pending, inflight, sent, resend, connected, run,
                    inbox, queue, losses, stops>>
    BY <1>9 DEF PublishTopic, PublishTopicFails, DeadLetter, DeadLetterFails,
                broker, link, history
  <2>3. CASE PublishTopic(w)
    BY <1>0, <1>8, <2>1, <2>2, <2>3
       DEF PublishTopic, Goto, history, TypeOK, Recorded
  <2>4. CASE PublishTopicFails(w)
    BY <1>0, <1>8, <2>1, <2>2, <2>4
       DEF PublishTopicFails, OnTopicError, Goto, history, TypeOK
  <2>5. CASE DeadLetter(w)
    BY <1>0, <1>8, <2>1, <2>2, <2>5
       DEF DeadLetter, Goto, history, TypeOK, Recorded
  <2>6. CASE DeadLetterFails(w)
    BY <1>0, <1>8, <2>1, <2>2, <2>6
       DEF DeadLetterFails, Finish, Goto, TypeOK
  <2>7. QED
    BY <1>9, <2>3, <2>4, <2>5, <2>6
<1>10. ASSUME NEW w \in Workers, Ack(w) PROVE IngestInv'
  <2>1. /\ UNCHANGED <<published, pending, sent, connected, run, inbox, queue,
                       topic, dlq, dropped, losses, stops>>
        /\ pc[w] = "ack" /\ pc' = [pc EXCEPT ![w] = "idle"]
        /\ job' = [job EXCEPT ![w] = NoJob]
        /\ inflight' \subseteq inflight /\ resend' \subseteq inflight'
        /\ \A d \in inflight \ inflight' : d.mid = job[w].mid
    BY <1>10 DEF Ack, Finish, Goto, kafka, history
  <2>2. /\ w \in Busy /\ job[w] \in Circulating /\ job[w].msg \in Recorded
        /\ Recorded' = Recorded
    BY <1>0, <2>1 DEF Busy, Circulating, JobsInHand, Recorded
  <2>3. TypeOK'
    BY <1>0, <2>1 DEF TypeOK
  <2>4. \A v \in Busy' : /\ v \in Busy /\ v # w
                         /\ pc'[v] = pc[v] /\ job'[v] = job[v]
    BY <1>0, <2>1 DEF TypeOK, Busy
  <2>5. JobsInHand'
    BY <1>0, <2>2, <2>4 DEF JobsInHand
  <2>6. Circulating' \subseteq Circulating
    BY <2>1, <2>4 DEF Circulating
  <2>7. AckedIsRecorded'
    <3>1. SUFFICES ASSUME sent <= IdSpace, NEW m \in published, Settled(m)'
                   PROVE  m \in Recorded
      BY <2>1, <2>2 DEF AckedIsRecorded
    <3>2. CASE \A d \in inflight : d.msg # m
      BY <1>0, <2>1, <3>1, <3>2 DEF AckedIsRecorded, Settled
    <3>3. ASSUME NEW d \in inflight, d.msg = m PROVE m \in Recorded
      <4>1. d.mid = job[w].mid /\ d \in Circulating
        BY <2>1, <3>1, <3>3 DEF Settled, Circulating
      <4>2. QED
        BY <1>0, <2>2, <3>1, <3>3, <4>1 DEF MidsAgree
    <3>4. QED
      BY <3>2, <3>3
  <2>8. QED
    BY <1>0, <2>1, <2>3, <2>5, <2>6, <2>7, NothingNew DEF IngestInv
<1>11. ASSUME NEW w \in Workers, Exit(w) PROVE IngestInv'
  <2>1. /\ UNCHANGED <<published, pending, inflight, sent, resend, connected,
                       run, inbox, queue, job, topic, dlq, dropped, losses,
                       stops>>
        /\ pc' = [pc EXCEPT ![w] = "exited"]
    BY <1>11 DEF Exit, Goto, broker, link, kafka, history
  <2>2. TypeOK'
    BY <1>0, <2>1 DEF TypeOK
  <2>3. \A v \in Busy' : v \in Busy /\ pc'[v] = pc[v] /\ job'[v] = job[v]
    BY <1>0, <2>1 DEF TypeOK, Busy
  <2>4. JobsInHand' /\ Recorded' = Recorded
    BY <1>0, <2>1, <2>3 DEF JobsInHand, Recorded
  <2>5. QED
    BY <1>0, <2>1, <2>2, <2>3, <2>4, StillCirculating, NothingNew,
       NothingReleased DEF IngestInv, broker
<1>12. CASE UNCHANGED vars
  BY <1>0, <1>12 DEF vars, IngestInv, TypeOK, JobsInHand, MidsFresh, MidsAgree,
                     AckedIsRecorded, Settled, Recorded, Busy, Circulating
<1>13. QED
  BY <1>1, <1>2, <1>3, <1>4, <1>5, <1>6, <1>7, <1>9, <1>10, <1>11, <1>12
     DEF Next, Network, Work, Main

\* The session, the queue and the workers keep their types: the queue never
\* exceeds its capacity and nothing invalid reaches a telemetry topic.
THEOREM IngestTypeCorrect == Spec => []TypeOK
<1>1. IngestInv => TypeOK
  BY DEF IngestInv
<1>2. QED
  BY IngestInit, IngestNext, <1>1, PTL DEF Spec

\* Until packet ids wrap, a message the broker has let go is in Kafka, whatever
\* connections, crashes, shutdowns, failing topics and duplicates do.
THEOREM AckedRecorded == Spec => []AckedIsRecorded
<1>1. IngestInv => AckedIsRecorded
  BY DEF IngestInv
<1>2. QED
  BY IngestInit, IngestNext, <1>1, PTL DEF Spec
=============================================================================
