--------------------------- MODULE AlertFeedProofs ---------------------------
(***************************************************************************)
(* The live feed shows a connection only events of its own organization,   *)
(* and repeats one only after a failed commit, for any number of           *)
(* connections, organizations, events and faults.                          *)
(*                                                                         *)
(* The argument follows one event from the consumer to the browser.  An    *)
(* event whose commit did not fail stays at or below the offset the group  *)
(* would resume from, so it is polled once, scheduled once, and each of    *)
(* its targets leaves the broadcast's list when it is served.              *)
(***************************************************************************)
EXTENDS AlertFeed, TLAPS

Task == [event : Nat, targets : SUBSET Conns]

FeedType ==
  /\ topic \in Seq(Orgs \cup {Malformed})
  /\ position \in Nat /\ committed \in Nat /\ hand \in Nat
  /\ fan \in {"poll", "commit", "broadcast"}
  /\ clients \subseteq Conns
  /\ tasks \in Seq(Task) /\ started \in 0..Len(tasks)
  /\ received \in [Conns -> Seq(Nat)]

\* No commit of event e failed.
Fresh(e) == e \notin uncommitted

\* Where the fan-out thread stands: the message in hand is the last one polled,
\* and its offset is committed only between Commit and Broadcast.
PlaceInv ==
  /\ committed <= position /\ position <= Len(topic)
  /\ fan # "poll" => hand = position /\ hand > 0
  /\ fan = "commit" => committed < hand
  /\ fan = "broadcast" /\ Fresh(hand) => committed = hand

\* The consumer is past event e for good: neither going on nor joining again
\* brings it back, and it is not the message in hand.
Settled(e) ==
  Fresh(e) => /\ e <= position
              /\ committed # None => e <= committed
              /\ fan # "poll" => e < hand

\* A scheduled event is one of the topic, goes to its own organization, and
\* waits in one broadcast only.
TaskOk(n) ==
  /\ tasks[n].event \in 1..Len(topic)
  /\ Settled(tasks[n].event)
  /\ \A c \in tasks[n].targets :
       n <= started /\ topic[tasks[n].event] = OrgOfConn[c]
  /\ \A m \in 1..Len(tasks) :
       tasks[m].event = tasks[n].event /\ Fresh(tasks[n].event) => m = n

TaskInv == \A n \in 1..Len(tasks) : TaskOk(n)

\* An event that reached connection c is one of its organization, is there once,
\* and no broadcast still has it for c.
GotOk(c, i) ==
  /\ received[c][i] \in 1..Len(topic)
  /\ topic[received[c][i]] = OrgOfConn[c]
  /\ Settled(received[c][i])
  /\ \A j \in 1..Len(received[c]) :
       received[c][j] = received[c][i] /\ Fresh(received[c][i]) => i = j
  /\ \A n \in 1..Len(tasks) :
       tasks[n].event = received[c][i] /\ Fresh(received[c][i])
         => n <= started /\ c \notin tasks[n].targets

GotInv == \A c \in Conns : \A i \in 1..Len(received[c]) : GotOk(c, i)

FeedInv == FeedType /\ PlaceInv /\ TaskInv /\ GotInv

LEMMA FeedInit == Init => FeedInv
<1> SUFFICES ASSUME Init PROVE FeedInv
  OBVIOUS
<1>1. FeedType
  BY DEF Init, FeedType, None
<1>2. PlaceInv
  BY DEF Init, PlaceInv, None
<1>3. TaskInv /\ GotInv
  BY DEF Init, TaskInv, GotInv
<1>4. QED
  BY <1>1, <1>2, <1>3 DEF FeedInv

-----------------------------------------------------------------------------
(* Steps of the fan-out thread leave the broadcasts and the browsers alone. *)

LEMMA ThreadStep ==
  ASSUME FeedInv, UNCHANGED <<tasks, started, received>>,
         Len(topic) <= Len(topic)', Len(topic)' \in Nat,
         \A e \in 1..Len(topic) : topic'[e] = topic[e],
         uncommitted \subseteq uncommitted',
         \A e \in 1..Len(topic) : Settled(e) => Settled(e)'
  PROVE  TaskInv' /\ GotInv'
<1>0. FeedType /\ TaskInv /\ GotInv /\ Len(topic) \in Nat
  BY DEF FeedInv, FeedType
<1>1. ASSUME NEW n \in 1..Len(tasks) PROVE TaskOk(n)'
  <2>1. TaskOk(n)
    BY <1>0 DEF TaskInv
  <2>2. PICK e \in 1..Len(topic) : e = tasks[n].event
    BY <2>1 DEF TaskOk
  <2>3. Settled(e)'
    BY <2>1, <2>2 DEF TaskOk
  <2>4. tasks'[n].event = e /\ topic'[e] = topic[e] /\ e \in 1..Len(topic)'
    BY <1>0, <2>2
  <2>5. QED
    BY <2>1, <2>2, <2>3, <2>4 DEF TaskOk, Fresh, Settled
<1>2. ASSUME NEW c \in Conns, NEW i \in 1..Len(received[c]) PROVE GotOk(c, i)'
  <2>1. GotOk(c, i)
    BY <1>0 DEF GotInv
  <2>2. PICK e \in 1..Len(topic) : e = received[c][i]
    BY <2>1 DEF GotOk
  <2>3. Settled(e)'
    BY <2>1, <2>2 DEF GotOk
  <2>4. received'[c][i] = e /\ topic'[e] = topic[e] /\ e \in 1..Len(topic)'
    BY <1>0, <2>2
  <2>5. QED
    BY <2>1, <2>2, <2>3, <2>4 DEF GotOk, Fresh, Settled
<1>3. QED
  BY <1>1, <1>2 DEF TaskInv, GotInv

\* Connections coming and going change nothing the invariant speaks of.
LEMMA SocketStep ==
  ASSUME FeedInv, UNCHANGED <<topic, position, committed, fan, hand, tasks,
                              started, received, uncommitted>>,
         clients' \subseteq Conns
  PROVE  FeedInv'
<1>1. FeedType' /\ PlaceInv'
  BY DEF FeedInv, FeedType, PlaceInv, Fresh
<1>2. \A e \in 1..Len(topic) : Settled(e) => Settled(e)'
  BY DEF Settled, Fresh
<1>3. Len(topic) \in Nat
  BY DEF FeedInv, FeedType
<1>4. TaskInv' /\ GotInv'
  BY <1>2, <1>3, ThreadStep
<1>5. QED
  BY <1>1, <1>4 DEF FeedInv

LEMMA PublishStep ==
  ASSUME FeedInv, NEW org \in Orgs \cup {Malformed}, Publish(org)
  PROVE  FeedInv'
<1>1. /\ topic' = Append(topic, org) /\ topic \in Seq(Orgs \cup {Malformed})
      /\ UNCHANGED <<position, committed, fan, hand, clients, tasks, started,
                     received, uncommitted>>
  BY DEF Publish, group, thread, loop, FeedInv, FeedType
<1>2. /\ Len(topic') = Len(topic) + 1 /\ Len(topic) \in Nat
      /\ \A e \in 1..Len(topic) : topic'[e] = topic[e]
      /\ topic' \in Seq(Orgs \cup {Malformed})
  BY <1>1
<1>3. FeedType'
  BY <1>1, <1>2 DEF FeedInv, FeedType
<1>4. PlaceInv'
  BY <1>1, <1>2 DEF FeedInv, FeedType, PlaceInv, Fresh
<1>5. \A e \in 1..Len(topic) : Settled(e) => Settled(e)'
  BY <1>1 DEF Settled, Fresh
<1>6. TaskInv' /\ GotInv'
  BY <1>1, <1>2, <1>5, ThreadStep
<1>7. QED
  BY <1>3, <1>4, <1>6 DEF FeedInv

LEMMA PollStep ==
  ASSUME FeedInv, Poll
  PROVE  FeedInv'
<1>1. /\ fan = "poll" /\ position < Len(topic) /\ position' = position + 1
      /\ hand' = position + 1 /\ fan' = "commit"
      /\ UNCHANGED <<topic, committed, clients, tasks, started, received,
                     uncommitted>>
  BY DEF Poll, loop, history, end
<1>2. FeedType /\ PlaceInv /\ Len(topic) \in Nat
  BY DEF FeedInv, FeedType
<1>3. FeedType' /\ PlaceInv'
  BY <1>1, <1>2 DEF FeedType, PlaceInv
<1>4. \A e \in 1..Len(topic) : Settled(e) => Settled(e)'
  BY <1>1, <1>2 DEF FeedType, Settled, Fresh
<1>5. TaskInv' /\ GotInv'
  BY <1>1, <1>2, <1>4, ThreadStep
<1>6. QED
  BY <1>3, <1>5 DEF FeedInv

LEMMA CommitStep ==
  ASSUME FeedInv, Commit \/ CommitFails
  PROVE  FeedInv'
<1>1. /\ fan = "commit" /\ fan' = "broadcast"
      /\ UNCHANGED <<topic, position, hand, clients, tasks, started, received>>
      /\ \/ committed' = hand /\ uncommitted' = uncommitted
         \/ committed' \in {committed, hand} /\ uncommitted' = uncommitted \cup {hand}
  BY DEF Commit, CommitFails, CommitPoint, loop, history
<1>2. FeedType /\ PlaceInv /\ Len(topic) \in Nat
  BY DEF FeedInv, FeedType
<1>3. FeedType' /\ PlaceInv'
  BY <1>1, <1>2 DEF FeedType, PlaceInv, Fresh
<1>4. \A e \in 1..Len(topic) : Settled(e) => Settled(e)'
  BY <1>1, <1>2 DEF FeedType, PlaceInv, Settled, Fresh, None
<1>5. TaskInv' /\ GotInv'
  BY <1>1, <1>2, <1>4, ThreadStep
<1>6. QED
  BY <1>3, <1>5 DEF FeedInv

LEMMA RejoinStep ==
  ASSUME FeedInv, Rejoin
  PROVE  FeedInv'
<1>1. /\ fan = "poll"
      /\ position' = IF committed = None THEN Len(topic) ELSE committed
      /\ UNCHANGED <<topic, committed, fan, hand, clients, tasks, started,
                     received, uncommitted>>
  BY DEF Rejoin, thread, loop, end
<1>2. FeedType /\ PlaceInv /\ Len(topic) \in Nat
  BY DEF FeedInv, FeedType
<1>3. FeedType' /\ PlaceInv'
  BY <1>1, <1>2 DEF FeedType, PlaceInv, None
<1>4. \A e \in 1..Len(topic) : Settled(e) => Settled(e)'
  BY <1>1, <1>2 DEF FeedType, PlaceInv, Settled, Fresh, None
<1>5. TaskInv' /\ GotInv'
  BY <1>1, <1>2, <1>4, ThreadStep
<1>6. QED
  BY <1>3, <1>5 DEF FeedInv

-----------------------------------------------------------------------------
(* Scheduling a broadcast, taking its targets, and serving them. *)

LEMMA BroadcastStep ==
  ASSUME FeedInv, Broadcast
  PROVE  FeedInv'
<1> DEFINE t == [event |-> hand, targets |-> {}]
<1>0. /\ FeedType /\ PlaceInv /\ TaskInv /\ GotInv /\ Len(topic) \in Nat
      /\ tasks \in Seq(Task) /\ hand \in Nat /\ Len(tasks) \in Nat
      /\ received \in [Conns -> Seq(Nat)]
  BY DEF FeedInv, FeedType
<1>1. /\ fan = "broadcast" /\ fan' = "poll" /\ hand' = None
      /\ tasks' = tasks \/ tasks' = Append(tasks, t)
      /\ UNCHANGED <<topic, position, committed, clients, started, received,
                     uncommitted>>
  BY DEF Broadcast, group, history
<1>2. \A e \in 1..Len(topic) : Settled(e) => Settled(e)'
  BY <1>1 DEF Settled, Fresh
<1>3. PlaceInv'
  BY <1>0, <1>1 DEF PlaceInv
<1>4. CASE tasks' = tasks
  <2>1. FeedType'
    BY <1>0, <1>1, <1>4 DEF FeedType, None
  <2>2. TaskInv' /\ GotInv'
    BY <1>0, <1>1, <1>2, <1>4, ThreadStep
  <2>3. QED
    BY <1>3, <2>1, <2>2 DEF FeedInv
<1>5. CASE tasks' = Append(tasks, t)
  <2>k. PICK k \in Nat : k = Len(tasks) + 1
    BY <1>0
  <2>m. \A m \in 1..k : m \in 1..Len(tasks) \/ m = k
    BY <1>0, <2>k
  <2>h. PICK h \in Nat : h = hand
    BY <1>0
  <2>1. /\ t \in Task /\ tasks' \in Seq(Task) /\ Len(tasks') = k
        /\ tasks'[k] = t /\ \A n \in 1..Len(tasks) : tasks'[n] = tasks[n]
        /\ t.event = h /\ t.targets = {}
    BY <1>0, <1>5, <2>k, <2>h DEF Task
  <2> HIDE DEF t
  <2>2. FeedType'
    BY <1>0, <1>1, <2>1 DEF FeedType, None
  <2>3. h \in 1..Len(topic) /\ Settled(h)'
    BY <1>0, <1>1, <2>h DEF PlaceInv, FeedType, Settled, Fresh
  <2>4. ASSUME NEW n \in 1..Len(tasks)
        PROVE  /\ TaskOk(n) /\ tasks'[n] = tasks[n]
               /\ tasks[n].event = h => ~Fresh(h)
    <3>1. TaskOk(n)
      BY <1>0 DEF TaskInv
    <3>2. QED
      BY <1>0, <1>1, <2>1, <2>h, <3>1 DEF TaskOk, Settled
  <2>5. ASSUME NEW n \in 1..Len(tasks) PROVE TaskOk(n)'
    <3>1. PICK e \in 1..Len(topic) : e = tasks[n].event
      BY <2>4 DEF TaskOk
    <3>2. Settled(e)' /\ tasks'[n].event = e
      BY <1>2, <2>4, <3>1 DEF TaskOk
    <3>3. ASSUME NEW m \in 1..k, tasks'[m].event = e, Fresh(e) PROVE m = n
      BY <2>1, <2>m, <2>4, <3>1, <3>3 DEF TaskOk
    <3>4. QED
      BY <1>1, <2>1, <2>k, <2>4, <3>1, <3>2, <3>3 DEF TaskOk, Fresh, Settled
  <2>6. TaskOk(k)'
    BY <1>0, <1>1, <2>1, <2>k, <2>3, <2>4 DEF TaskOk, Fresh, Settled
  <2>7. TaskInv'
    BY <1>0, <2>1, <2>k, <2>5, <2>6 DEF TaskInv
  <2>8. ASSUME NEW c \in Conns, NEW i \in 1..Len(received[c])
        PROVE  GotOk(c, i)'
    <3>1. GotOk(c, i)
      BY <1>0 DEF GotInv
    <3>2. PICK e \in 1..Len(topic) : e = received[c][i] /\ e = received'[c][i]
      BY <1>1, <3>1 DEF GotOk
    <3>3. Settled(e)' /\ (e = h => ~Fresh(e))
      BY <1>0, <1>1, <2>h, <1>2, <3>1, <3>2 DEF GotOk, Settled
    <3>4. ASSUME NEW n \in 1..k, tasks'[n].event = e, Fresh(e)
          PROVE  n <= started /\ c \notin tasks'[n].targets
      BY <1>0, <2>1, <2>k, <3>1, <3>2, <3>3, <3>4 DEF GotOk
    <3>5. QED
      BY <1>1, <2>1, <3>1, <3>2, <3>3, <3>4 DEF GotOk, Fresh, Settled
  <2>9. QED
    BY <1>1, <1>3, <2>2, <2>7, <2>8 DEF FeedInv, GotInv
<1>6. QED
  BY <1>1, <1>4, <1>5

\* A change of one broadcast's targets.
Retargeted(k, T) == tasks' = [tasks EXCEPT ![k].targets = T]

LEMMA Retarget ==
  ASSUME FeedInv, NEW k \in 1..Len(tasks), NEW T \in SUBSET Conns,
         Retargeted(k, T)
  PROVE  /\ tasks' \in Seq(Task) /\ Len(tasks') = Len(tasks)
         /\ \A n \in 1..Len(tasks) :
              /\ tasks'[n].event = tasks[n].event
              /\ tasks'[n].targets = IF n = k THEN T ELSE tasks[n].targets
<1>1. /\ tasks \in Seq(Task) /\ Len(tasks) \in Nat
      /\ DOMAIN tasks = 1..Len(tasks)
      /\ \A n \in 1..Len(tasks) : tasks[n] \in Task
  BY DEF FeedInv, FeedType
<1> DEFINE t == [tasks[k] EXCEPT !.targets = T]
<1>3. t \in Task /\ t.event = tasks[k].event /\ t.targets = T
  BY <1>1 DEF Task
<1>4. tasks' = [tasks EXCEPT ![k] = t]
  BY DEF Retargeted
<1> HIDE DEF t
<1>5. tasks' \in Seq(Task) /\ Len(tasks') = Len(tasks)
  BY <1>1, <1>3, <1>4
<1>6. \A n \in 1..Len(tasks) : tasks'[n] = IF n = k THEN t ELSE tasks[n]
  BY <1>1, <1>4
<1>7. QED
  BY <1>3, <1>5, <1>6

LEMMA StartStep ==
  ASSUME FeedInv, Start
  PROVE  FeedInv'
<1>0. /\ FeedType /\ PlaceInv /\ TaskInv /\ GotInv /\ Len(topic) \in Nat
      /\ started \in Nat /\ Len(tasks) \in Nat
  BY DEF FeedInv, FeedType
<1>k. PICK k \in 1..Len(tasks) : k = started + 1
  BY <1>0 DEF Start
<1>1. /\ started' = k /\ Retargeted(k, Targets(tasks[k].event))
      /\ UNCHANGED <<topic, position, committed, fan, hand, clients, received,
                     uncommitted>>
  BY <1>k DEF Start, Retargeted, group, thread, history
<1>2. PICK T \in SUBSET Conns :
        /\ Retargeted(k, T)
        /\ \A c \in T : topic[tasks[k].event] = OrgOfConn[c]
  <2> DEFINE T == Targets(tasks[k].event)
  <2>1. T \in SUBSET Conns /\ \A c \in T : topic[tasks[k].event] = OrgOfConn[c]
    BY <1>0 DEF Targets, FeedType
  <2>2. QED
    BY <1>1, <2>1
<1>3. /\ tasks' \in Seq(Task) /\ Len(tasks') = Len(tasks)
      /\ \A n \in 1..Len(tasks) :
           /\ tasks'[n].event = tasks[n].event
           /\ tasks'[n].targets = IF n = k THEN T ELSE tasks[n].targets
  BY <1>2, Retarget
<1>4. FeedType'
  BY <1>0, <1>1, <1>k, <1>3 DEF FeedType
<1>5. PlaceInv'
  BY <1>0, <1>1 DEF PlaceInv, Fresh
<1>6. ASSUME NEW n \in 1..Len(tasks) PROVE TaskOk(n)'
  <2>1. TaskOk(n)
    BY <1>0 DEF TaskInv
  <2>2. QED
    BY <1>0, <1>1, <1>k, <1>2, <1>3, <2>1 DEF TaskOk, Fresh, Settled
<1>7. ASSUME NEW c \in Conns, NEW i \in 1..Len(received[c]) PROVE GotOk(c, i)'
  <2>1. GotOk(c, i)
    BY <1>0 DEF GotInv
  <2>2. tasks[k].event = received[c][i] => ~Fresh(received[c][i])
    BY <1>0, <1>k, <2>1 DEF GotOk
  <2>3. QED
    BY <1>0, <1>1, <1>k, <1>3, <2>1, <2>2 DEF GotOk, Fresh, Settled
<1>8. QED
  BY <1>1, <1>3, <1>4, <1>5, <1>6, <1>7 DEF FeedInv, TaskInv, GotInv

\* One target is served or given up, and leaves the broadcast.
LEMMA CoroutineStep ==
  ASSUME FeedInv, NEW k \in 1..started, NEW c \in tasks[k].targets,
         Send(k, c) \/ SendRaises(k, c)
  PROVE  FeedInv'
<1>0. /\ FeedType /\ PlaceInv /\ TaskInv /\ GotInv /\ Len(topic) \in Nat
      /\ started \in Nat /\ Len(tasks) \in Nat
      /\ received \in [Conns -> Seq(Nat)]
  BY DEF FeedInv, FeedType
<1>1. /\ k \in 1..Len(tasks) /\ c \in Conns
      /\ tasks[k].targets \in SUBSET Conns
  <2>1. k \in 1..Len(tasks)
    BY <1>0 DEF FeedType
  <2>2. tasks[k] \in Task
    BY <1>0, <2>1 DEF FeedType
  <2>3. QED
    BY <2>1, <2>2 DEF Task
<1>2. PICK e \in 1..Len(topic) : e = tasks[k].event
  BY <1>0, <1>1 DEF TaskInv, TaskOk
<1>3. /\ topic[e] = OrgOfConn[c] /\ Settled(e)
      /\ \A n \in 1..Len(tasks) : tasks[n].event = e /\ Fresh(e) => n = k
  BY <1>0, <1>1, <1>2 DEF TaskInv, TaskOk
<1>4. /\ UNCHANGED <<topic, position, committed, fan, hand, started, uncommitted>>
      /\ clients' \subseteq clients
      /\ Retargeted(k, tasks[k].targets \ {c})
      /\ \/ received' = received
         \/ received' = [received EXCEPT ![c] = Append(received[c], e)]
  BY <1>2 DEF Send, SendRaises, AfterFailure, Retargeted, group, thread, history
<1>5. /\ tasks' \in Seq(Task) /\ Len(tasks') = Len(tasks)
      /\ \A n \in 1..Len(tasks) :
           /\ tasks'[n].event = tasks[n].event
           /\ tasks'[n].targets = IF n = k THEN tasks[k].targets \ {c}
                                  ELSE tasks[n].targets
  <2>1. tasks[k].targets \ {c} \in SUBSET Conns
    BY <1>1
  <2>2. QED
    BY <1>1, <1>4, <2>1, Retarget
<1>6. \A n \in 1..Len(tasks) : tasks'[n].targets \subseteq tasks[n].targets
  BY <1>5
<1>7. PlaceInv'
  BY <1>0, <1>4 DEF PlaceInv, Fresh
<1>8. ASSUME NEW n \in 1..Len(tasks) PROVE TaskOk(n)'
  <2>1. TaskOk(n)
    BY <1>0 DEF TaskInv
  <2>2. QED
    BY <1>0, <1>4, <1>5, <1>6, <2>1 DEF TaskOk, Fresh, Settled
<1>9. TaskInv'
  BY <1>5, <1>8 DEF TaskInv
<1>10. ASSUME NEW d \in Conns, NEW i \in 1..Len(received[d])
       PROVE  \E f \in 1..Len(topic) :
                /\ f = received[d][i] /\ topic[f] = OrgOfConn[d] /\ Settled(f)'
                /\ \A j \in 1..Len(received[d]) :
                     received[d][j] = f /\ Fresh(f) => i = j
                /\ \A n \in 1..Len(tasks) : tasks[n].event = f /\ Fresh(f)
                     => n <= started /\ d \notin tasks'[n].targets
                /\ f = e /\ Fresh(f) => d # c
  <2>1. GotOk(d, i)
    BY <1>0 DEF GotInv
  <2>2. PICK f \in 1..Len(topic) : f = received[d][i]
    BY <2>1 DEF GotOk
  <2>3. topic[f] = OrgOfConn[d] /\ Settled(f)
    BY <2>1, <2>2 DEF GotOk
  <2>4. Settled(f)'
    BY <1>4, <2>3 DEF Settled, Fresh
  <2>5. /\ \A j \in 1..Len(received[d]) :
             received[d][j] = f /\ Fresh(f) => i = j
        /\ \A n \in 1..Len(tasks) : tasks[n].event = f /\ Fresh(f)
             => n <= started /\ d \notin tasks[n].targets
    BY <2>1, <2>2 DEF GotOk
  <2>6. f = e /\ Fresh(f) => d # c
    BY <1>1, <1>2, <2>5
  <2>7. QED
    BY <1>6, <2>2, <2>3, <2>4, <2>5, <2>6
<1>11. CASE received' = received
  <2>1. ASSUME NEW d \in Conns, NEW i \in 1..Len(received[d])
        PROVE  GotOk(d, i)'
    <3>1. PICK f \in 1..Len(topic) :
            /\ f = received[d][i] /\ topic[f] = OrgOfConn[d] /\ Settled(f)'
            /\ \A j \in 1..Len(received[d]) :
                 received[d][j] = f /\ Fresh(f) => i = j
            /\ \A n \in 1..Len(tasks) : tasks[n].event = f /\ Fresh(f)
                 => n <= started /\ d \notin tasks'[n].targets
            /\ f = e /\ Fresh(f) => d # c
      BY <1>10
    <3>2. received'[d][i] = f
      BY <1>11, <3>1
    <3>3. QED
      BY <1>4, <1>5, <1>11, <3>1, <3>2 DEF GotOk, Fresh, Settled
  <2>2. FeedType'
    BY <1>0, <1>4, <1>5, <1>11 DEF FeedType
  <2>3. QED
    BY <1>7, <1>9, <1>11, <2>1, <2>2 DEF FeedInv, GotInv
<1>12. CASE received' = [received EXCEPT ![c] = Append(received[c], e)]
  <2>k. PICK k2 \in Nat : k2 = Len(received[c]) + 1
    BY <1>0, <1>1
  <2>m. \A m \in 1..k2 : m \in 1..Len(received[c]) \/ m = k2
    BY <1>0, <1>1, <2>k
  <2>1. /\ received' \in [Conns -> Seq(Nat)] /\ Len(received[c]) \in Nat
        /\ Len(received'[c]) = k2 /\ received'[c][k2] = e
        /\ \A i \in 1..Len(received[c]) : received'[c][i] = received[c][i]
        /\ \A d \in Conns \ {c} : received'[d] = received[d]
    BY <1>0, <1>1, <1>12, <2>k
  <2>2. FeedType'
    BY <1>0, <1>4, <1>5, <2>1 DEF FeedType
  <2>3. Settled(e)'
    BY <1>3, <1>4 DEF Settled, Fresh
  <2>4. ASSUME NEW d \in Conns, NEW i \in 1..Len(received[d])
        PROVE  GotOk(d, i)'
    <3>1. PICK f \in 1..Len(topic) :
            /\ f = received[d][i] /\ topic[f] = OrgOfConn[d] /\ Settled(f)'
            /\ \A j \in 1..Len(received[d]) :
                 received[d][j] = f /\ Fresh(f) => i = j
            /\ \A n \in 1..Len(tasks) : tasks[n].event = f /\ Fresh(f)
                 => n <= started /\ d \notin tasks'[n].targets
            /\ f = e /\ Fresh(f) => d # c
      BY <1>10
    <3>2. received'[d][i] = f
      BY <2>1, <3>1
    <3>3. ASSUME NEW j \in 1..Len(received'[d]), received'[d][j] = f, Fresh(f)
          PROVE  i = j
      BY <2>1, <2>m, <3>1, <3>3
    <3>4. QED
      BY <1>4, <1>5, <3>1, <3>2, <3>3 DEF GotOk, Fresh, Settled
  <2>5. GotOk(c, k2)'
    <3>1. ASSUME NEW j \in 1..Len(received[c]), Fresh(e)
          PROVE  received[c][j] # e
      BY <1>1, <1>10, <3>1
    <3>2. ASSUME NEW j \in 1..k2, received'[c][j] = e, Fresh(e) PROVE j = k2
      BY <2>1, <2>m, <3>1, <3>2
    <3>3. ASSUME NEW n \in 1..Len(tasks), tasks[n].event = e, Fresh(e)
          PROVE  n <= started /\ c \notin tasks'[n].targets
      BY <1>0, <1>3, <1>5, <3>3
    <3>4. QED
      BY <1>3, <1>4, <1>5, <2>1, <2>k, <2>3, <3>2, <3>3 DEF GotOk, Fresh, Settled
  <2>6. ASSUME NEW d \in Conns, NEW i \in 1..Len(received'[d])
        PROVE  GotOk(d, i)'
    <3>1. i \in 1..Len(received[d]) \/ (d = c /\ i = k2)
      BY <2>1, <2>k
    <3>2. QED
      BY <2>4, <2>5, <3>1 DEF GotOk
  <2>7. QED
    BY <1>7, <1>9, <2>2, <2>6 DEF FeedInv, GotInv
<1>13. QED
  BY <1>4, <1>11, <1>12

\* A new process has no broadcasts, and starts behind every event seen before.
LEMMA RestartStep ==
  ASSUME FeedInv, Restart
  PROVE  FeedInv'
<1>0. /\ FeedType /\ PlaceInv /\ GotInv /\ Len(topic) \in Nat
      /\ received \in [Conns -> Seq(Nat)]
  BY DEF FeedInv, FeedType
<1>1. /\ position' = Len(topic) /\ committed' = None
      /\ fan' = "poll" /\ hand' = None /\ clients' = {} /\ tasks' = <<>>
      /\ started' = 0 /\ UNCHANGED <<topic, received, uncommitted>>
  BY DEF Restart, end
<1>2. FeedType' /\ PlaceInv' /\ TaskInv'
  BY <1>0, <1>1 DEF FeedType, PlaceInv, TaskInv, None
<1>3. ASSUME NEW c \in Conns, NEW i \in 1..Len(received[c]) PROVE GotOk(c, i)'
  <2>1. GotOk(c, i)
    BY <1>0 DEF GotInv
  <2>2. QED
    BY <1>0, <1>1, <2>1 DEF GotOk, Settled, Fresh
<1>4. QED
  BY <1>1, <1>2, <1>3 DEF FeedInv, GotInv

LEMMA FeedNext == FeedInv /\ [Next]_vars => FeedInv'
<1> SUFFICES ASSUME FeedInv, [Next]_vars PROVE FeedInv'
  OBVIOUS
<1>1. CASE \E org \in Orgs \cup {Malformed} : Publish(org)
  BY <1>1, PublishStep
<1>2. CASE FanOut \/ Rejoin \/ Restart \/ Start
  BY <1>2, PollStep, CommitStep, BroadcastStep, RejoinStep, RestartStep,
     StartStep DEF FanOut
<1>3. CASE \E n \in 1..started : Coroutine(n)
  BY <1>3, CoroutineStep DEF Coroutine
<1>4. ASSUME NEW c \in Conns,
             Accept(c) \/ Register(c) \/ Disconnect(c) \/ Unregister(c)
      PROVE  FeedInv'
  <2>1. /\ UNCHANGED <<topic, position, committed, fan, hand, tasks, started,
                       received, uncommitted>>
        /\ clients' \subseteq clients \cup {c}
    BY <1>4 DEF Accept, Register, Disconnect, Unregister, group, thread, loop,
                history
  <2>2. clients \subseteq Conns
    BY DEF FeedInv, FeedType
  <2>3. QED
    BY <2>1, <2>2, SocketStep
<1>5. CASE UNCHANGED vars
  <2>1. /\ UNCHANGED <<topic, position, committed, fan, hand, tasks, started,
                       received, uncommitted>>
        /\ clients' \subseteq Conns
    BY <1>5 DEF vars, group, thread, loop, history, FeedInv, FeedType
  <2>2. QED
    BY <2>1, SocketStep
<1>6. QED
  BY <1>1, <1>2, <1>3, <1>4, <1>5 DEF Next

\* ws_alerts.py:57-71, 104-129.  Whatever the interleaving of the fan-out
\* thread, the broadcasts and the browsers, and whatever fails, a connection
\* gets events of its own organization only, and none twice unless a commit of
\* that event failed.
THEOREM FeedFaithful == Spec => []FeedIsFaithful
<1>1. FeedInv => FeedIsFaithful
  <2> SUFFICES ASSUME FeedInv, NEW c \in Conns, NEW i \in DOMAIN received[c],
                      NEW j \in DOMAIN received[c]
               PROVE  /\ topic[received[c][i]] = OrgOfConn[c]
                      /\ received[c][i] = received[c][j]
                           => i = j \/ received[c][i] \in uncommitted
    BY DEF FeedIsFaithful
  <2>1. i \in 1..Len(received[c]) /\ j \in 1..Len(received[c])
    BY DEF FeedInv, FeedType
  <2>2. GotOk(c, i)
    BY <2>1 DEF FeedInv, GotInv
  <2>3. QED
    BY <2>1, <2>2 DEF GotOk, Fresh
<1>2. QED
  BY FeedInit, FeedNext, <1>1, PTL DEF Spec
=============================================================================
