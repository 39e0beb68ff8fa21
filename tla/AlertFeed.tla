------------------------------ MODULE AlertFeed ------------------------------
(***************************************************************************)
(* The live alert feed.  A thread of the API consumes the alerts topic in  *)
(* a consumer group of its own and schedules one broadcast coroutine per   *)
(* event on the event loop.  A coroutine takes its targets from the hub    *)
(* under a lock that is never held over an await, then sends to one target *)
(* after the other; sends of several coroutines interleave with each other *)
(* and with clients that come and go.  The hub is a dict and the targets a *)
(* list; no decision depends on their order, so both are sets and a        *)
(* broadcast may serve its targets in any order.                           *)
(*                                                                         *)
(* Event e is the e-th message of the topic.  A connection is used once:   *)
(* the browser's retry opens another.                                      *)
(***************************************************************************)
EXTENDS Naturals, Sequences, Functions

CONSTANTS Conns, Orgs,
          OrgOfConn,   \* the organization in each connection's access token
          Malformed,   \* stands for an event that does not parse
          MaxEvents,   \* bound: events on the topic
          MaxFaults    \* bound: failed commits, rejoins and restarts

Events == 1..MaxEvents
None == 0

ASSUME FeedAssumptions ==
  /\ OrgOfConn \in [Conns -> Orgs]
  /\ Malformed \notin Orgs /\ MaxEvents \in Nat /\ MaxFaults \in Nat

VARIABLES
  topic,      \* the topic: the organization of each event
  position, committed,  \* of the consumer group; None: nothing committed
  fan, hand,  \* the fan-out thread: its next call and its message
  clients,    \* WSHub._clients
  tasks,      \* the broadcasts scheduled: event and remaining targets
  started,    \* how many of them have taken their targets
  route,      \* per connection: where its handler is
  up,         \* connections whose browser is still there
  received,   \* per connection: the events that reached the browser
  owed,       \* history: <<e, c>>, c registered when e was published
  skipped,    \* history: events a rejoin without an offset jumped over
  uncommitted, \* history: events whose commit failed
  faults      \* history: faults so far

group   == <<position, committed>>
thread  == <<fan, hand>>
loop    == <<tasks, started>>
sockets == <<route, up>>
history == <<owed, skipped, uncommitted>>
vars == <<topic, group, thread, clients, loop, sockets, received, history, faults>>

end == Len(topic)
Fault == faults < MaxFaults /\ faults' = faults + 1

Init ==
  /\ topic = <<>> /\ position = 0 /\ committed = None
  /\ fan = "poll" /\ hand = None
  /\ clients = {} /\ tasks = <<>> /\ started = 0
  /\ route = [c \in Conns |-> "new"] /\ up = {}
  /\ received = [c \in Conns |-> <<>>]
  /\ owed = {} /\ skipped = {} /\ uncommitted = {} /\ faults = 0

-----------------------------------------------------------------------------
(* The topic and the fan-out thread. *)

\* The alert service publishes an event.
Publish(org) ==
  /\ end < MaxEvents
  /\ topic' = Append(topic, org)
  /\ owed' = owed \cup
       {<<end + 1, c>> : c \in {d \in clients : OrgOfConn[d] = org}}
  /\ UNCHANGED <<group, thread, clients, loop, sockets, received, skipped,
                 uncommitted, faults>>

\* A poll that raises, or returns nothing or an error, changes nothing.
Poll ==
  /\ fan = "poll" /\ position < end
  /\ position' = position + 1
  /\ hand' = position + 1
  /\ fan' = "commit"
  /\ UNCHANGED <<topic, committed, clients, loop, sockets, received, history,
                 faults>>

CommitPointOneTooLow(e) == IF e = 1 THEN None ELSE e - 1
CommitPoint(e) == e

Commit ==
  /\ fan = "commit"
  /\ committed' = CommitPoint(hand)
  /\ fan' = "broadcast"
  /\ UNCHANGED <<topic, position, hand, clients, loop, sockets, received,
                 history, faults>>

\* The failure is ignored; the offset may have been stored all the same.
CommitFails ==
  /\ fan = "commit"
  /\ Fault
  /\ committed' \in {committed, CommitPoint(hand)}
  /\ uncommitted' = uncommitted \cup {hand}
  /\ fan' = "broadcast"
  /\ UNCHANGED <<topic, position, hand, clients, loop, sockets, received, owed,
                 skipped>>

\* broadcast_threadsafe hands the event to the loop and does not wait.
Broadcast ==
  /\ fan = "broadcast"
  /\ tasks' = IF topic[hand] = Malformed THEN tasks
              ELSE Append(tasks, [event |-> hand, targets |-> {}])
  /\ fan' = "poll" /\ hand' = None
  /\ UNCHANGED <<topic, group, clients, started, sockets, received, history,
                 faults>>

\* The consumer loses its membership and joins again: from the committed
\* offset or, with none, from the latest.
Rejoin ==
  /\ fan = "poll"
  /\ Fault
  /\ IF committed = None
     THEN /\ position' = end
          /\ skipped' = skipped \cup (position + 1)..end
     ELSE position' = committed /\ UNCHANGED skipped
  /\ UNCHANGED <<topic, committed, thread, clients, loop, sockets, received,
                 owed, uncommitted>>

-----------------------------------------------------------------------------
(* The event loop. *)

\* Coroutines start in the order they were scheduled.
TargetsOfAnyOrg(e) == clients
Targets(e) == {c \in clients : OrgOfConn[c] = topic[e]}

Start ==
  /\ started < Len(tasks)
  /\ started' = started + 1
  /\ tasks' = [tasks EXCEPT ![started + 1].targets =
                 Targets(tasks[started + 1].event)]
  /\ UNCHANGED <<topic, group, thread, clients, sockets, received, history,
                 faults>>

\* A frame for a browser that is gone may vanish without an error.
Send(n, c) ==
  /\ received' = IF c \in up
                 THEN [received EXCEPT ![c] = Append(@, tasks[n].event)]
                 ELSE received
  /\ tasks' = [tasks EXCEPT ![n].targets = @ \ {c}]
  /\ UNCHANGED <<topic, group, thread, clients, started, sockets, history, faults>>

AfterFailureNobody(targets, c) == {}
AfterFailure(targets, c) == targets \ {c}

SendRaises(n, c) ==
  /\ c \notin up
  /\ clients' = clients \ {c}
  /\ tasks' = [tasks EXCEPT ![n].targets = AfterFailure(@, c)]
  /\ UNCHANGED <<topic, group, thread, started, sockets, received, history, faults>>

-----------------------------------------------------------------------------
(* The route ws_alerts and the browser behind it. *)

\* A token that does not validate is refused: nothing changes and the browser
\* tries again.
Accept(c) ==
  /\ route[c] = "new"
  /\ route' = [route EXCEPT ![c] = "accepted"]
  /\ up' = up \cup {c}
  /\ UNCHANGED <<topic, group, thread, clients, loop, received, history, faults>>

Register(c) ==
  /\ route[c] = "accepted"
  /\ clients' = clients \cup {c}
  /\ route' = [route EXCEPT ![c] = "receiving"]
  /\ UNCHANGED <<topic, group, thread, loop, up, received, history, faults>>

Disconnect(c) ==
  /\ c \in up
  /\ up' = up \ {c}
  /\ UNCHANGED <<topic, group, thread, clients, loop, route, received, history,
                 faults>>

\* receive() reports the disconnect; a failed send may have been first.
Unregister(c) ==
  /\ route[c] = "receiving" /\ c \notin up
  /\ clients' = clients \ {c}
  /\ route' = [route EXCEPT ![c] = "ended"]
  /\ UNCHANGED <<topic, group, thread, loop, up, received, history, faults>>

\* The API process starts anew, with a group nobody has used.
Restart ==
  /\ Fault
  /\ position' = end /\ committed' = None
  /\ fan' = "poll" /\ hand' = None
  /\ clients' = {} /\ tasks' = <<>> /\ started' = 0
  /\ route' = [c \in Conns |-> IF route[c] = "new" THEN "new" ELSE "ended"]
  /\ up' = {}
  /\ skipped' = skipped \cup (position + 1)..end
  /\ UNCHANGED <<topic, received, owed, uncommitted>>

FanOut == Poll \/ Commit \/ CommitFails \/ Broadcast
Coroutine(n) ==
  /\ n \in 1..started
  /\ \E c \in tasks[n].targets : Send(n, c) \/ SendRaises(n, c)

Next ==
  \/ \E org \in Orgs \cup {Malformed} : Publish(org)
  \/ FanOut \/ Rejoin \/ Restart
  \/ Start \/ \E n \in 1..started : Coroutine(n)
  \/ \E c \in Conns : Accept(c) \/ Register(c) \/ Disconnect(c) \/ Unregister(c)

Spec == Init /\ [][Next]_vars

\* The thread polls for as long as the process runs; the loop resumes every
\* coroutine whose await is over, and pings end the wait for a dead browser.
FairSpec ==
  /\ Spec
  /\ WF_vars(FanOut) /\ WF_vars(Start)
  /\ \A n \in 1..(MaxEvents * (MaxFaults + 1)) : WF_vars(Coroutine(n))
  /\ \A c \in Conns : WF_vars(Unregister(c))

-----------------------------------------------------------------------------
(* Properties. *)

\* ws_alerts.py:3-5, 57-71, 104-129.  Whatever interleaves, a connection gets
\* events of its own organization only, and one of them twice only if its
\* commit failed and the group joined again.
FeedIsFaithful ==
  \A c \in Conns : \A i, j \in DOMAIN received[c] :
    /\ topic[received[c][i]] = OrgOfConn[c]
    /\ received[c][i] = received[c][j] => i = j \/ received[c][i] \in uncommitted

\* ws_alerts.py:57-77.  A viewer connected when an alert is published gets it
\* or is disconnected, although other viewers stall, vanish or fail in the
\* middle of a broadcast; only a rejoin without an offset skips events.
EveryViewerTold ==
  \A e \in Events, c \in Conns :
    (<<e, c>> \in owed)
      ~> (e \in Range(received[c]) \/ c \notin clients \/ e \in skipped)
=============================================================================
