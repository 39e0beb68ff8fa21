------------------------ MODULE StreamProcessorProofs ------------------------
(***************************************************************************)
(* Proofs about StreamProcessor, for every set of events, every bound and  *)
(* every subset of failing dependencies.                                   *)
(***************************************************************************)
EXTENDS StreamProcessor, TLAPS

\* The message in hand is a telemetry event from the claim to the last call
\* that uses its event id.
EventInHand == pc \in PastClaim \cup {"claim"} => msg \in Events

\* The message in hand is not committed.
HandUncommitted == pc # "idle" => committed < position

TypeInv == TypeOK /\ EventInHand /\ HandUncommitted

LEMMA TypeInit == Init => TypeInv
  BY DEF Init, TypeInv, TypeOK, EventInHand, HandUncommitted, Msgs, Steps,
         PastClaim

LEMMA TypeNext == TypeInv /\ [Next]_vars => TypeInv'
<1> SUFFICES ASSUME TypeInv, [Next]_vars PROVE TypeInv'
  OBVIOUS
<1> USE StreamAssumptions DEF TypeInv, TypeOK, EventInHand, HandUncommitted,
        Msgs, Steps, PastClaim, DeadLetter, msg, external, history
<1>1. CASE \E m \in Msgs : Produce(m)
  BY <1>1 DEF Produce
<1>2. CASE \E e \in Events : ExpireClaim(e)
  BY <1>2 DEF ExpireClaim
<1>3. CASE Restart
  BY <1>3 DEF Restart
<1>4. CASE Rebalance
  BY <1>4 DEF Rebalance
<1>5. CASE Poll
  BY <1>5 DEF Poll, Fetchable
<1>6. CASE ClaimFirst \/ ClaimDuplicate
  <2>1. msg \in Events /\ log' = log /\ position' = position
    BY <1>6 DEF ClaimFirst, ClaimDuplicate
  <2>2. claimed' \subseteq Events
    BY <1>6, <2>1 DEF ClaimFirst, ClaimDuplicate
  <2>3. QED
    BY <1>6, <2>1, <2>2 DEF ClaimFirst, ClaimDuplicate
<1>7. CASE ClaimUnavailable
  <2>1. msg \in Events /\ position \in Nat
    BY <1>7 DEF ClaimUnavailable
  <2>2. claimed' \subseteq Events /\ orphaned' \subseteq Events
    BY <1>7, <2>1 DEF ClaimUnavailable
  <2>3. held' \subseteq Nat
    BY <1>7, <2>1 DEF ClaimUnavailable, HoldOffset
  <2>4. QED
    BY <1>7, <2>2, <2>3 DEF ClaimUnavailable
<1>8. CASE WriteRawPoint \/ WriteRawPointFails
  <2>1. msg \in Events /\ log' = log /\ position' = position
    BY <1>8 DEF WriteRawPoint, WriteRawPointFails
  <2>2. stored' \subseteq Events
    BY <1>8, <2>1 DEF WriteRawPoint, WriteRawPointFails
  <2>3. window' \in [Events -> Nat]
    BY <1>8, <2>1 DEF WriteRawPoint, WriteRawPointFails
  <2>4. QED
    BY <1>8, <2>1, <2>2, <2>3
       DEF WriteRawPoint, WriteRawPointFails, OnInfluxError
<1>9. CASE PublishProcessed \/ PublishProcessedFails
  BY <1>9 DEF PublishProcessed, PublishProcessedFails, OnPublishError
<1>10. CASE DeadLettered
  BY <1>10 DEF DeadLettered
<1>11. CASE DeadLetterFails
  <2>1. msg \in Msgs /\ position \in Nat
    BY <1>11 DEF DeadLetterFails
  <2>2. dlq' \subseteq Msgs
    BY <1>11, <2>1 DEF DeadLetterFails
  <2>3. orphaned' \subseteq Events
    BY <1>11 DEF DeadLetterFails
  <2>4. held' \subseteq Nat
    BY <1>11, <2>1 DEF DeadLetterFails, HoldOffset
  <2>5. /\ pc' = "idle"
        /\ UNCHANGED <<log, restarts, committed, position, claimed, stored,
                       window, processed, expired>>
    BY <1>11 DEF DeadLetterFails
  <2>6. EventInHand' /\ HandUncommitted'
    BY <2>5
  <2>7. TypeOK'
    BY <2>2, <2>3, <2>4, <2>5
  <2>8. QED
    BY <2>6, <2>7
<1>12. CASE Commit \/ CommitFails
  <2>1. committed' \in 0..position /\ pc' = "idle"
    BY <1>12 DEF Commit, CommitPoint, CommitFails
  <2>2. QED
    BY <1>12, <2>1 DEF Commit, CommitFails
<1>13. CASE UNCHANGED vars
  BY <1>13 DEF vars
<1>14. QED
  BY <1>1, <1>2, <1>3, <1>4, <1>5, <1>6, <1>7, <1>8, <1>9, <1>10, <1>11,
     <1>12, <1>13 DEF Next, Consume

\* The variables of the consume loop keep their types: in particular the
\* committed offset never passes the fetch position, nor that the log.
THEOREM TypeCorrect == Spec => []TypeOK
<1>1. TypeInv => TypeOK
  BY DEF TypeInv
<1>2. QED
  BY TypeInit, TypeNext, <1>1, PTL DEF Spec

-----------------------------------------------------------------------------
(* No unexplained loss.                                                    *)

\* An event is settled when its effect is durable or its claim is orphaned.
Settled(m) == Handled(m) \/ m \in orphaned

\* Every live claim belongs to a settled event or to the message in hand:
\* what makes it right, up to orphans, to commit a duplicate unprocessed.
ClaimsSettled ==
  \A e \in claimed : Settled(e) \/ (pc \in PastClaim /\ msg = e)

\* The message about to be committed is settled.
CommitSettled == pc = "commit" => Settled(msg)

\* Everything fetched, the message in hand apart, is settled or was held.
FetchedAccounted ==
  \A o \in 1..position :
    Settled(log[o]) \/ o \in held \/ (o = position /\ pc # "idle")

LossInv == ClaimsSettled /\ CommitSettled /\ FetchedAccounted

\* What was settled, held or logged before a step is so after it.
LEMMA SettledIsStable ==
  ASSUME TypeInv, [Next]_vars
  PROVE  /\ processed \subseteq processed' /\ dlq \subseteq dlq'
         /\ orphaned \subseteq orphaned' /\ held \subseteq held'
         /\ \A o \in 1..Len(log) : log'[o] = log[o]
  <1> USE DEF TypeInv, TypeOK, Msgs, external, history
  <1>1. CASE \E m \in Msgs : Produce(m)
    BY <1>1 DEF Produce
  <1>2. CASE (\E e \in Events : ExpireClaim(e)) \/ Restart \/ Rebalance
    BY <1>2 DEF ExpireClaim, Restart, Rebalance
  <1>3. CASE Poll \/ ClaimFirst \/ ClaimDuplicate \/ ClaimUnavailable
    BY <1>3 DEF Poll, ClaimFirst, ClaimDuplicate, ClaimUnavailable, HoldOffset
  <1>4. CASE WriteRawPoint \/ WriteRawPointFails \/ PublishProcessed
             \/ PublishProcessedFails
    BY <1>4 DEF WriteRawPoint, WriteRawPointFails, PublishProcessed,
                PublishProcessedFails
  <1>5. CASE DeadLettered \/ DeadLetterFails \/ Commit \/ CommitFails
    BY <1>5 DEF DeadLettered, DeadLetterFails, HoldOffset, Commit, CommitFails
  <1>6. CASE UNCHANGED vars
    BY <1>6 DEF vars
  <1>7. QED
    BY <1>1, <1>2, <1>3, <1>4, <1>5, <1>6 DEF Next, Consume

LEMMA LossNext == TypeInv /\ TypeInv' /\ LossInv /\ [Next]_vars => LossInv'
<1> SUFFICES ASSUME TypeInv, TypeInv', LossInv, [Next]_vars PROVE LossInv'
  OBVIOUS
<1> USE DEF LossInv, Settled, Handled, msg, external, history
<1> DEFINE Stable == /\ processed \subseteq processed' /\ dlq \subseteq dlq'
                     /\ orphaned \subseteq orphaned' /\ held \subseteq held'
                     /\ \A o \in 1..Len(log) : log'[o] = log[o]
<1>0. Stable
  BY SettledIsStable
<1>a. /\ position \in Nat /\ position' \in Nat /\ Len(log) \in Nat
      /\ position <= Len(log) /\ committed \in Nat /\ committed <= position
      /\ (pc # "idle" => committed < position /\ position \in 1..Len(log))
  BY DEF TypeInv, TypeOK, HandUncommitted
<1> HIDE DEF Stable
<1>1. CASE \E m \in Msgs : Produce(m)
  <2>1. /\ UNCHANGED <<position, pc, claimed, processed, dlq, held, orphaned>>
    BY <1>1 DEF Produce
  <2>2. QED
    BY <2>1, <1>0, <1>a DEF Stable, ClaimsSettled, CommitSettled,
                            FetchedAccounted, PastClaim
<1>2. CASE \E e \in Events : ExpireClaim(e)
  BY <1>2 DEF ExpireClaim, ClaimsSettled, CommitSettled, FetchedAccounted
<1>3. CASE Restart
  <2>1. ClaimsSettled'
    BY <1>3 DEF Restart, ClaimsSettled
  <2>2. FetchedAccounted'
    <3>1. /\ position' = committed /\ log' = log /\ processed' = processed
          /\ dlq' = dlq /\ held' = held /\ orphaned \subseteq orphaned'
      BY <1>3 DEF Restart
    <3>2. SUFFICES ASSUME NEW o \in 1..committed
                   PROVE  Settled(log[o]) \/ o \in held
      BY <3>1 DEF FetchedAccounted
    <3>3. QED
      BY <1>a DEF FetchedAccounted, CommitSettled
  <2>3. QED
    BY <1>3, <2>1, <2>2 DEF Restart, CommitSettled
<1>4. CASE Rebalance
  <2>1. /\ pc = "idle" /\ pc' = "idle" /\ position' = committed
        /\ UNCHANGED <<log, claimed, processed, dlq, held, orphaned>>
    BY <1>4 DEF Rebalance
  <2>2. ClaimsSettled' /\ CommitSettled'
    BY <2>1 DEF ClaimsSettled, CommitSettled, PastClaim
  <2>3. FetchedAccounted'
    BY <2>1, <1>a DEF FetchedAccounted
  <2>4. QED
    BY <2>2, <2>3
<1>5. CASE Poll
  <2>1. /\ position' = position + 1 /\ pc = "idle" /\ pc' \notin PastClaim
        /\ pc' \notin {"idle", "commit"}
        /\ UNCHANGED <<log, claimed, processed, dlq, held, orphaned>>
    BY <1>5 DEF Poll, PastClaim
  <2>2. ClaimsSettled' /\ CommitSettled'
    BY <2>1 DEF ClaimsSettled, CommitSettled, PastClaim
  <2>3. FetchedAccounted'
    BY <2>1, <1>a DEF FetchedAccounted
  <2>4. QED
    BY <2>2, <2>3
<1>6. CASE ClaimFirst
  <2>1. /\ pc = "claim" /\ pc' = "influx" /\ claimed' = claimed \cup {msg}
        /\ UNCHANGED <<log, position, processed, dlq, held, orphaned>>
    BY <1>6 DEF ClaimFirst
  <2>2. QED
    BY <2>1 DEF ClaimsSettled, CommitSettled, FetchedAccounted, PastClaim
<1>7. CASE ClaimDuplicate
  <2>1. /\ pc = "claim" /\ pc' = "commit" /\ msg \in claimed
        /\ UNCHANGED <<log, position, claimed, processed, dlq, held, orphaned>>
    BY <1>7 DEF ClaimDuplicate, FirstSeen
  <2>2. QED
    BY <2>1 DEF ClaimsSettled, CommitSettled, FetchedAccounted, PastClaim
<1>8. CASE ClaimUnavailable
  <2>1. /\ pc = "claim" /\ pc' = "idle" /\ position \in held'
        /\ UNCHANGED <<log, position, processed, dlq>>
    BY <1>8 DEF ClaimUnavailable, HoldOffset
  <2>2. ClaimsSettled'
    BY <1>8, <2>1 DEF ClaimUnavailable, ClaimsSettled, PastClaim
  <2>3. FetchedAccounted'
    BY <1>0, <2>1 DEF Stable, FetchedAccounted
  <2>4. QED
    BY <2>1, <2>2, <2>3 DEF CommitSettled
<1>9. CASE WriteRawPoint \/ WriteRawPointFails
  <2>1. /\ pc \in PastClaim /\ pc' \in PastClaim
        /\ UNCHANGED <<log, position, claimed, processed, dlq, held, orphaned>>
    BY <1>9 DEF WriteRawPoint, WriteRawPointFails, OnInfluxError, PastClaim
  <2>2. QED
    BY <2>1 DEF ClaimsSettled, CommitSettled, FetchedAccounted, PastClaim
<1>10. CASE PublishProcessed
  <2>1. /\ pc = "publish" /\ pc' = "commit" /\ processed' = processed \cup {msg}
        /\ UNCHANGED <<log, position, claimed, dlq, held, orphaned>>
    BY <1>10 DEF PublishProcessed
  <2>2. QED
    BY <2>1 DEF ClaimsSettled, CommitSettled, FetchedAccounted, PastClaim
<1>11. CASE PublishProcessedFails
  <2>1. /\ pc = "publish" /\ pc' = "dlq_republish"
        /\ UNCHANGED <<log, position, claimed, dlq, held, orphaned>>
    BY <1>11 DEF PublishProcessedFails, OnPublishError
  <2>2. QED
    BY <1>0, <2>1 DEF Stable, ClaimsSettled, CommitSettled, FetchedAccounted,
                      PastClaim
<1>12. CASE DeadLettered
  <2>1. /\ pc # "idle" /\ pc' = "commit" /\ dlq' = dlq \cup {msg}
        /\ UNCHANGED <<log, position, claimed, processed, held, orphaned>>
    BY <1>12 DEF DeadLettered, DeadLetter
  <2>2. QED
    BY <2>1 DEF ClaimsSettled, CommitSettled, FetchedAccounted, PastClaim
<1>13. CASE DeadLetterFails
  <2>1. /\ pc' = "idle" /\ position \in held'
        /\ (pc \in PastClaim => msg \in orphaned')
        /\ UNCHANGED <<log, position, claimed, processed>>
    BY <1>13 DEF DeadLetterFails, HoldOffset
  <2>2. ClaimsSettled'
    BY <1>0, <2>1 DEF Stable, ClaimsSettled
  <2>3. FetchedAccounted'
    BY <1>0, <2>1 DEF Stable, FetchedAccounted
  <2>4. QED
    BY <2>1, <2>2, <2>3 DEF CommitSettled
<1>14. CASE Commit \/ CommitFails
  <2>1. /\ pc = "commit" /\ pc' = "idle"
        /\ UNCHANGED <<log, position, claimed, processed, dlq, held, orphaned>>
    BY <1>14 DEF Commit, CommitFails
  <2>2. QED
    BY <2>1 DEF ClaimsSettled, CommitSettled, FetchedAccounted, PastClaim
<1>15. CASE UNCHANGED vars
  BY <1>15 DEF vars, ClaimsSettled, CommitSettled, FetchedAccounted
<1>16. QED
  BY <1>1, <1>2, <1>3, <1>4, <1>5, <1>6, <1>7, <1>8, <1>9, <1>10, <1>11,
     <1>12, <1>13, <1>14, <1>15 DEF Next, Consume

\* Whatever fails and however often the processor restarts, a message below
\* the committed offset is republished, dead-lettered, was held back, or its
\* event id was claimed by a run that never finished it.
THEOREM LossExplained == Spec => []LossIsExplained
<1>1. Init => LossInv
  BY DEF Init, LossInv, ClaimsSettled, CommitSettled, FetchedAccounted
<1>2. TypeInv /\ LossInv => LossIsExplained
  BY DEF TypeInv, TypeOK, HandUncommitted, LossInv, FetchedAccounted, Settled,
         Handled, LossIsExplained
<1>3. QED
  BY TypeInit, TypeNext, LossNext, <1>1, <1>2, PTL DEF Spec

-----------------------------------------------------------------------------
(* The consumer group.                                                     *)

\* Offsets whose message is settled or was held back.
Accounted == {o \in 1..Len(log) : Settled(log[o]) \/ o \in held}

Group == INSTANCE ConsumerGroup
           WITH position <- position, committed <- committed,
                accounted <- Accounted

LEMMA GroupStep ==
  TypeInv /\ TypeInv' /\ LossInv /\ [Next]_vars => [Group!Next]_(Group!vars)
<1> SUFFICES ASSUME TypeInv, TypeInv', LossInv, [Next]_vars
             PROVE  [Group!Next]_(Group!vars)
  OBVIOUS
<1> USE DEF external, history, Group!Next, Group!vars
<1>a. /\ Len(log) \in Nat /\ Len(log') \in Nat /\ position \in 0..Len(log)
      /\ (pc # "idle" => position \in 1..Len(log))
  BY DEF TypeInv, TypeOK
<1>0. Accounted \subseteq Accounted'
  <2>1. Len(log) <= Len(log')
    <3>1. CASE \E m \in Msgs : Produce(m)
      BY <3>1, <1>a DEF Produce, TypeInv, TypeOK
    <3>2. CASE ~ \E m \in Msgs : Produce(m)
      <4>1. log' = log
        BY <3>2 DEF Next, Consume, ExpireClaim, Restart, Rebalance, Poll,
             ClaimFirst, ClaimDuplicate, ClaimUnavailable, WriteRawPoint,
             WriteRawPointFails, PublishProcessed, PublishProcessedFails,
             DeadLettered, DeadLetterFails, Commit, CommitFails, vars
      <4>2. QED
        BY <4>1, <1>a
    <3>3. QED
      BY <3>1, <3>2
  <2>2. QED
    BY <2>1, <1>a, SettledIsStable DEF Accounted, Settled, Handled
<1>b. ASSUME UNCHANGED <<position, committed>>
      PROVE  [Group!Next]_(Group!vars)
  BY <1>b, <1>0 DEF Group!Account
<1>1. CASE Poll
  <2>1. /\ pc = "idle" /\ position' = position + 1
        /\ UNCHANGED <<log, committed, processed, dlq, held, orphaned>>
    BY <1>1 DEF Poll
  <2>2. 1..position \subseteq Accounted
    BY <2>1, <1>a DEF LossInv, FetchedAccounted, Accounted
  <2>3. Accounted' = Accounted
    BY <2>1 DEF Accounted, Settled, Handled
  <2>4. QED
    BY <2>1, <2>2, <2>3 DEF Group!Fetch
<1>2. CASE Commit
  <2>1. /\ pc = "commit" /\ committed' = position
        /\ UNCHANGED <<log, position, processed, dlq, held, orphaned>>
    BY <1>2 DEF Commit, CommitPoint
  <2>2. position \in Accounted
    BY <2>1, <1>a DEF LossInv, CommitSettled, Accounted, msg
  <2>3. Accounted' = Accounted
    BY <2>1 DEF Accounted, Settled, Handled
  <2>4. QED
    BY <2>1, <2>2, <2>3 DEF Group!Commit
<1>3. CASE Restart \/ Rebalance
  <2>1. position' = committed /\ committed' = committed
    BY <1>3 DEF Restart, Rebalance
  <2>2. QED
    BY <2>1, <1>0 DEF Group!GoBack
<1>4. CASE (\E m \in Msgs : Produce(m)) \/ (\E e \in Events : ExpireClaim(e))
  BY <1>4, <1>b DEF Produce, ExpireClaim
<1>5. CASE \/ ClaimFirst \/ ClaimDuplicate \/ ClaimUnavailable \/ WriteRawPoint
           \/ WriteRawPointFails \/ PublishProcessed \/ PublishProcessedFails
  BY <1>5, <1>b DEF ClaimFirst, ClaimDuplicate, ClaimUnavailable,
       WriteRawPoint, WriteRawPointFails, PublishProcessed,
       PublishProcessedFails
<1>6. CASE DeadLettered \/ DeadLetterFails \/ CommitFails \/ UNCHANGED vars
  BY <1>6, <1>b DEF DeadLettered, DeadLetterFails, CommitFails, vars
<1>7. QED
  BY <1>1, <1>2, <1>3, <1>4, <1>5, <1>6 DEF Next, Consume

\* The consume loop implements the abstract consumer group: what the group has
\* passed is republished, dead-lettered, held back or orphaned by a crash.
THEOREM StreamIsConsumerGroup == Spec => Group!Spec
<1>1. Init => LossInv /\ Group!Init
  BY DEF Init, LossInv, ClaimsSettled, CommitSettled, FetchedAccounted,
         Group!Init, Accounted
<1>2. QED
  BY TypeInit, TypeNext, LossNext, GroupStep, <1>1, PTL DEF Spec, Group!Spec

-----------------------------------------------------------------------------
(* The raw point comes first.                                              *)

\* From the republish on, the raw point of the message in hand is written.
StoredInv ==
  /\ StoredFirst
  /\ pc \in {"publish", "dlq_republish"} => msg \in stored

LEMMA StoredNext == TypeInv /\ StoredInv /\ [Next]_vars => StoredInv'
<1> SUFFICES ASSUME TypeInv, StoredInv, [Next]_vars PROVE StoredInv'
  OBVIOUS
<1> USE DEF StoredInv, StoredFirst, msg, external, history
<1>a. /\ window \in [Events -> Nat] /\ log \in Seq(Msgs) /\ position \in Nat
      /\ (pc # "idle" => position \in 1..Len(log))
      /\ (pc \in PastClaim => log[position] \in Events)
  BY DEF TypeInv, TypeOK, EventInHand
<1>1. CASE \E m \in Msgs : Produce(m)
  BY <1>1, <1>a DEF Produce
<1>2. CASE (\E e \in Events : ExpireClaim(e)) \/ Rebalance
  BY <1>2 DEF ExpireClaim, Rebalance
<1>3. CASE Restart
  <2>1. /\ pc' = "idle" /\ window' = [e \in Events |-> 0]
        /\ UNCHANGED <<stored, processed>>
    BY <1>3 DEF Restart
  <2>2. QED
    BY <2>1
<1>4. CASE Poll \/ ClaimFirst \/ ClaimDuplicate \/ ClaimUnavailable
  <2>1. /\ pc' \notin {"publish", "dlq_republish"}
        /\ UNCHANGED <<stored, processed, window>>
    BY <1>4 DEF Poll, ClaimFirst, ClaimDuplicate, ClaimUnavailable
  <2>2. QED
    BY <2>1
<1>5. CASE WriteRawPoint
  <2>1. /\ stored' = stored \cup {log[position]}
        /\ window' = [window EXCEPT ![log[position]] = @ + 1]
        /\ UNCHANGED <<log, position, processed>>
    BY <1>5 DEF WriteRawPoint
  <2>2. \A e \in Events : e # log[position] => window'[e] = window[e]
    BY <2>1, <1>a
  <2>3. QED
    BY <2>1, <2>2
<1>6. CASE WriteRawPointFails
  BY <1>6 DEF WriteRawPointFails, OnInfluxError
<1>7. CASE PublishProcessed \/ PublishProcessedFails
  BY <1>7 DEF PublishProcessed, PublishProcessedFails, OnPublishError
<1>8. CASE DeadLettered \/ DeadLetterFails
  <2>1. /\ pc' \notin {"publish", "dlq_republish"}
        /\ UNCHANGED <<stored, processed, window>>
    BY <1>8 DEF DeadLettered, DeadLetterFails
  <2>2. QED
    BY <2>1
<1>9. CASE Commit \/ CommitFails
  <2>1. /\ pc' \notin {"publish", "dlq_republish"}
        /\ UNCHANGED <<stored, processed, window>>
    BY <1>9 DEF Commit, CommitFails
  <2>2. QED
    BY <2>1
<1>10. CASE UNCHANGED vars
  BY <1>10 DEF vars
<1>11. QED
  BY <1>1, <1>2, <1>3, <1>4, <1>5, <1>6, <1>7, <1>8, <1>9, <1>10
     DEF Next, Consume

\* Nothing is republished or folded into a window before its raw point is in
\* InfluxDB.
THEOREM RawPointFirst == Spec => []StoredFirst
<1>1. Init => StoredInv
  BY DEF Init, StoredInv, StoredFirst
<1>2. StoredInv => StoredFirst
  BY DEF StoredInv
<1>3. QED
  BY TypeInit, TypeNext, StoredNext, <1>1, <1>2, PTL DEF Spec

-----------------------------------------------------------------------------
(* Folded once for each claim.                                             *)

\* Each fold of e into the windows, done or about to be done, is paid for by
\* the claim e holds or by one that expired.
Owed(e)     == IF pc = "influx" /\ msg = e THEN 1 ELSE 0
LiveClaim(e) == IF e \in claimed THEN 1 ELSE 0
FoldInv == \A e \in Events : window[e] + Owed(e) <= expired[e] + LiveClaim(e)

LEMMA FoldNext == TypeInv /\ FoldInv /\ [Next]_vars => FoldInv'
<1> SUFFICES ASSUME TypeInv, FoldInv, [Next]_vars, NEW e \in Events
             PROVE  (window[e] + Owed(e) <= expired[e] + LiveClaim(e))'
  BY DEF FoldInv
<1> USE DEF msg, external, history, Owed, LiveClaim
<1>a. /\ window \in [Events -> Nat] /\ expired \in [Events -> Nat]
      /\ log \in Seq(Msgs) /\ position \in Nat
      /\ (pc # "idle" => position \in 1..Len(log))
      /\ (pc \in PastClaim => log[position] \in Events)
      /\ window[e] \in Nat /\ expired[e] \in Nat
      /\ window[e] + Owed(e) <= expired[e] + LiveClaim(e)
  BY DEF TypeInv, TypeOK, EventInHand, FoldInv
<1>1. CASE \E m \in Msgs : Produce(m)
  BY <1>1, <1>a DEF Produce
<1>2. CASE \E f \in Events : ExpireClaim(f)
  <2>1. PICK f \in Events : ExpireClaim(f)
    BY <1>2
  <2>2. UNCHANGED <<window, pc, log, position>>
    BY <2>1 DEF ExpireClaim
  <2>3. CASE f = e
    BY <2>1, <2>2, <2>3, <1>a DEF ExpireClaim
  <2>4. CASE f # e
    BY <2>1, <2>2, <2>4, <1>a DEF ExpireClaim
  <2>5. QED
    BY <2>3, <2>4
<1>3. CASE Restart
  <2>1. /\ pc' = "idle" /\ window'[e] = 0 /\ UNCHANGED <<expired, claimed>>
    BY <1>3 DEF Restart
  <2>2. QED
    BY <2>1, <1>a
<1>4. CASE Rebalance \/ Poll \/ ClaimDuplicate
  <2>1. /\ pc' # "influx" /\ UNCHANGED <<window, expired, claimed>>
    BY <1>4 DEF Rebalance, Poll, ClaimDuplicate
  <2>2. QED
    BY <2>1, <1>a
<1>5. CASE ClaimFirst
  <2>1. /\ pc = "claim" /\ msg \notin claimed /\ claimed' = claimed \cup {msg}
        /\ UNCHANGED <<window, expired, log, position>>
    BY <1>5 DEF ClaimFirst, FirstSeen
  <2>2. CASE msg = e
    BY <2>1, <2>2, <1>a
  <2>3. CASE msg # e
    BY <2>1, <2>3, <1>a
  <2>4. QED
    BY <2>2, <2>3
<1>6. CASE ClaimUnavailable
  <2>1. /\ pc' = "idle" /\ claimed \subseteq claimed'
        /\ UNCHANGED <<window, expired>>
    BY <1>6 DEF ClaimUnavailable
  <2>2. QED
    BY <2>1, <1>a
<1>7. CASE WriteRawPoint
  <2>1. /\ pc = "influx" /\ pc' # "influx" /\ msg \in Events
        /\ window' = [window EXCEPT ![msg] = @ + 1]
        /\ UNCHANGED <<claimed, expired>>
    BY <1>7, <1>a DEF WriteRawPoint, PastClaim
  <2>2. CASE msg = e
    BY <2>1, <2>2, <1>a
  <2>3. CASE msg # e
    BY <2>1, <2>3, <1>a
  <2>4. QED
    BY <2>2, <2>3
<1>8. CASE WriteRawPointFails \/ PublishProcessed \/ PublishProcessedFails
  <2>1. pc' # "influx" /\ UNCHANGED <<window, expired, claimed>>
    BY <1>8 DEF WriteRawPointFails, PublishProcessed, PublishProcessedFails,
                OnInfluxError, OnPublishError
  <2>2. QED
    BY <2>1, <1>a
<1>9. CASE DeadLettered \/ DeadLetterFails \/ Commit \/ CommitFails
  <2>1. pc' # "influx" /\ UNCHANGED <<window, expired, claimed>>
    BY <1>9 DEF DeadLettered, DeadLetterFails, Commit, CommitFails
  <2>2. QED
    BY <2>1, <1>a
<1>10. CASE UNCHANGED vars
  BY <1>10, <1>a DEF vars
<1>11. QED
  BY <1>1, <1>2, <1>3, <1>4, <1>5, <1>6, <1>7, <1>8, <1>9, <1>10
     DEF Next, Consume

\* An event is folded into the windows once for its claim and once more for
\* each expiry of the claim, however often it is delivered.
THEOREM FoldedOnce == Spec => []FoldedOncePerClaim
<1>1. Init => FoldInv
  <2> SUFFICES ASSUME Init, NEW e \in Events
               PROVE  window[e] + Owed(e) <= expired[e] + LiveClaim(e)
    BY DEF FoldInv
  <2>1. window[e] = 0 /\ expired[e] = 0 /\ Owed(e) = 0 /\ LiveClaim(e) = 0
    BY DEF Init, Owed, LiveClaim
  <2>2. QED
    BY <2>1
<1>2. TypeInv /\ FoldInv => FoldedOncePerClaim
  <2> SUFFICES ASSUME TypeInv, FoldInv, NEW e \in Events
               PROVE  window[e] <= 1 + expired[e]
    BY DEF FoldedOncePerClaim
  <2>1. window[e] \in Nat /\ expired[e] \in Nat
    BY DEF TypeInv, TypeOK
  <2>2. window[e] + Owed(e) <= expired[e] + LiveClaim(e)
    BY DEF FoldInv
  <2>3. Owed(e) \in {0, 1} /\ LiveClaim(e) \in {0, 1}
    BY DEF Owed, LiveClaim
  <2>4. QED
    BY <2>1, <2>2, <2>3
<1>3. QED
  BY TypeInit, TypeNext, FoldNext, <1>1, <1>2, PTL DEF Spec
=============================================================================
