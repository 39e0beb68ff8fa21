--------------------------- MODULE DetectorProofs ---------------------------
(***************************************************************************)
(* Proofs about Detector, for every log, range, threshold and bound: what  *)
(* its consume loop does with claims and offsets, whichever verdicts the   *)
(* detectors reach and whatever the other threads do; that an anomaly has  *)
(* the data behind it that its methods need; and that scoring fails only   *)
(* after a sensor was removed.                                             *)
(***************************************************************************)
EXTENDS Detector, FiniteSetTheorems, SequenceTheorems, WellFoundedInduction,
        TLAPS

\* The part of the state the loop's progress rests on.
LoopInv ==
  /\ position \in 0..Len(Log) /\ committed \in 0..position
  /\ pc \in Steps
  /\ pc # "idle" => committed < position
  /\ pc \in PastClaim \cup {"claim"} => msg \in Events
  /\ folded \in [Events -> Nat]

LEMMA LoopInit == Init => LoopInv
  BY DetectorAssumptions DEF Init, LoopInv, Steps, PastClaim

LEMMA LoopNext == LoopInv /\ [Next]_vars => LoopInv'
<1> SUFFICES ASSUME LoopInv, [Next]_vars PROVE LoopInv'
  OBVIOUS
<1> USE DetectorAssumptions DEF LoopInv, Steps, PastClaim, msg, offsets
<1>a. Len(Log) \in Nat
  OBVIOUS
<1>1. CASE Poll
  <2>1. /\ pc = "idle" /\ position < Len(Log) /\ position' = position + 1
        /\ pc' = IF Log[position + 1] = Malformed THEN "dlq_unmarshal" ELSE "claim"
        /\ UNCHANGED <<committed, folded>>
    BY <1>1 DEF Poll, Fetchable
  <2>2. Log[position + 1] \in Events \cup {Malformed}
    BY <2>1, <1>a
  <2>3. QED
    BY <2>1, <2>2, <1>a
<1>2. CASE ClaimFirst \/ ClaimDuplicate \/ ClaimFails
  <2>1. /\ pc = "claim" /\ pc' \in {"lookup", "commit", "idle"}
        /\ UNCHANGED <<position, committed, folded>>
    BY <1>2 DEF ClaimFirst, ClaimDuplicate, ClaimFails
  <2>2. QED
    BY <2>1
<1>3. CASE Lookup \/ FeaturesFor
  <2>1. /\ pc \in PastClaim /\ pc' \in PastClaim
        /\ UNCHANGED <<position, committed, folded>>
    BY <1>3 DEF Lookup, FeaturesFor
  <2>2. QED
    BY <2>1
<1>4. CASE Observe
  <2>1. /\ pc = "observe" /\ pc' = "score" /\ UNCHANGED <<position, committed>>
        /\ folded' = [folded EXCEPT ![msg] = @ + 1]
    BY <1>4 DEF Observe
  <2>2. folded' \in [Events -> Nat]
    BY <2>1
  <2>3. QED
    BY <2>1, <2>2
<1>5. CASE Score \/ ScoreRaises
  <2>1. /\ pc = "score" /\ pc' \in {"commit", "publish", "dead"}
        /\ UNCHANGED <<position, committed, folded>>
    BY <1>5 DEF Score, ScoreRaises
  <2>2. QED
    BY <2>1
<1>6. CASE PublishAnomaly \/ PublishFails
  <2>1. /\ pc = "publish" /\ pc' \in {"commit", "dlq_publish"}
        /\ UNCHANGED <<position, committed, folded>>
    BY <1>6 DEF PublishAnomaly, PublishFails, OnPublishError
  <2>2. QED
    BY <2>1
<1>7. CASE DeadLettered \/ DeadLetterFails
  <2>1. /\ pc # "idle" /\ pc' \in {"commit", "idle"}
        /\ UNCHANGED <<position, committed, folded>>
    BY <1>7 DEF DeadLettered, DeadLetterFails
  <2>2. QED
    BY <2>1
<1>8. CASE Commit \/ CommitFails
  <2>1. /\ committed' \in {committed, position} /\ pc' = "idle"
        /\ UNCHANGED <<position, folded>>
    BY <1>8 DEF Commit, CommitFails
  <2>2. QED
    BY <2>1
<1>9. CASE Restart \/ Rebalance
  <2>1. /\ position' = committed /\ committed' = committed /\ pc' = "idle"
        /\ folded' = folded
    BY <1>9 DEF Restart, Rebalance
  <2>2. QED
    BY <2>1
<1>10. CASE \/ Refresh \/ TrainingSnapshot \/ Fit \/ FitRaises
            \/ \E new \in SUBSET Metrics : ChangeSensors(new)
            \/ UNCHANGED vars
  <2>1. UNCHANGED <<position, committed, pc, folded>>
    BY <1>10 DEF Refresh, TrainingSnapshot, Fit, FitRaises, ChangeSensors, vars
  <2>2. QED
    BY <2>1
<1>11. QED
  BY <1>1, <1>2, <1>3, <1>4, <1>5, <1>6, <1>7, <1>8, <1>9, <1>10
     DEF Next, Consume

-----------------------------------------------------------------------------
(* Folded once. *)

\* The claim an event holds pays for its fold, done or still to be done.
ToFold(e) == IF pc \in {"lookup", "features", "observe"} /\ msg = e THEN 1 ELSE 0
Claim(e) == IF e \in claims THEN 1 ELSE 0
FoldInv == \A e \in Events : folded[e] + ToFold(e) <= Claim(e)

LEMMA FoldNext == LoopInv /\ FoldInv /\ [Next]_vars => FoldInv'
<1> SUFFICES ASSUME LoopInv, FoldInv, [Next]_vars, NEW e \in Events
             PROVE  (folded[e] + ToFold(e) <= Claim(e))'
  BY DEF FoldInv
<1> USE DEF msg, offsets, ToFold, Claim
<1>a. /\ folded \in [Events -> Nat] /\ folded[e] \in Nat
      /\ (pc \in PastClaim => msg \in Events)
      /\ folded[e] + ToFold(e) <= Claim(e)
  BY DEF LoopInv, FoldInv
<1>1. CASE ClaimFirst
  <2>1. /\ pc = "claim" /\ msg \notin claims /\ claims' = claims \cup {msg}
        /\ UNCHANGED <<folded, position>>
    BY <1>1 DEF ClaimFirst, FirstSeen
  <2>2. CASE msg = e
    BY <2>1, <2>2, <1>a
  <2>3. CASE msg # e
    BY <2>1, <2>3, <1>a
  <2>4. QED
    BY <2>2, <2>3
<1>2. CASE ClaimFails
  <2>1. pc' = "idle" /\ claims \subseteq claims' /\ folded' = folded
    BY <1>2 DEF ClaimFails
  <2>2. QED
    BY <2>1, <1>a
<1>3. CASE Lookup \/ FeaturesFor
  <2>1. /\ pc \in {"lookup", "features"} /\ UNCHANGED <<folded, position, claims>>
    BY <1>3 DEF Lookup, FeaturesFor
  <2>2. QED
    BY <2>1, <1>a
<1>4. CASE Observe
  <2>1. /\ pc = "observe" /\ pc' = "score" /\ msg \in Events
        /\ folded' = [folded EXCEPT ![msg] = @ + 1] /\ claims' = claims
    BY <1>4, <1>a DEF Observe, PastClaim
  <2>2. CASE msg = e
    BY <2>1, <2>2, <1>a
  <2>3. CASE msg # e
    BY <2>1, <2>3, <1>a
  <2>4. QED
    BY <2>2, <2>3
<1>5. CASE \/ Poll \/ ClaimDuplicate \/ Score \/ ScoreRaises \/ PublishAnomaly
           \/ PublishFails
  <2>1. /\ pc' \notin {"lookup", "features", "observe"}
        /\ UNCHANGED <<folded, claims>>
    BY <1>5 DEF Poll, ClaimDuplicate, Score, ScoreRaises, PublishAnomaly,
                PublishFails, OnPublishError
  <2>2. QED
    BY <2>1, <1>a
<1>6. CASE \/ DeadLettered \/ DeadLetterFails \/ Commit \/ CommitFails
           \/ Restart \/ Rebalance
  <2>1. /\ pc' \notin {"lookup", "features", "observe"}
        /\ UNCHANGED <<folded, claims>>
    BY <1>6 DEF DeadLettered, DeadLetterFails, Commit, CommitFails, Restart,
                Rebalance
  <2>2. QED
    BY <2>1, <1>a
<1>7. CASE \/ Refresh \/ TrainingSnapshot \/ Fit \/ FitRaises
           \/ \E new \in SUBSET Metrics : ChangeSensors(new)
           \/ UNCHANGED vars
  <2>1. UNCHANGED <<position, pc, folded, claims>>
    BY <1>7 DEF Refresh, TrainingSnapshot, Fit, FitRaises, ChangeSensors, vars
  <2>2. QED
    BY <2>1, <1>a
<1>8. QED
  BY <1>1, <1>2, <1>3, <1>4, <1>5, <1>6, <1>7 DEF Next, Consume

\* However a reading is redelivered, it enters the baselines at most once.
THEOREM ReadingFoldedOnce == Spec => []FoldedOnce
<1>1. Init => FoldInv
  <2> SUFFICES ASSUME Init, NEW e \in Events
               PROVE  folded[e] + ToFold(e) <= Claim(e)
    BY DEF FoldInv
  <2>1. folded[e] = 0 /\ ToFold(e) = 0 /\ Claim(e) = 0
    BY DEF Init, ToFold, Claim
  <2>2. QED
    BY <2>1
<1>2. LoopInv /\ FoldInv => FoldedOnce
  <2> SUFFICES ASSUME LoopInv, FoldInv, NEW e \in Events PROVE folded[e] <= 1
    BY DEF FoldedOnce
  <2>1. folded[e] \in Nat /\ folded[e] + ToFold(e) <= Claim(e)
    BY DEF LoopInv, FoldInv
  <2>2. ToFold(e) \in {0, 1} /\ Claim(e) \in {0, 1}
    BY DEF ToFold, Claim
  <2>3. QED
    BY <2>1, <2>2
<1>3. QED
  BY LoopInit, LoopNext, FoldNext, <1>1, <1>2, PTL DEF Spec

-----------------------------------------------------------------------------
(* The consumer group. *)

\* An event is settled when its outcome is durable or its claim is orphaned.
Settled(m) == m \in published \cup dlq \cup judged \cup orphaned

\* A claim belongs to a settled event or to the message in hand: so the loop
\* may commit a duplicate without looking at it.
ClaimsSettled ==
  \A e \in claims : Settled(e) \/ (pc \in PastClaim /\ msg = e)

CommitSettled == pc = "commit" => Settled(msg)

\* Everything fetched is accounted for, the message in hand apart.
FetchedAccounted ==
  \A o \in 1..position : o \in Accounted \/ (o = position /\ pc # "idle")

GroupInv == ClaimsSettled /\ CommitSettled /\ FetchedAccounted

\* No step takes back an outcome.
LEMMA OutcomesAreStable ==
  ASSUME [Next]_vars
  PROVE  /\ published \subseteq published' /\ dlq \subseteq dlq'
         /\ judged \subseteq judged' /\ orphaned \subseteq orphaned'
         /\ held \subseteq held' /\ Accounted \subseteq Accounted'
<1> USE DEF topics, outcome
<1>1. /\ published \subseteq published' /\ dlq \subseteq dlq'
      /\ judged \subseteq judged' /\ orphaned \subseteq orphaned'
      /\ held \subseteq held'
  <2>1. CASE Poll \/ ClaimFirst \/ ClaimDuplicate \/ ClaimFails
    BY <2>1 DEF Poll, ClaimFirst, ClaimDuplicate, ClaimFails
  <2>2. CASE Lookup \/ FeaturesFor \/ Observe \/ Score \/ ScoreRaises
    BY <2>2 DEF Lookup, FeaturesFor, Observe, Score, ScoreRaises
  <2>3. CASE PublishAnomaly \/ PublishFails \/ DeadLettered \/ DeadLetterFails
    BY <2>3 DEF PublishAnomaly, PublishFails, DeadLettered, DeadLetterFails
  <2>4. CASE Commit \/ CommitFails \/ Restart \/ Rebalance
    BY <2>4 DEF Commit, CommitFails, Restart, Rebalance
  <2>5. CASE \/ Refresh \/ TrainingSnapshot \/ Fit \/ FitRaises
             \/ \E new \in SUBSET Metrics : ChangeSensors(new)
             \/ UNCHANGED vars
    BY <2>5 DEF Refresh, TrainingSnapshot, Fit, FitRaises, ChangeSensors, vars
  <2>6. QED
    BY <2>1, <2>2, <2>3, <2>4, <2>5 DEF Next, Consume
<1>2. Accounted \subseteq Accounted'
  BY <1>1 DEF Accounted
<1>3. QED
  BY <1>1, <1>2

LEMMA GroupNext == LoopInv /\ GroupInv /\ [Next]_vars => GroupInv'
<1> SUFFICES ASSUME LoopInv, GroupInv, [Next]_vars PROVE GroupInv'
  OBVIOUS
<1> DEFINE Stable == /\ published \subseteq published' /\ dlq \subseteq dlq'
                     /\ judged \subseteq judged' /\ orphaned \subseteq orphaned'
                     /\ held \subseteq held' /\ Accounted \subseteq Accounted'
<1>0. Stable
  BY OutcomesAreStable
<1>a. /\ position \in 0..Len(Log) /\ committed \in 0..position /\ Len(Log) \in Nat
      /\ (pc # "idle" => committed < position /\ position \in 1..Len(Log))
  BY DetectorAssumptions DEF LoopInv
<1> HIDE DEF Stable
<1> USE DEF GroupInv, Settled, msg, offsets, topics, outcome
\* A step within one message keeps what is accounted for.
<1>b. ASSUME position' = position, pc # "idle", pc' # "idle"
      PROVE  FetchedAccounted'
  BY <1>b, <1>0, <1>a DEF Stable, FetchedAccounted
\* A step that leaves the claims and the message alone keeps them settled.
<1>c. ASSUME UNCHANGED <<position, claims>>, pc \in PastClaim => pc' \in PastClaim
      PROVE  ClaimsSettled'
  BY <1>c, <1>0 DEF Stable, ClaimsSettled
<1>1. CASE Poll
  <2>1. /\ position' = position + 1 /\ pc = "idle"
        /\ pc' \in {"dlq_unmarshal", "claim"} /\ claims' = claims
    BY <1>1 DEF Poll
  <2>2. ClaimsSettled' /\ CommitSettled'
    BY <2>1, <1>0 DEF Stable, ClaimsSettled, CommitSettled, PastClaim
  <2>3. FetchedAccounted'
    BY <2>1, <1>0, <1>a DEF Stable, FetchedAccounted
  <2>4. QED
    BY <2>2, <2>3
<1>2. CASE ClaimFirst
  <2>1. /\ pc = "claim" /\ pc' = "lookup" /\ claims' = claims \cup {msg}
        /\ position' = position
    BY <1>2 DEF ClaimFirst
  <2>2. ClaimsSettled'
    BY <2>1, <1>0 DEF Stable, ClaimsSettled, PastClaim
  <2>3. QED
    BY <2>1, <2>2, <1>b DEF CommitSettled
<1>3. CASE ClaimDuplicate
  <2>1. /\ pc = "claim" /\ pc' = "commit" /\ msg \in claims
        /\ UNCHANGED <<position, claims, published, dlq, judged, orphaned>>
    BY <1>3 DEF ClaimDuplicate, FirstSeen
  <2>2. Settled(msg)
    BY <2>1 DEF ClaimsSettled, PastClaim
  <2>3. CommitSettled'
    BY <2>1, <2>2 DEF CommitSettled
  <2>4. QED
    BY <2>1, <2>3, <1>b, <1>c DEF PastClaim
<1>4. CASE ClaimFails
  <2>1. /\ pc = "claim" /\ pc' = "idle" /\ position' = position
        /\ position \in held'
    BY <1>4 DEF ClaimFails
  <2>2. ClaimsSettled'
    BY <1>4, <2>1, <1>0 DEF Stable, ClaimFails, ClaimsSettled, PastClaim
  <2>3. FetchedAccounted'
    BY <2>1, <1>0, <1>a DEF Stable, FetchedAccounted, Accounted
  <2>4. QED
    BY <2>1, <2>2, <2>3 DEF CommitSettled
<1>5. CASE Lookup \/ FeaturesFor \/ Observe \/ ScoreRaises
  <2>1. /\ pc \in PastClaim /\ pc' \in PastClaim /\ UNCHANGED <<position, claims>>
    BY <1>5 DEF Lookup, FeaturesFor, Observe, ScoreRaises, PastClaim
  <2>2. QED
    BY <2>1, <1>b, <1>c DEF CommitSettled, PastClaim
<1>6. CASE Score
  <2>1. /\ pc = "score" /\ UNCHANGED <<position, claims>>
        /\ \/ pc' = "commit" /\ msg \in judged'
           \/ pc' = "publish"
    BY <1>6 DEF Score
  <2>2. CommitSettled'
    BY <2>1 DEF CommitSettled
  <2>3. ClaimsSettled'
    BY <2>1, <1>0 DEF Stable, ClaimsSettled, PastClaim
  <2>4. QED
    BY <2>1, <2>2, <2>3, <1>b
<1>7. CASE PublishAnomaly
  <2>1. /\ pc = "publish" /\ pc' = "commit" /\ msg \in published'
        /\ UNCHANGED <<position, claims>>
    BY <1>7 DEF PublishAnomaly
  <2>2. ClaimsSettled'
    BY <2>1, <1>0 DEF Stable, ClaimsSettled
  <2>3. QED
    BY <2>1, <2>2, <1>b DEF CommitSettled
<1>8. CASE PublishFails
  <2>1. /\ pc = "publish" /\ pc' = "dlq_publish" /\ UNCHANGED <<position, claims>>
    BY <1>8 DEF PublishFails, OnPublishError
  <2>2. QED
    BY <2>1, <1>b, <1>c DEF CommitSettled, PastClaim
<1>9. CASE DeadLettered
  <2>1. /\ pc # "idle" /\ pc' = "commit" /\ msg \in dlq'
        /\ UNCHANGED <<position, claims>>
    BY <1>9 DEF DeadLettered
  <2>2. ClaimsSettled'
    BY <2>1, <1>0 DEF Stable, ClaimsSettled
  <2>3. QED
    BY <2>1, <2>2, <1>b DEF CommitSettled
<1>10. CASE DeadLetterFails
  <2>1. /\ pc \in {"dlq_unmarshal", "dlq_publish"} /\ pc' = "idle"
        /\ position \in held'
        /\ (pc = "dlq_publish" => msg \in orphaned')
        /\ UNCHANGED <<position, claims>>
    BY <1>10 DEF DeadLetterFails
  <2>2. ClaimsSettled'
    BY <2>1, <1>0 DEF Stable, ClaimsSettled, PastClaim
  <2>3. FetchedAccounted'
    BY <2>1, <1>0, <1>a DEF Stable, FetchedAccounted, Accounted
  <2>4. QED
    BY <2>1, <2>2, <2>3 DEF CommitSettled
<1>11. CASE Commit \/ CommitFails
  <2>1. /\ pc = "commit" /\ pc' = "idle" /\ UNCHANGED <<position, claims>>
    BY <1>11 DEF Commit, CommitFails
  <2>2. position \in Accounted
    BY <2>1, <1>a DEF CommitSettled, Accounted
  <2>3. FetchedAccounted'
    BY <2>1, <2>2, <1>0 DEF Stable, FetchedAccounted
  <2>4. QED
    BY <2>1, <2>3, <1>c DEF CommitSettled, PastClaim
<1>12. CASE Restart \/ Rebalance
  <2>1. /\ pc' = "idle" /\ position' = committed /\ claims' = claims
        /\ (pc \in PastClaim => msg \in orphaned')
    BY <1>12 DEF Restart, Rebalance, PastClaim
  <2>2. ClaimsSettled'
    BY <2>1, <1>0 DEF Stable, ClaimsSettled
  <2>3. FetchedAccounted'
    BY <2>1, <1>0, <1>a DEF Stable, FetchedAccounted
  <2>4. QED
    BY <2>1, <2>2, <2>3 DEF CommitSettled
<1>13. CASE \/ Refresh \/ TrainingSnapshot \/ Fit \/ FitRaises
            \/ \E new \in SUBSET Metrics : ChangeSensors(new)
            \/ UNCHANGED vars
  <2>1. UNCHANGED <<position, pc, claims, published, dlq, judged, orphaned, held>>
    BY <1>13 DEF Refresh, TrainingSnapshot, Fit, FitRaises, ChangeSensors, vars
  <2>2. QED
    BY <2>1 DEF ClaimsSettled, CommitSettled, FetchedAccounted, Accounted
<1>14. QED
  BY <1>1, <1>2, <1>3, <1>4, <1>5, <1>6, <1>7, <1>8, <1>9, <1>10, <1>11,
     <1>12, <1>13 DEF Next, Consume

\* The loop takes, accounts for, commits and takes again messages as the
\* abstract consumer group does.
LEMMA GroupStep ==
  LoopInv /\ GroupInv /\ [Next]_vars => [Group!Next]_(Group!vars)
<1> SUFFICES ASSUME LoopInv, GroupInv, [Next]_vars
             PROVE  [Group!Next]_(Group!vars)
  OBVIOUS
<1> USE DEF offsets, topics, outcome, Group!Next, Group!vars
<1>0. Accounted \subseteq Accounted'
  BY OutcomesAreStable
<1>a. /\ position \in 0..Len(Log) /\ Len(Log) \in Nat
      /\ (pc # "idle" => position \in 1..Len(Log))
  BY DetectorAssumptions DEF LoopInv
<1>b. ASSUME UNCHANGED <<position, committed>>
      PROVE  [Group!Next]_(Group!vars)
  BY <1>b, <1>0 DEF Group!Account
<1>1. CASE Poll
  <2>1. /\ pc = "idle" /\ position' = position + 1
        /\ UNCHANGED <<committed, published, dlq, judged, orphaned, held>>
    BY <1>1 DEF Poll
  <2>2. 1..position \subseteq Accounted
    BY <2>1 DEF GroupInv, FetchedAccounted
  <2>3. Accounted' = Accounted
    BY <2>1 DEF Accounted
  <2>4. QED
    BY <2>1, <2>2, <2>3 DEF Group!Fetch
<1>2. CASE Commit
  <2>1. /\ pc = "commit" /\ committed' = position
        /\ UNCHANGED <<position, published, dlq, judged, orphaned, held>>
    BY <1>2 DEF Commit
  <2>2. position \in Accounted
    BY <2>1, <1>a DEF GroupInv, CommitSettled, Settled, Accounted, msg
  <2>3. Accounted' = Accounted
    BY <2>1 DEF Accounted
  <2>4. QED
    BY <2>1, <2>2, <2>3 DEF Group!Commit
<1>3. CASE Restart \/ Rebalance
  <2>1. position' = committed /\ committed' = committed
    BY <1>3 DEF Restart, Rebalance
  <2>2. QED
    BY <2>1, <1>0 DEF Group!GoBack
<1>4. CASE \/ ClaimFirst \/ ClaimDuplicate \/ ClaimFails \/ Lookup \/ FeaturesFor
           \/ Observe \/ Score \/ ScoreRaises
  BY <1>4, <1>b DEF ClaimFirst, ClaimDuplicate, ClaimFails, Lookup, FeaturesFor,
                    Observe, Score, ScoreRaises
<1>5. CASE \/ PublishAnomaly \/ PublishFails \/ DeadLettered \/ DeadLetterFails
           \/ CommitFails
  BY <1>5, <1>b DEF PublishAnomaly, PublishFails, DeadLettered, DeadLetterFails,
                    CommitFails
<1>6. CASE \/ Refresh \/ TrainingSnapshot \/ Fit \/ FitRaises
           \/ \E new \in SUBSET Metrics : ChangeSensors(new)
           \/ UNCHANGED vars
  BY <1>6, <1>b DEF Refresh, TrainingSnapshot, Fit, FitRaises, ChangeSensors, vars
<1>7. QED
  BY <1>1, <1>2, <1>3, <1>4, <1>5, <1>6 DEF Next, Consume

\* The detector's consume loop implements the abstract consumer group, so no
\* message the group has passed is unaccounted for.
THEOREM DetectorIsConsumerGroup == Spec => ImplementsConsumerGroup
<1>1. Init => GroupInv /\ Group!Init
  <2>1. Init => Accounted = {}
    BY DEF Init, Accounted
  <2>2. QED
    BY <2>1 DEF Init, GroupInv, ClaimsSettled, CommitSettled, FetchedAccounted,
                Group!Init
<1>2. QED
  BY LoopInit, LoopNext, GroupNext, GroupStep, <1>1, PTL
     DEF Spec, ImplementsConsumerGroup, Group!Spec

-----------------------------------------------------------------------------
(* The vectors, the forest and the verdict. *)

\* Numbers are well-founded.
LEMMA LeastNumber ==
  ASSUME NEW T \in SUBSET Nat, T # {}
  PROVE  \E x \in T : \A y \in T : x <= y
<1> DEFINE Less == {p \in Nat \X Nat : p[1] < p[2]}
<1>1. IsWellFoundedOn(Less, Nat)
  BY NatLessThanWellFounded DEF OpToRel
<1>2. PICK x \in T : \A y \in T : <<y, x>> \notin Less
  <2> HIDE DEF Less
  <2>1. QED
    BY <1>1, WFMin, Zenon
<1>3. ASSUME NEW y \in T PROVE x <= y
  <2>1. x \in Nat /\ y \in Nat
    OBVIOUS
  <2>2. y < x => <<y, x>> \in Less
    BY <2>1
  <2>3. QED
    BY <1>2, <2>1, <2>2
<1>4. QED
  BY <1>3

\* Max is what it says of a bounded set of numbers.
LEMMA MaxOf ==
  ASSUME NEW S \in SUBSET Nat, S # {}, NEW n \in Nat, \A s \in S : s <= n
  PROVE  Max(S) \in S /\ \A s \in S : s <= Max(S)
<1> DEFINE Bounds == {b \in Nat : \A s \in S : s <= b}
<1>1. PICK b \in Bounds : \A y \in Bounds : b <= y
  <2>1. Bounds \subseteq Nat /\ Bounds # {}
    OBVIOUS
  <2> HIDE DEF Bounds
  <2>2. QED
    BY <2>1, LeastNumber
<1>2. b \in Nat /\ \A s \in S : s <= b
  OBVIOUS
<1>3. b \in S
  <2>1. ASSUME b \notin S PROVE FALSE
    <3>1. PICK s \in S : TRUE
      OBVIOUS
    <3>2. b > 0 /\ \A t \in S : t <= b - 1
      BY <1>2, <2>1, <3>1
    <3>3. b - 1 \in Bounds
      BY <1>2, <3>2
    <3>4. QED
      BY <1>1, <1>2, <3>3
  <2>2. QED
    BY <2>1
<1> HIDE DEF Bounds
<1>4. \E z \in S : \A y \in S : z >= y
  BY <1>2, <1>3
<1>5. Max(S) \in S /\ \A y \in S : Max(S) >= y
  BY <1>4, Zenon DEF Max
<1>6. QED
  BY <1>5

\* combine_detections reports the worst of the methods that fired.
LEMMA WorstOf ==
  ASSUME NEW a \in 0..3, NEW b \in 0..3, NEW c \in 0..3,
         NEW r, r = [RULE |-> a, STATISTICAL |-> b, ISOLATION_FOREST |-> c]
  PROVE  /\ combine_detections(r).severity \in 0..3
         /\ combine_detections(r).methods # {} => combine_detections(r).severity > 0
<1> DEFINE S == {r[m] : m \in DOMAIN r}
<1>1. S \subseteq 0..3 /\ S # {} 
  OBVIOUS
<1>2. combine_detections(r) =
        [severity |-> Max(S), methods |-> {m \in DOMAIN r : r[m] > 0}]
  BY DEF combine_detections
<1>3. Max(S) \in S /\ \A s \in S : s <= Max(S)
  <2> HIDE DEF S
  <2>1. S \in SUBSET Nat /\ \A s \in S : s <= 3
    BY <1>1
  <2>2. QED
    BY <1>1, <2>1, MaxOf
<1>4. Max(S) \in 0..3
  BY <1>1, <1>3
<1>5. ASSUME NEW m \in DOMAIN r, r[m] > 0 PROVE Max(S) > 0
  BY <1>1, <1>3, <1>4, <1>5
<1>6. QED
  BY <1>2, <1>4, <1>5

\* Trimming keeps the buffer within its size, never makes it shorter than it
\* was, and invents no vector.
LEMMA TrimmedKeeps ==
  ASSUME NEW S, NEW b \in Seq(S), NEW w \in S, Len(b) <= BufferSize
  PROVE  LET t == Trimmed(Append(b, w))
         IN  /\ t \in Seq(S) /\ Len(b) <= Len(t) /\ Len(t) <= BufferSize
             /\ \A i \in DOMAIN t : t[i] = w \/ \E j \in DOMAIN b : t[i] = b[j]
<1> DEFINE a == Append(b, w)
           t == Trimmed(a)
<1>0. BufferSize \in Nat
  BY DetectorAssumptions
<1>1. /\ a \in Seq(S) /\ Len(a) = Len(b) + 1 /\ Len(b) \in Nat
      /\ DOMAIN a = 1..(Len(b) + 1) /\ DOMAIN b = 1..Len(b)
  OBVIOUS
<1>2. \A i \in DOMAIN a : a[i] = w \/ \E j \in DOMAIN b : a[i] = b[j]
  BY <1>1
<1> HIDE DEF a
<1>3. CASE Len(a) > BufferSize
  <2>1. Len(b) = BufferSize /\ Len(a) - BufferSize + 1 = 2
    <3>1. \A m, n \in Nat : m <= n /\ m + 1 > n => m = n /\ (m + 1) - n + 1 = 2
      OBVIOUS
    <3>2. Len(b) \in Nat /\ Len(a) = Len(b) + 1
      BY <1>1
    <3>3. QED
      BY <1>0, <1>3, <3>1, <3>2
  <2>2. t = SubSeq(a, 2, Len(a))
    BY <1>3, <2>1 DEF Trimmed
  <2>3. t \in Seq(S) /\ Len(t) = Len(b) /\ \A i \in 1..Len(b) : t[i] = a[i + 1]
    BY <1>1, <2>2
  <2> HIDE DEF t
  <2>4. \A i \in DOMAIN t : i \in 1..Len(b) /\ i + 1 \in DOMAIN a
    BY <1>1, <2>3
  <2>5. \A i \in DOMAIN t : t[i] = w \/ \E j \in DOMAIN b : t[i] = b[j]
    BY <1>2, <2>3, <2>4
  <2>6. Len(b) <= Len(t) /\ Len(t) <= BufferSize
    BY <1>0, <1>1, <2>1, <2>3
  <2>7. QED
    BY <2>3, <2>5, <2>6 DEF a, t
<1>4. CASE Len(a) <= BufferSize
  <2>1. t = a
    BY <1>0, <1>1, <1>4 DEF Trimmed
  <2> HIDE DEF t
  <2>2. Len(b) <= Len(t) /\ Len(t) <= BufferSize
    BY <1>1, <1>4, <2>1
  <2>3. QED
    BY <1>1, <1>2, <2>1, <2>2 DEF a, t
<1>5. QED
  BY <1>0, <1>1, <1>3, <1>4

\* The widest vector there can be.
Widest == Cardinality(Metrics)

\* A subset has no more members.
LEMMA Widening ==
  ASSUME NEW A, NEW B, A \subseteq B, B \subseteq Metrics
  PROVE  /\ Cardinality(A) \in 0..Widest /\ Cardinality(A) <= Cardinality(B)
         /\ Cardinality(A) = 0 <=> A = {}
         /\ Cardinality(B) \in 0..Widest /\ Widest \in Nat
<1>1. IsFiniteSet(Metrics) /\ Widest \in Nat
  BY DetectorAssumptions, FS_CardinalityType DEF Widest
<1>2. /\ IsFiniteSet(B) /\ Cardinality(B) \in Nat /\ Cardinality(B) <= Widest
  BY <1>1, FS_Subset, FS_CardinalityType DEF Widest
<1>3. /\ IsFiniteSet(A) /\ Cardinality(A) \in Nat
      /\ Cardinality(A) <= Cardinality(B)
  BY <1>2, FS_Subset, FS_CardinalityType
<1>4. Cardinality(A) = 0 <=> A = {}
  BY <1>3, FS_EmptySet
<1>5. QED
  BY <1>1, <1>2, <1>3, <1>4

LEMMA EnoughIs ==
  LET least == Min({MinTraining, BufferSize})
  IN  least \in Nat /\ least <= MinTraining /\ least <= BufferSize
<1> DEFINE S == {MinTraining, BufferSize}
<1>1. \E x \in S : \A y \in S : x <= y
  BY DetectorAssumptions
<1>2. Min(S) \in S /\ \A y \in S : Min(S) <= y
  <2> HIDE DEF S
  <2>1. QED
    BY <1>1, Zenon DEF Min
<1>3. QED
  BY <1>2, DetectorAssumptions

\* The part of the memory only the loop, the catalog and the trainer change.
CatalogOk ==
  /\ sensors \cup removed \cup catalog \cup info \cup order \cup latest
       \subseteq Metrics
  /\ samples \in [Metrics -> Nat]

\* A buffer that once allowed training does so for as long as the forest or
\* the trainer rests on it.
TrainingOk ==
  /\ forest \in 0..Widest
  /\ buffer \in Seq(0..Widest) /\ Len(buffer) <= BufferSize
  /\ snapshot \in Seq(0..Widest)
  /\ trainer \in {"wait", "fit", "dead"}
  /\ trainer = "fit" => snapshot # <<>>
  /\ trainer # "wait" \/ forest > 0 => Len(buffer) >= Min({MinTraining, BufferSize})

\* A vector is as wide as the order it was made by.
VectorOk ==
  /\ vector \in 0..Widest
  /\ pc \notin {"observe", "score", "dead"} => order = {} /\ vector = 0
  /\ vector > 0 => order # {} /\ vector = Cardinality(order)

MemoryInv == CatalogOk /\ TrainingOk /\ VectorOk

Widths == {buffer[i] : i \in DOMAIN buffer}
            \cup {snapshot[i] : i \in DOMAIN snapshot} \cup {forest}

\* While no sensor was removed, what the catalog knew is still there, and no
\* vector anywhere is wider than the order of the message in hand.
GrowingInv ==
  removed = {} =>
    /\ pc # "dead"
    /\ catalog \subseteq sensors /\ order \subseteq catalog
    /\ \A w \in Widths : w <= Cardinality(catalog)
    /\ order # {} => \A w \in Widths : w <= Cardinality(order)

\* The steps that touch neither the memory, the catalog nor the trainer.
Quiet ==
  \/ Poll \/ ClaimFirst \/ ClaimDuplicate \/ ClaimFails
  \/ PublishAnomaly \/ PublishFails \/ DeadLettered \/ DeadLetterFails
  \/ Commit \/ CommitFails \/ Rebalance

LEMMA DetectorStepCases ==
  ASSUME [Next]_vars
  PROVE  \/ Quiet \/ Lookup \/ FeaturesFor \/ Observe \/ Score \/ ScoreRaises
         \/ Refresh \/ TrainingSnapshot \/ Fit \/ FitRaises
         \/ \E new \in SUBSET Metrics : ChangeSensors(new)
         \/ Restart \/ UNCHANGED vars
  BY DEF Next, Consume, Quiet

LEMMA QuietSteps ==
  ASSUME Quiet
  PROVE  /\ UNCHANGED <<database, catalog, info, order, vector, memory, training>>
         /\ pc \notin {"lookup", "features", "observe", "score", "dead"}
         /\ pc' \notin {"features", "observe", "score", "dead"}
<1> USE DEF reading
<1>1. CASE Poll \/ ClaimFirst \/ ClaimDuplicate \/ ClaimFails
  BY <1>1 DEF Poll, ClaimFirst, ClaimDuplicate, ClaimFails
<1>2. CASE PublishAnomaly \/ PublishFails \/ DeadLettered \/ DeadLetterFails
  BY <1>2 DEF PublishAnomaly, PublishFails, DeadLettered, DeadLetterFails,
              OnPublishError
<1>3. CASE Commit \/ CommitFails \/ Rebalance
  BY <1>3 DEF Commit, CommitFails, Rebalance
<1>4. QED
  BY <1>1, <1>2, <1>3 DEF Quiet

LEMMA MemoryInit == Init => MemoryInv
<1> SUFFICES ASSUME Init PROVE MemoryInv
  OBVIOUS
<1>1. Widest \in Nat
  BY Widening
<1>2. BufferSize \in Nat
  BY DetectorAssumptions
<1>3. CatalogOk
  BY DEF Init, CatalogOk
<1>4. TrainingOk
  BY <1>1, <1>2 DEF Init, TrainingOk
<1>5. VectorOk
  BY <1>1 DEF Init, VectorOk
<1>6. QED
  BY <1>3, <1>4, <1>5 DEF MemoryInv

\* What the loop folds a reading into.
LEMMA ObserveFolds ==
  ASSUME LoopInv, MemoryInv, Observe
  PROVE  /\ MemoryInv'
         /\ \A w \in Widths' : w \in Widths \/ (order # {} /\ w = Cardinality(order))
<1>1. /\ CatalogOk /\ TrainingOk /\ VectorOk /\ order \subseteq Metrics
  BY DEF MemoryInv, CatalogOk
<1>2. /\ msg \in Events /\ MetricOf[msg] \in Metrics
  BY DetectorAssumptions DEF LoopInv, Observe, PastClaim
<1>3. /\ Cardinality(order) \in 0..Widest /\ (Cardinality(order) = 0 <=> order = {})
      /\ Widest \in Nat
  BY <1>1, Widening
<1>4. /\ UNCHANGED <<sensors, removed, catalog, info, order>>
      /\ UNCHANGED <<forest, trainer, snapshot>>
      /\ samples' = [samples EXCEPT ![MetricOf[msg]] = @ + 1]
      /\ latest' \in {latest, latest \cup {MetricOf[msg]}} /\ pc' = "score"
  BY DEF Observe, database, training
<1>5. \/ vector' = 0 /\ buffer' = buffer
      \/ /\ order # {} /\ vector' = Cardinality(order)
         /\ buffer' = Trimmed(Append(buffer, Cardinality(order)))
  BY DEF Observe
<1>6. /\ buffer \in Seq(0..Widest) /\ Len(buffer) <= BufferSize
      /\ BufferSize \in Nat /\ Len(buffer) \in Nat
  BY <1>1, DetectorAssumptions DEF TrainingOk
<1>7. /\ buffer' \in Seq(0..Widest) /\ Len(buffer') <= BufferSize
      /\ Len(buffer') >= Len(buffer)
      /\ \A i \in DOMAIN buffer' : \/ order # {} /\ buffer'[i] = Cardinality(order)
                                   \/ \E j \in DOMAIN buffer : buffer'[i] = buffer[j]
  <2>1. CASE buffer' = buffer
    BY <1>6, <2>1
  <2>2. CASE order # {} /\ buffer' = Trimmed(Append(buffer, Cardinality(order)))
    <3> DEFINE t == Trimmed(Append(buffer, Cardinality(order)))
    <3>1. /\ t \in Seq(0..Widest) /\ Len(buffer) <= Len(t) /\ Len(t) <= BufferSize
          /\ \A i \in DOMAIN t : \/ t[i] = Cardinality(order)
                                \/ \E j \in DOMAIN buffer : t[i] = buffer[j]
      BY <1>3, <1>6, TrimmedKeeps
    <3>2. buffer' = t
      BY <2>2
    <3> HIDE DEF t
    <3>3. Len(t) \in Nat
      BY <3>1, LenProperties
    <3>4. Len(buffer') >= Len(buffer)
      BY <1>6, <3>1, <3>2, <3>3
    <3>5. QED
      BY <2>2, <3>1, <3>2, <3>4
  <2>3. QED
    BY <1>5, <2>1, <2>2
<1>8. CatalogOk'
  BY <1>1, <1>2, <1>4 DEF CatalogOk
<1>9. Len(buffer') \in Nat /\ Min({MinTraining, BufferSize}) \in Nat
  BY <1>7, EnoughIs
<1>10. trainer # "wait" \/ forest > 0 => Len(buffer') >= Min({MinTraining, BufferSize})
  <2>1. \A m, n, o \in Nat : m >= n /\ n >= o => m >= o
    OBVIOUS
  <2>2. QED
    BY <1>1, <1>6, <1>7, <1>9, <2>1 DEF TrainingOk
<1>11. TrainingOk'
  BY <1>1, <1>4, <1>7, <1>10 DEF TrainingOk
<1>12. VectorOk'
  BY <1>3, <1>4, <1>5 DEF VectorOk
<1>13. \A w \in Widths' : w \in Widths \/ (order # {} /\ w = Cardinality(order))
  BY <1>4, <1>7 DEF Widths
<1>14. QED
  BY <1>8, <1>11, <1>12, <1>13 DEF MemoryInv

\* A forest is as wide as one of the vectors it was trained on.
LEMMA FitWidth ==
  ASSUME MemoryInv, Fit
  PROVE  \E i \in DOMAIN snapshot : forest' = snapshot[i]
<1> DEFINE S == {snapshot[i] : i \in DOMAIN snapshot}
<1>1. snapshot \in Seq(0..Widest) /\ snapshot # <<>> /\ Widest \in Nat
  BY Widening DEF MemoryInv, TrainingOk, Fit
<1>2. S \in SUBSET Nat /\ S # {} /\ \A w \in S : w <= Widest
  <2>1. 1 \in DOMAIN snapshot
    BY <1>1
  <2>2. \A i \in DOMAIN snapshot : snapshot[i] \in 0..Widest
    BY <1>1
  <2>3. S \subseteq 0..Widest /\ snapshot[1] \in S
    BY <2>1, <2>2
  <2>4. QED
    BY <1>1, <2>3
<1>3. forest' = Max(S)
  BY DEF Fit, TrainedWidth
<1>4. Max(S) \in S
  <2> HIDE DEF S
  <2>1. QED
    BY <1>1, <1>2, MaxOf
<1>5. QED
  BY <1>3, <1>4

LEMMA MemoryNext == LoopInv /\ MemoryInv /\ [Next]_vars => MemoryInv'
<1> SUFFICES ASSUME LoopInv, MemoryInv, [Next]_vars PROVE MemoryInv'
  OBVIOUS
<1> USE DEF database, memory, training, reading
<1>0. /\ CatalogOk /\ TrainingOk /\ VectorOk
      /\ Widest \in Nat /\ BufferSize \in Nat /\ MinTraining \in Nat
  BY Widening, DetectorAssumptions DEF MemoryInv
<1>1. UNCHANGED <<sensors, removed, catalog, info, order, memory>> => CatalogOk'
  BY <1>0 DEF CatalogOk
<1>2. UNCHANGED <<buffer, training>> => TrainingOk'
  BY <1>0 DEF TrainingOk
<1>3. order' = {} /\ vector' = 0 => VectorOk'
  BY <1>0 DEF VectorOk
<1>4. UNCHANGED <<order, vector, pc>> => VectorOk'
  BY <1>0 DEF VectorOk
<1>5. CASE Quiet
  <2>1. UNCHANGED <<database, catalog, info, order, vector, memory, training>>
    BY <1>5, QuietSteps
  <2>2. order = {} /\ vector = 0
    BY <1>0, <1>5, QuietSteps DEF VectorOk
  <2>3. QED
    BY <1>1, <1>2, <1>3, <2>1, <2>2 DEF MemoryInv
<1>6. CASE Lookup
  <2>1. /\ order = {} /\ vector = 0 /\ info' = catalog
        /\ UNCHANGED <<database, catalog, order, vector, memory, training>>
    BY <1>0, <1>6 DEF Lookup, VectorOk
  <2>2. CatalogOk'
    BY <1>0, <2>1 DEF CatalogOk
  <2>3. QED
    BY <1>2, <1>3, <2>1, <2>2 DEF MemoryInv
<1>7. CASE FeaturesFor
  <2>1. /\ vector = 0 /\ order' = catalog /\ pc' = "observe"
        /\ UNCHANGED <<database, catalog, info, vector, memory, training>>
    BY <1>0, <1>7 DEF FeaturesFor, VectorOk
  <2>2. CatalogOk'
    BY <1>0, <2>1 DEF CatalogOk
  <2>3. VectorOk'
    BY <1>0, <2>1 DEF VectorOk
  <2>4. QED
    BY <1>2, <2>1, <2>2, <2>3 DEF MemoryInv
<1>8. CASE Observe
  BY <1>8, ObserveFolds
<1>9. CASE Score
  <2>1. /\ info' = {} /\ order' = {} /\ vector' = 0
        /\ UNCHANGED <<database, catalog, memory, training>>
    BY <1>9 DEF Score, ForgetReading
  <2>2. CatalogOk'
    BY <1>0, <2>1 DEF CatalogOk
  <2>3. QED
    BY <1>2, <1>3, <2>1, <2>2 DEF MemoryInv
<1>10. CASE ScoreRaises
  <2>1. /\ UNCHANGED <<database, catalog, reading, memory, training>>
        /\ pc' = "dead"
    BY <1>10 DEF ScoreRaises
  <2>2. VectorOk'
    BY <1>0, <2>1 DEF VectorOk
  <2>3. QED
    BY <1>1, <1>2, <2>1, <2>2 DEF MemoryInv
<1>11. CASE Refresh \/ \E new \in SUBSET Metrics : ChangeSensors(new)
  <2>1. /\ sensors' \subseteq Metrics /\ catalog' \subseteq Metrics
        /\ removed' \subseteq Metrics
        /\ UNCHANGED <<pc, reading, memory, training>>
    BY <1>0, <1>11 DEF Refresh, ChangeSensors, CatalogOk
  <2>2. CatalogOk'
    BY <1>0, <2>1 DEF CatalogOk
  <2>3. QED
    BY <1>2, <1>4, <2>1, <2>2 DEF MemoryInv
<1>12. CASE TrainingSnapshot
  <2>1. /\ UNCHANGED <<pc, database, catalog, reading, memory, forest>>
        /\ trainer' = "fit" /\ snapshot' = buffer /\ Len(buffer) >= MinTraining
    BY <1>12 DEF TrainingSnapshot, EnoughData
  <2>2. /\ buffer \in Seq(0..Widest) /\ Len(buffer) \in Nat
    BY <1>0 DEF TrainingOk
  <2>3. Len(buffer) >= Min({MinTraining, BufferSize})
    <3>1. \A m, n, o \in Nat : m >= n /\ o <= n => m >= o
      OBVIOUS
    <3>2. QED
      BY <1>0, <2>1, <2>2, <3>1, EnoughIs
  <2>4. buffer # <<>>
    BY <1>0, <2>1, DetectorAssumptions
  <2>5. TrainingOk'
    BY <1>0, <2>1, <2>2, <2>3, <2>4 DEF TrainingOk
  <2>6. QED
    BY <1>1, <1>4, <2>1, <2>5 DEF MemoryInv
<1>13. CASE Fit
  <2>1. /\ UNCHANGED <<pc, database, catalog, reading, memory>>
        /\ trainer = "fit" /\ trainer' = "wait" /\ snapshot' = <<>>
    BY <1>13 DEF Fit
  <2>2. forest' \in 0..Widest
    BY <1>0, <1>13, FitWidth DEF TrainingOk
  <2>3. TrainingOk'
    BY <1>0, <2>1, <2>2 DEF TrainingOk
  <2>4. QED
    BY <1>1, <1>4, <2>1, <2>3 DEF MemoryInv
<1>14. CASE FitRaises
  <2>1. /\ UNCHANGED <<pc, database, catalog, reading, memory, forest, snapshot>>
        /\ trainer = "fit" /\ trainer' = "dead"
    BY <1>14 DEF FitRaises
  <2>2. TrainingOk'
    BY <1>0, <2>1 DEF TrainingOk
  <2>3. QED
    BY <1>1, <1>4, <2>1, <2>2 DEF MemoryInv
<1>15. CASE Restart
  <2>1. /\ UNCHANGED database /\ catalog' = sensors
        /\ info' = {} /\ order' = {} /\ vector' = 0
        /\ samples' = [m \in Metrics |-> 0] /\ latest' = {} /\ buffer' = <<>>
        /\ forest' = 0 /\ trainer' = "wait" /\ snapshot' = <<>>
    BY <1>15 DEF Restart, EmptyMemory, ForgetReading
  <2>2. CatalogOk'
    BY <1>0, <2>1 DEF CatalogOk
  <2>3. TrainingOk'
    BY <1>0, <2>1 DEF TrainingOk
  <2>4. QED
    BY <1>3, <2>1, <2>2, <2>3 DEF MemoryInv
<1>16. CASE UNCHANGED vars
  BY <1>1, <1>2, <1>4, <1>16 DEF vars, MemoryInv
<1>17. QED
  BY <1>5, <1>6, <1>7, <1>8, <1>9, <1>10, <1>11, <1>12, <1>13, <1>14, <1>15,
     <1>16, DetectorStepCases

LEMMA GrowingNext ==
  LoopInv /\ MemoryInv /\ GrowingInv /\ [Next]_vars => GrowingInv'
<1> SUFFICES ASSUME LoopInv, MemoryInv, GrowingInv, [Next]_vars, removed' = {}
             PROVE  /\ pc' # "dead"
                    /\ catalog' \subseteq sensors' /\ order' \subseteq catalog'
                    /\ \A w \in Widths' : w <= Cardinality(catalog')
                    /\ order' # {} => \A w \in Widths' : w <= Cardinality(order')
  BY DEF GrowingInv
<1> DEFINE Goal == /\ pc' # "dead"
                   /\ catalog' \subseteq sensors' /\ order' \subseteq catalog'
                   /\ \A w \in Widths' : w <= Cardinality(catalog')
                   /\ order' # {} => \A w \in Widths' : w <= Cardinality(order')
<1> USE DEF database, memory, training, reading
<1>0. /\ CatalogOk /\ TrainingOk /\ VectorOk /\ Widest \in Nat
  BY Widening DEF MemoryInv
\* A sensor that was ever removed stays remembered.
<1>1. removed = {} /\ sensors \subseteq sensors'
  <2>1. ASSUME NEW new \in SUBSET Metrics, ChangeSensors(new)
        PROVE  removed = {} /\ sensors \subseteq sensors'
    BY <2>1, Zenon DEF ChangeSensors
  <2>2. CASE UNCHANGED database
    BY <2>2
  <2>3. QED
    BY <2>1, <2>2, DetectorStepCases, QuietSteps
       DEF Lookup, FeaturesFor, Observe, Score, ScoreRaises, Refresh,
           TrainingSnapshot, Fit, FitRaises, Restart, vars
<1>2. /\ pc # "dead" /\ catalog \subseteq sensors /\ order \subseteq catalog
      /\ \A w \in Widths : w <= Cardinality(catalog)
      /\ order # {} => \A w \in Widths : w <= Cardinality(order)
  BY <1>1 DEF GrowingInv
<1>3. \A w \in Widths : w \in 0..Widest
  BY <1>0 DEF TrainingOk, Widths
<1>4. /\ Cardinality(order) \in 0..Widest /\ Cardinality(catalog) \in 0..Widest
      /\ Cardinality(order) <= Cardinality(catalog)
      /\ Cardinality(sensors) \in 0..Widest
      /\ Cardinality(catalog) <= Cardinality(sensors)
  BY <1>0, <1>2, Widening DEF CatalogOk
\* Steps of the loop that add no vector.
<1>5. ASSUME Widths' \subseteq Widths, catalog' = catalog, pc' # "dead",
             order' \in {order, {}, catalog}
      PROVE  Goal
  BY <1>1, <1>2, <1>5
<1>6. CASE Quiet
  <2>1. /\ UNCHANGED <<catalog, order, memory, training>> /\ pc' # "dead"
    BY <1>6, QuietSteps
  <2>2. Widths' = Widths
    BY <2>1 DEF Widths
  <2>3. QED
    BY <1>5, <2>1, <2>2
<1>7. CASE Lookup \/ FeaturesFor \/ Score
  <2>1. /\ UNCHANGED <<catalog, memory, training>> /\ pc' # "dead"
        /\ order' \in {order, {}, catalog}
    BY <1>7 DEF Lookup, FeaturesFor, Score, ForgetReading
  <2>2. Widths' = Widths
    BY <2>1 DEF Widths
  <2>3. QED
    BY <1>5, <2>1, <2>2
<1>8. CASE Observe
  <2>1. UNCHANGED <<catalog, sensors, order>> /\ pc' # "dead"
    BY <1>8 DEF Observe
  <2>2. \A w \in Widths' : w \in Widths \/ (order # {} /\ w = Cardinality(order))
    BY <1>8, ObserveFolds
  <2>3. \A w \in Widths' : w <= Cardinality(catalog)
    BY <1>2, <1>4, <2>2
  <2>4. order # {} => \A w \in Widths' : w <= Cardinality(order)
    BY <1>2, <1>4, <2>2
  <2>5. QED
    BY <1>2, <2>1, <2>3, <2>4
\* The loop cannot meet a forest wider than its vector.
<1>9. CASE ScoreRaises
  <2>1. 0 < vector /\ vector < forest
    BY <1>9 DEF ScoreRaises
  <2>2. order # {} /\ vector = Cardinality(order)
    BY <1>0, <2>1 DEF VectorOk
  <2>3. forest <= Cardinality(order)
    BY <1>2, <2>2 DEF Widths
  <2>4. FALSE
    BY <1>0, <1>4, <2>1, <2>2, <2>3 DEF TrainingOk
  <2>5. QED
    BY <2>4
<1>10. CASE Refresh
  <2>1. /\ catalog' = sensors /\ UNCHANGED <<sensors, order, pc, memory, training>>
    BY <1>10 DEF Refresh
  <2>2. Widths' = Widths
    BY <2>1 DEF Widths
  <2>3. \A w \in Widths : w <= Cardinality(sensors)
    <3>1. \A w \in Widths : w \in Nat /\ w <= Cardinality(catalog)
      BY <1>2, <1>3
    <3>2. QED
      BY <1>4, <3>1
  <2>4. QED
    BY <1>2, <2>1, <2>2, <2>3
<1>11. ASSUME NEW new \in SUBSET Metrics, ChangeSensors(new) PROVE Goal
  <2>1. UNCHANGED <<catalog, order, pc, memory, training>>
    BY <1>11 DEF ChangeSensors
  <2>2. Widths' = Widths
    BY <2>1 DEF Widths
  <2>3. QED
    BY <1>2, <1>5, <2>1, <2>2
<1>12. CASE TrainingSnapshot \/ FitRaises
  <2>1. /\ UNCHANGED <<catalog, order, pc, memory, forest>>
        /\ snapshot' \in {snapshot, buffer}
    BY <1>12 DEF TrainingSnapshot, FitRaises
  <2>2. Widths' \subseteq Widths
    BY <2>1 DEF Widths
  <2>3. QED
    BY <1>2, <1>5, <2>1, <2>2
<1>13. CASE Fit
  <2>1. UNCHANGED <<catalog, order, pc, memory>> /\ snapshot' = <<>>
    BY <1>13 DEF Fit
  <2>2. \E i \in DOMAIN snapshot : forest' = snapshot[i]
    BY <1>13, FitWidth
  <2>3. Widths' \subseteq Widths
    BY <2>1, <2>2 DEF Widths
  <2>4. QED
    BY <1>2, <1>5, <2>1, <2>3
<1>14. CASE Restart
  <2>1. /\ catalog' = sensors /\ UNCHANGED sensors /\ order' = {} /\ pc' = "idle"
        /\ buffer' = <<>> /\ snapshot' = <<>> /\ forest' = 0
    BY <1>14 DEF Restart, EmptyMemory, ForgetReading
  <2>2. Widths' = {0}
    BY <2>1 DEF Widths
  <2>3. QED
    BY <1>4, <2>1, <2>2
<1>15. CASE UNCHANGED vars
  <2>1. UNCHANGED <<catalog, order, pc, memory, training>>
    BY <1>15 DEF vars
  <2>2. Widths' = Widths
    BY <2>1 DEF Widths
  <2>3. QED
    BY <1>2, <1>5, <2>1, <2>2
<1>16. QED
  BY <1>6, <1>7, <1>8, <1>9, <1>10, <1>11, <1>12, <1>13, <1>14, <1>15,
     DetectorStepCases

\* Scoring ends the consume loop only after a sensor was removed: between
\* lookups, refreshes, training and restarts in any order, a vector is never
\* narrower than those its forest was trained on while metrics are only added.
THEOREM DetectorLoopDies == Spec => []LoopDiesOnlyAfterRemoval
<1>1. Init => GrowingInv
  <2> SUFFICES ASSUME Init PROVE GrowingInv
    OBVIOUS
  <2>1. Widths = {0} /\ order = {} /\ pc = "idle" /\ catalog = sensors
    BY DEF Init, Widths
  <2>2. Cardinality(catalog) \in 0..Widest /\ Widest \in Nat
    BY Widening DEF Init
  <2>3. QED
    BY <2>1, <2>2 DEF GrowingInv
<1>2. GrowingInv => LoopDiesOnlyAfterRemoval
  BY DEF GrowingInv, LoopDiesOnlyAfterRemoval
<1>3. QED
  BY LoopInit, LoopNext, MemoryInit, MemoryNext, GrowingNext, <1>1, <1>2, PTL
     DEF Spec

\* What each method reports, and what it takes to fire.
LEMMA RuleFires ==
  ASSUME NEW v \in Int
  PROVE  rule_check(v) \in 0..3
  BY DEF rule_check

LEMMA StatFires ==
  ASSUME NEW z \in Nat, NEW n \in Nat
  PROVE  stat_check(z, n) \in 0..3 /\ (stat_check(z, n) > 0 => n >= MinSamples)
  BY DetectorAssumptions DEF stat_check

LEMMA ForestFires ==
  ASSUME NEW x
  PROVE  isolation_check(x) \in 0..3
  BY DEF isolation_check

\* What the loop may find in the catalog is in the sensors table or was.
RangeInv == catalog \cup info \subseteq sensors \cup removed

LEMMA RangeNext ==
  RangeInv /\ [Next]_vars =>
    RangeInv' /\ sensors \cup removed \subseteq sensors' \cup removed'
<1> SUFFICES ASSUME RangeInv, [Next]_vars
             PROVE  /\ RangeInv'
                    /\ sensors \cup removed \subseteq sensors' \cup removed'
  OBVIOUS
<1> USE DEF RangeInv, database, reading
<1>1. ASSUME NEW new \in SUBSET Metrics, ChangeSensors(new)
      PROVE  /\ sensors \cup removed \subseteq sensors' \cup removed'
             /\ UNCHANGED <<catalog, info>>
  BY <1>1 DEF ChangeSensors
<1>2. CASE Refresh \/ Restart
  BY <1>2 DEF Refresh, Restart, ForgetReading
<1>3. CASE Lookup \/ Score
  BY <1>3 DEF Lookup, Score, ForgetReading
<1>4. CASE FeaturesFor \/ Observe \/ ScoreRaises
  BY <1>4 DEF FeaturesFor, Observe, ScoreRaises
<1>5. CASE TrainingSnapshot \/ Fit \/ FitRaises \/ UNCHANGED vars
  BY <1>5 DEF TrainingSnapshot, Fit, FitRaises, vars
<1>6. CASE Quiet
  BY <1>6, QuietSteps
<1>7. QED
  BY <1>1, <1>2, <1>3, <1>4, <1>5, <1>6, DetectorStepCases

\* A series has counted no more readings than entered its baseline.
CountedOnce(m) ==
  IsFiniteSet(Readings(m)) /\ samples[m] <= Cardinality(Readings(m))

SampleInv == \A m \in Metrics : CountedOnce(m)

LEMMA SampleNext ==
  LoopInv /\ MemoryInv /\ FoldInv /\ SampleInv /\ [Next]_vars => SampleInv'
<1> SUFFICES ASSUME LoopInv, MemoryInv, FoldInv, SampleInv, [Next]_vars,
                    NEW m \in Metrics
             PROVE  CountedOnce(m)'
  BY DEF SampleInv
<1> USE DEF memory
<1>0. /\ CountedOnce(m) /\ samples \in [Metrics -> Nat]
      /\ folded \in [Events -> Nat]
  BY DEF SampleInv, LoopInv, MemoryInv, CatalogOk
<1>1. UNCHANGED <<samples, folded>> => CountedOnce(m)'
  BY <1>0 DEF CountedOnce, Readings
<1>2. CASE Observe
  <2>1. /\ msg \in Events /\ folded' = [folded EXCEPT ![msg] = @ + 1]
        /\ samples' = [samples EXCEPT ![MetricOf[msg]] = @ + 1]
    BY <1>2 DEF Observe, LoopInv, PastClaim
  <2>2. folded[msg] = 0
    <3>1. folded[msg] + 1 <= Claim(msg)
      BY <1>2, <2>1 DEF FoldInv, ToFold, Observe
    <3>2. QED
      BY <1>0, <2>1, <3>1 DEF Claim
  <2>3. CASE MetricOf[msg] = m
    <3>1. /\ Readings(m)' = Readings(m) \cup {msg} /\ msg \notin Readings(m)
          /\ samples'[m] = samples[m] + 1 /\ samples[m] \in Nat
      BY <1>0, <2>1, <2>2, <2>3 DEF Readings
    <3>2. /\ IsFiniteSet(Readings(m) \cup {msg})
          /\ Cardinality(Readings(m) \cup {msg}) = Cardinality(Readings(m)) + 1
          /\ Cardinality(Readings(m)) \in Nat
      BY <1>0, <3>1, FS_AddElement, FS_CardinalityType DEF CountedOnce
    <3>3. QED
      BY <1>0, <3>1, <3>2 DEF CountedOnce
  <2>4. CASE MetricOf[msg] # m
    <3>1. Readings(m)' = Readings(m) /\ samples'[m] = samples[m]
      BY <1>0, <2>1, <2>2, <2>4 DEF Readings
    <3>2. QED
      BY <1>0, <3>1 DEF CountedOnce
  <2>5. QED
    BY <2>3, <2>4
<1>3. CASE Restart
  <2>1. samples'[m] = 0 /\ Readings(m)' = Readings(m)
    BY <1>3 DEF Restart, EmptyMemory, Readings
  <2>2. Cardinality(Readings(m)) \in Nat
    BY <1>0, FS_CardinalityType DEF CountedOnce
  <2>3. QED
    BY <1>0, <2>1, <2>2 DEF CountedOnce
<1>4. CASE Quiet
  <2>1. CASE Poll \/ ClaimFirst \/ ClaimDuplicate \/ ClaimFails \/ Rebalance
    BY <1>1, <2>1 DEF Poll, ClaimFirst, ClaimDuplicate, ClaimFails, Rebalance
  <2>2. CASE PublishAnomaly \/ PublishFails \/ DeadLettered \/ DeadLetterFails
    BY <1>1, <2>2 DEF PublishAnomaly, PublishFails, DeadLettered, DeadLetterFails
  <2>3. CASE Commit \/ CommitFails
    BY <1>1, <2>3 DEF Commit, CommitFails
  <2>4. QED
    BY <1>4, <2>1, <2>2, <2>3 DEF Quiet
<1>5. CASE Lookup \/ FeaturesFor \/ Score \/ ScoreRaises
  BY <1>1, <1>5 DEF Lookup, FeaturesFor, Score, ScoreRaises
<1>6. CASE \/ Refresh \/ TrainingSnapshot \/ Fit \/ FitRaises
           \/ \E new \in SUBSET Metrics : ChangeSensors(new)
           \/ UNCHANGED vars
  BY <1>1, <1>6 DEF Refresh, TrainingSnapshot, Fit, FitRaises, ChangeSensors, vars
<1>7. QED
  BY <1>2, <1>3, <1>4, <1>5, <1>6, DetectorStepCases

\* A verdict names only methods that had the data to judge by.
LEMMA ScoreGrounds ==
  ASSUME LoopInv, MemoryInv, RangeInv, SampleInv, Score
  PROVE  /\ anomaly'.severity \in 0..3
         /\ "RULE" \in anomaly'.methods => MetricOf[msg] \in sensors \cup removed
         /\ "STATISTICAL" \in anomaly'.methods =>
              Cardinality(Readings(MetricOf[msg])) >= MinSamples
         /\ "ISOLATION_FOREST" \in anomaly'.methods =>
              Len(buffer) >= Min({MinTraining, BufferSize})
<1>1. PICK z \in ZScores, x \in ForestScores :
        anomaly' = combine_detections(run_detectors(msg, z, x))
  BY DEF Score
<1>2. /\ msg \in Events /\ Value[msg] \in Int /\ MetricOf[msg] \in Metrics
      /\ samples[MetricOf[msg]] \in Nat
  BY DetectorAssumptions DEF LoopInv, MemoryInv, CatalogOk, Score, PastClaim
<1> DEFINE r == run_detectors(msg, z, x)
           n == samples[MetricOf[msg]]
           a == IF has_range(msg) THEN rule_check(Value[msg]) ELSE 0
           b == stat_check(z_score(n, z), n)
           c == IF vector > 0 /\ forest > 0 THEN isolation_check(x) ELSE 0
<1>3. r = [RULE |-> a, STATISTICAL |-> b, ISOLATION_FOREST |-> c]
  BY DEF run_detectors
<1>4. a \in 0..3 /\ (a > 0 => MetricOf[msg] \in sensors \cup removed)
  BY <1>2, RuleFires DEF has_range, RangeInv
<1>5. b \in 0..3 /\ (b > 0 => Cardinality(Readings(MetricOf[msg])) >= MinSamples)
  <2>1. z_score(n, z) \in Nat
    BY DetectorAssumptions DEF z_score
  <2>2. b \in 0..3 /\ (b > 0 => n >= MinSamples)
    BY <1>2, <2>1, StatFires
  <2>3. CountedOnce(MetricOf[msg])
    BY <1>2 DEF SampleInv
  <2>4. /\ n <= Cardinality(Readings(MetricOf[msg])) /\ n \in Nat
        /\ Cardinality(Readings(MetricOf[msg])) \in Nat
    BY <1>2, <2>3, FS_CardinalityType DEF CountedOnce
  <2>5. \A i, j, k \in Nat : i >= j /\ i <= k => k >= j
    OBVIOUS
  <2>6. QED
    <3> HIDE DEF b, n
    <3>1. QED
      BY <2>2, <2>4, <2>5, DetectorAssumptions
<1>6. c \in 0..3 /\ (c > 0 => Len(buffer) >= Min({MinTraining, BufferSize}))
  BY ForestFires DEF MemoryInv, TrainingOk
<1> HIDE DEF r, n, a, b, c
<1>7. anomaly'.severity \in 0..3
  BY <1>1, <1>3, <1>4, <1>5, <1>6, WorstOf DEF r
<1>8. anomaly'.methods = {m \in DOMAIN r : r[m] > 0}
  BY <1>1 DEF combine_detections, r
<1>9. /\ "RULE" \in anomaly'.methods => a > 0
      /\ "STATISTICAL" \in anomaly'.methods => b > 0
      /\ "ISOLATION_FOREST" \in anomaly'.methods => c > 0
  BY <1>3, <1>8
<1>10. QED
  BY <1>4, <1>5, <1>6, <1>7, <1>9

VerdictInv == anomaly.severity \in 0..3 /\ AnomalyIsGrounded

\* All that a verdict rests on.
GroundInv == LoopInv /\ FoldInv /\ MemoryInv /\ RangeInv /\ SampleInv

LEMMA GroundInit == Init => GroundInv
<1> SUFFICES ASSUME Init PROVE GroundInv
  OBVIOUS
<1>1. FoldInv
  BY DEF Init, FoldInv, ToFold, Claim
<1>2. RangeInv
  BY DEF Init, RangeInv
<1>3. SampleInv
  <2>1. ASSUME NEW m \in Metrics PROVE CountedOnce(m)
    <3>1. Readings(m) = {} /\ samples[m] = 0
      BY DEF Init, Readings
    <3>2. QED
      BY <3>1, FS_EmptySet DEF CountedOnce
  <2>2. QED
    BY <2>1 DEF SampleInv
<1>4. QED
  BY <1>1, <1>2, <1>3, LoopInit, MemoryInit DEF GroundInv

LEMMA GroundNext == GroundInv /\ [Next]_vars => GroundInv'
  BY LoopNext, FoldNext, MemoryNext, RangeNext, SampleNext DEF GroundInv

LEMMA VerdictNext == GroundInv /\ VerdictInv /\ [Next]_vars => VerdictInv'
<1> SUFFICES ASSUME GroundInv, VerdictInv, [Next]_vars PROVE VerdictInv'
  OBVIOUS
<1>0. /\ LoopInv /\ MemoryInv /\ RangeInv /\ SampleInv
      /\ sensors \cup removed \subseteq sensors' \cup removed'
  BY RangeNext DEF GroundInv
<1> USE DEF msg, offsets, memory, reading
<1>1. ASSUME anomaly' \in {anomaly, None}, pc' # "publish" PROVE VerdictInv'
  BY <1>1 DEF VerdictInv, AnomalyIsGrounded, None
<1>2. ASSUME UNCHANGED <<anomaly, pc, position, folded, buffer>> PROVE VerdictInv'
  BY <1>0, <1>2 DEF VerdictInv, AnomalyIsGrounded, Readings
<1>3. CASE Score
  <2>1. UNCHANGED <<position, folded, buffer, sensors, removed>>
    BY <1>3 DEF Score, database
  <2>2. QED
    BY <1>0, <1>3, <2>1, ScoreGrounds DEF VerdictInv, AnomalyIsGrounded, Readings
<1>4. CASE Quiet
  <2>1. CASE Poll \/ ClaimFirst \/ ClaimDuplicate \/ ClaimFails \/ Rebalance
    BY <1>1, <2>1 DEF Poll, ClaimFirst, ClaimDuplicate, ClaimFails, Rebalance
  <2>2. CASE PublishAnomaly \/ PublishFails \/ DeadLettered \/ DeadLetterFails
    BY <1>1, <2>2 DEF PublishAnomaly, PublishFails, DeadLettered, DeadLetterFails,
       OnPublishError
  <2>3. CASE Commit \/ CommitFails
    BY <1>1, <2>3 DEF Commit, CommitFails
  <2>4. QED
    BY <1>4, <2>1, <2>2, <2>3 DEF Quiet
<1>5. CASE Lookup \/ FeaturesFor \/ Observe \/ ScoreRaises \/ Restart
  BY <1>1, <1>5 DEF Lookup, FeaturesFor, Observe, ScoreRaises, Restart
<1>6. CASE \/ Refresh \/ TrainingSnapshot \/ Fit \/ FitRaises
           \/ \E new \in SUBSET Metrics : ChangeSensors(new)
           \/ UNCHANGED vars
  BY <1>2, <1>6 DEF Refresh, TrainingSnapshot, Fit, FitRaises, ChangeSensors, vars
<1>7. QED
  BY <1>3, <1>4, <1>5, <1>6, DetectorStepCases

\* An anomaly that is published has its data behind it, for any log, thresholds,
\* catalogs and restarts: a RULE verdict is about a metric that the sensors table
\* lists or listed, a STATISTICAL one rests on enough different readings, and an
\* ISOLATION_FOREST one on a buffer as large as training asks for.
THEOREM DetectorAnomalyGrounded == Spec => []AnomalyIsGrounded
<1>1. Init => VerdictInv
  BY DEF Init, VerdictInv, AnomalyIsGrounded, None
<1>2. VerdictInv => AnomalyIsGrounded
  BY DEF VerdictInv
<1>3. QED
  BY GroundInit, GroundNext, VerdictNext, <1>1, <1>2, PTL DEF Spec

\* Only events are claimed, published, judged or orphaned, and only offsets of
\* the log held back.
OutcomeInv ==
  /\ claims \cup published \cup judged \cup orphaned \subseteq Events
  /\ dlq \subseteq Events \cup {Malformed} /\ held \subseteq 1..Len(Log)
  /\ changes \in Nat /\ faults \in Nat /\ restarts \in Nat

LEMMA OutcomeNext == LoopInv /\ OutcomeInv /\ [Next]_vars => OutcomeInv'
<1> SUFFICES ASSUME LoopInv, OutcomeInv, [Next]_vars PROVE OutcomeInv'
  OBVIOUS
<1> USE DEF topics, outcome, env, database
<1> DEFINE Counted == changes' \in Nat /\ faults' \in Nat /\ restarts' \in Nat
<1>0. /\ (pc \in PastClaim \cup {"claim"} => msg \in Events)
      /\ (pc # "idle" => /\ position \in 1..Len(Log)
                         /\ msg \in Events \cup {Malformed})
  BY DetectorAssumptions DEF LoopInv, msg
<1>1. (Fault \/ UNCHANGED faults) /\ UNCHANGED <<changes, restarts>> => Counted
  BY DEF OutcomeInv, Fault
<1>2. ASSUME Counted, UNCHANGED <<claims, published, judged, orphaned, dlq, held>>
      PROVE  OutcomeInv'
  BY <1>2 DEF OutcomeInv
<1>3. CASE Poll \/ ClaimDuplicate \/ Commit \/ CommitFails
  <2>1. Counted
    BY <1>1, <1>3 DEF Poll, ClaimDuplicate, Commit, CommitFails
  <2>2. QED
    BY <1>2, <1>3, <2>1 DEF Poll, ClaimDuplicate, Commit, CommitFails
<1>4. CASE ClaimFirst \/ ClaimFails
  <2>1. Counted
    BY <1>1, <1>4 DEF ClaimFirst, ClaimFails
  <2>2. /\ claims' \in {claims, claims \cup {msg}} /\ msg \in Events
        /\ orphaned' \in {orphaned, orphaned \cup {msg}}
        /\ held' \in {held, held \cup {position}} /\ position \in 1..Len(Log)
        /\ UNCHANGED <<published, judged, dlq>>
    BY <1>0, <1>4 DEF ClaimFirst, ClaimFails
  <2>3. QED
    BY <2>1, <2>2 DEF OutcomeInv
<1>5. CASE Lookup \/ FeaturesFor \/ Observe \/ ScoreRaises
  <2>1. Counted
    BY <1>1, <1>5 DEF Lookup, FeaturesFor, Observe, ScoreRaises
  <2>2. QED
    BY <1>2, <1>5, <2>1 DEF Lookup, FeaturesFor, Observe, ScoreRaises
<1>6. CASE Score \/ PublishAnomaly \/ PublishFails
  <2>1. Counted
    BY <1>1, <1>6 DEF Score, PublishAnomaly, PublishFails
  <2>2. /\ published' \in {published, published \cup {msg}} /\ msg \in Events
        /\ judged' \in {judged, judged \cup {msg}}
        /\ UNCHANGED <<claims, orphaned, dlq, held>>
    BY <1>0, <1>6 DEF Score, PublishAnomaly, PublishFails, PastClaim
  <2>3. QED
    BY <2>1, <2>2 DEF OutcomeInv
<1>7. CASE DeadLettered \/ DeadLetterFails
  <2>1. Counted
    BY <1>1, <1>7 DEF DeadLettered, DeadLetterFails
  <2>2. /\ dlq' \in {dlq, dlq \cup {msg}} /\ msg \in Events \cup {Malformed}
        /\ held' \in {held, held \cup {position}} /\ position \in 1..Len(Log)
        /\ orphaned' \subseteq orphaned \cup Events
        /\ UNCHANGED <<claims, published, judged>>
    BY <1>0, <1>7 DEF DeadLettered, DeadLetterFails, PastClaim
  <2>3. QED
    BY <2>1, <2>2 DEF OutcomeInv
<1>8. CASE Restart \/ Rebalance
  <2>1. Counted
    BY <1>8 DEF Restart, Rebalance, OutcomeInv
  <2>2. /\ orphaned' \subseteq orphaned \cup Events
        /\ UNCHANGED <<claims, published, judged, dlq, held>>
    BY <1>0, <1>8 DEF Restart, Rebalance
  <2>3. QED
    BY <2>1, <2>2 DEF OutcomeInv
<1>9. CASE \/ Refresh \/ TrainingSnapshot \/ Fit \/ FitRaises
           \/ \E new \in SUBSET Metrics : ChangeSensors(new)
           \/ UNCHANGED vars
  <2>1. Counted
    BY <1>9 DEF Refresh, TrainingSnapshot, Fit, FitRaises, ChangeSensors, vars,
       OutcomeInv
  <2>2. QED
    BY <1>2, <1>9, <2>1 DEF Refresh, TrainingSnapshot, Fit, FitRaises,
       ChangeSensors, vars
<1>10. QED
  BY <1>3, <1>4, <1>5, <1>6, <1>7, <1>8, <1>9 DEF Next, Consume

\* The detector's state keeps its types, the training buffer its size, and the
\* severity of a verdict its range, for every log and catalog.
THEOREM DetectorType == Spec => []TypeOK
<1> DEFINE TInv == GroundInv /\ VerdictInv /\ OutcomeInv
<1>1. Init => TInv
  <2>1. Init => VerdictInv /\ OutcomeInv
    BY DEF Init, VerdictInv, AnomalyIsGrounded, None, OutcomeInv
  <2>2. QED
    BY <2>1, GroundInit
<1>2. TInv /\ [Next]_vars => TInv'
  <2>1. GroundInv => LoopInv
    BY DEF GroundInv
  <2>2. QED
    BY <2>1, GroundNext, VerdictNext, OutcomeNext
<1>3. TInv => TypeOK
  <2> SUFFICES ASSUME TInv PROVE TypeOK
    OBVIOUS
  <2>1. /\ committed \in 0..position /\ position \in 0..Len(Log)
        /\ pc \in Steps /\ (pc # "idle" => position > 0)
        /\ folded \in [Events -> Nat]
    BY DEF GroundInv, LoopInv
  <2>2. /\ vector \in Nat /\ forest \in Nat
        /\ buffer \in Seq(Nat) /\ Len(buffer) <= BufferSize
        /\ snapshot \in Seq(Nat)
        /\ trainer \in {"wait", "fit", "dead"}
    <3>1. 0..Widest \subseteq Nat
      BY Widening
    <3>2. QED
      BY <3>1, SeqMonotonic DEF GroundInv, MemoryInv, TrainingOk, VectorOk
  <2>3. /\ sensors \cup removed \cup catalog \cup info \cup order \cup latest
             \subseteq Metrics
        /\ samples \in [Metrics -> Nat]
    BY DEF GroundInv, MemoryInv, CatalogOk
  <2>4. QED
    BY <2>1, <2>2, <2>3 DEF TypeOK, VerdictInv, OutcomeInv
<1>4. QED
  BY <1>1, <1>2, <1>3, PTL DEF Spec
=============================================================================
