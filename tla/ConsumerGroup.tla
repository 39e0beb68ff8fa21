---------------------------- MODULE ConsumerGroup ----------------------------
(***************************************************************************)
(* What a consume loop of this system promises of its partition.  A        *)
(* message is accounted for once its effect is durable or its loss has a   *)
(* recorded cause.  The loop takes the next message only when everything   *)
(* fetched before is accounted for, commits only a message that is, and    *)
(* goes back to the committed offset when it restarts or the group         *)
(* rebalances.  So whatever the group has passed is accounted for.         *)
(***************************************************************************)
EXTENDS Naturals

VARIABLES position,   \* messages fetched
          committed,  \* the group's committed offset
          accounted   \* offsets whose message is handled or its loss explained

vars == <<position, committed, accounted>>

Init == position = 0 /\ committed = 0 /\ accounted = {}

Fetch ==
  /\ 1..position \subseteq accounted
  /\ position' = position + 1
  /\ UNCHANGED <<committed, accounted>>

Account ==
  /\ accounted \subseteq accounted'
  /\ UNCHANGED <<position, committed>>

Commit ==
  /\ position \in accounted
  /\ committed' = position
  /\ UNCHANGED <<position, accounted>>

GoBack ==
  /\ position' = committed
  /\ accounted \subseteq accounted'
  /\ UNCHANGED committed

Next == Fetch \/ Account \/ Commit \/ GoBack

Spec == Init /\ [][Next]_vars
=============================================================================
