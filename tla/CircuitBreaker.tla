---------------------------- MODULE CircuitBreaker ----------------------------
(***************************************************************************)
(* shared/reliability.py as its callers use it: a set of threads share one *)
(* breaker (ingestion's fifty workers and their Kafka breaker, the stream  *)
(* processor's consume loop and flusher and their InfluxDB breaker).  Each *)
(* guarded call asks allow(), runs the write through retry_with_backoff    *)
(* and records how it ended.  allow, record_success and record_failure     *)
(* hold the breaker's lock, so each is one step; the attempts in between   *)
(* interleave with every other thread.                                     *)
(*                                                                         *)
(* Time is reduced to the one fact the breaker looks at: whether the       *)
(* cooldown has passed since it last opened.                               *)
(***************************************************************************)
EXTENDS Naturals

CONSTANTS Threads,
          Threshold,     \* consecutive failures that open the breaker
          MaxAttempts,   \* retry_with_backoff's attempt budget
          MaxOutages     \* bound: how often the dependency goes down

ASSUME BreakerAssumptions ==
  /\ Threshold \in Nat \ {0} /\ MaxAttempts \in Nat \ {0}
  /\ MaxOutages \in Nat

VARIABLES
  state,     \* _state
  fails,     \* _consecutive_fails
  cooled,    \* now - _opened_at >= _cooldown_seconds
  pc,        \* per thread: where its guarded call is
  attempt,   \* per thread: failed attempts of the call in progress
  trials,    \* history: threads whose call was let through as the trial
  up,        \* the dependency answers
  outages    \* history: outages so far

breaker == <<state, fails, cooled>>
vars == <<state, fails, cooled, pc, attempt, trials, up, outages>>

Init ==
  /\ state = "CLOSED" /\ fails = 0 /\ cooled = FALSE
  /\ pc = [t \in Threads |-> "idle"]
  /\ attempt = [t \in Threads |-> 0]
  /\ trials = {}
  /\ up = TRUE /\ outages = 0

-----------------------------------------------------------------------------
(* Environment. *)

CooldownPasses ==
  /\ state = "OPEN" /\ ~cooled
  /\ cooled' = TRUE
  /\ UNCHANGED <<state, fails, pc, attempt, trials, up, outages>>

GoDown ==
  /\ up /\ outages < MaxOutages
  /\ up' = FALSE /\ outages' = outages + 1
  /\ UNCHANGED <<breaker, pc, attempt, trials>>

ComeUp ==
  /\ ~up /\ up' = TRUE
  /\ UNCHANGED <<breaker, pc, attempt, trials, outages>>

-----------------------------------------------------------------------------
(* One guarded call.  A call that is not allowed raises at once and leaves  *)
(* no trace in the breaker.                                                *)

StartCall(t) ==
  /\ pc' = [pc EXCEPT ![t] = "attempting"]
  /\ attempt' = [attempt EXCEPT ![t] = 0]

AllowClosed(t) ==
  /\ pc[t] = "idle" /\ state = "CLOSED"
  /\ StartCall(t)
  /\ UNCHANGED <<breaker, trials, up, outages>>

AllowTrial(t) ==
  /\ pc[t] = "idle" /\ state = "OPEN" /\ cooled
  /\ state' = "HALF_OPEN"
  /\ trials' = trials \cup {t}
  /\ StartCall(t)
  /\ UNCHANGED <<fails, cooled, up, outages>>

\* retry_with_backoff: one attempt of fn.
AttemptSucceeds(t) ==
  /\ pc[t] = "attempting" /\ up
  /\ pc' = [pc EXCEPT ![t] = "succeeded"]
  /\ UNCHANGED <<breaker, attempt, trials, up, outages>>

LastAttemptOneLater(t) == attempt[t] >= MaxAttempts
LastAttempt(t) == attempt[t] + 1 >= MaxAttempts

AttemptFails(t) ==
  /\ pc[t] = "attempting" /\ ~up
  /\ attempt' = [attempt EXCEPT ![t] = @ + 1]
  /\ pc' = IF LastAttempt(t) THEN [pc EXCEPT ![t] = "failed"] ELSE pc
  /\ UNCHANGED <<breaker, trials, up, outages>>

\* fn raises ErrPermanent (a webhook's 4xx answer, counted as an outage of the
\* endpoint): no further attempt.
AttemptFailsForGood(t) ==
  /\ pc[t] = "attempting" /\ ~up
  /\ pc' = [pc EXCEPT ![t] = "failed"]
  /\ UNCHANGED <<breaker, attempt, trials, up, outages>>

EndCall(t) ==
  /\ pc' = [pc EXCEPT ![t] = "idle"]
  /\ trials' = trials \ {t}
  /\ UNCHANGED <<attempt, up, outages>>

RecordSuccess(t) ==
  /\ pc[t] = "succeeded"
  /\ fails' = 0 /\ state' = "CLOSED"
  /\ EndCall(t)
  /\ UNCHANGED cooled

Opens == state' = "OPEN" /\ cooled' = FALSE

RecordTrialFailureForgotten(t) ==
  /\ pc[t] = "failed" /\ state = "HALF_OPEN"
  /\ EndCall(t)
  /\ UNCHANGED breaker

RecordTrialFailure(t) ==
  /\ pc[t] = "failed" /\ state = "HALF_OPEN"
  /\ Opens
  /\ EndCall(t)
  /\ UNCHANGED fails

TripsLate(n) == n > Threshold
Trips(n) == n >= Threshold

RecordFailure(t) ==
  /\ pc[t] = "failed" /\ state # "HALF_OPEN"
  /\ fails' = fails + 1
  /\ IF Trips(fails + 1) THEN Opens ELSE UNCHANGED <<state, cooled>>
  /\ EndCall(t)

Call(t) ==
  \/ AllowClosed(t) \/ AllowTrial(t)
  \/ AttemptSucceeds(t) \/ AttemptFails(t) \/ AttemptFailsForGood(t)
  \/ RecordSuccess(t) \/ RecordTrialFailure(t) \/ RecordFailure(t)

Next ==
  \/ \E t \in Threads : Call(t)
  \/ CooldownPasses
  \/ GoDown
  \/ ComeUp

Spec == Init /\ [][Next]_vars

\* Threads keep making calls and every attempt ends; time passes; every
\* outage ends.
FairSpec ==
  /\ Spec
  /\ \A t \in Threads : WF_vars(Call(t))
  /\ WF_vars(CooldownPasses)
  /\ WF_vars(ComeUp)

-----------------------------------------------------------------------------
(* Properties. *)

TypeOK ==
  /\ state \in {"CLOSED", "OPEN", "HALF_OPEN"}
  /\ fails \in Nat /\ cooled \in BOOLEAN
  /\ pc \in [Threads -> {"idle", "attempting", "succeeded", "failed"}]
  /\ attempt \in [Threads -> 0..MaxAttempts]
  /\ trials \subseteq Threads
  /\ up \in BOOLEAN /\ outages \in 0..MaxOutages

\* reliability.py:95-110.  The breaker lets calls through freely exactly while
\* fewer than the threshold have failed in a row, although the failure of a
\* trial is not counted and calls let through earlier report late.
ClosedIffBelowThreshold == state = "CLOSED" <=> fails < Threshold

\* reliability.py:87-88, "a trial call is already in flight": whenever the
\* breaker refuses calls for that reason some trial is still running, so that
\* its end will move the breaker on.
HalfOpenHasTrial == state = "HALF_OPEN" => \E t \in trials : pc[t] # "idle"

\* reliability.py:80-110.  Once the outages are over the breaker closes for
\* good: no order of stragglers, trials and cooldowns wedges it.
Recovers == <>[](state = "CLOSED")
=============================================================================
