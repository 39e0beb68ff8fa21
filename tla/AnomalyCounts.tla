---------------------------- MODULE AnomalyCounts ----------------------------
(***************************************************************************)
(* How the alert service decides that a rule is due for an anomaly: the    *)
(* cached copy of the rule, its scope, and for ANOMALY_COUNT rules the     *)
(* number of anomalies of the device in the rule's window.  Operators edit *)
(* the rule meanwhile; anomalies come in any order of their detected_at    *)
(* and, after a rebalance, more than once.                                 *)
(*                                                                         *)
(* One rule: counts are kept per rule and device, so rules do not meet.    *)
(***************************************************************************)
EXTENDS Integers, Sequences, FiniteSets

CONSTANTS Times, Values, Devices,
          Versions,     \* what the rule may say
          NoRule,       \* the rule is not active
          Any,          \* device_id IS NULL: any device
          Null,         \* a threshold column that IS NULL
          MaxAnomalies, \* bound: anomalies since the service was started
          MaxEdits      \* bound: edits of the rule

Conditions == {"GREATER_THAN", "LESS_THAN", "OUTSIDE_RANGE", "ANOMALY_COUNT"}

VARIABLES
  rule,     \* the row of alert_rules
  cached,   \* RuleCache's copy
  seen,     \* AnomalyCountTracker._seen, per device: the stored times, each
            \* with the number of its anomaly (equal times are kept apart)
  verdict,  \* the last evaluation
  counted,  \* history: the anomalies recorded and their cut-offs
  edits     \* history: edits so far

Unknown == [rule |-> NoRule, device |-> Any, at |-> 0, count |-> 0, due |-> FALSE]

Init ==
  /\ rule = NoRule /\ cached = NoRule
  /\ seen = [d \in Devices |-> {}]
  /\ verdict = Unknown
  /\ counted = <<>>
  /\ edits = 0

\* An operator edits, deactivates or reactivates the rule.
EditRule(v) ==
  /\ edits < MaxEdits /\ v # rule
  /\ rule' = v
  /\ edits' = edits + 1
  /\ UNCHANGED <<cached, seen, verdict, counted>>

\* A refresh that fails keeps the old copy.
refresh ==
  /\ cached' = rule
  /\ UNCHANGED <<rule, seen, verdict, counted, edits>>

scope_matches(d) == cached.device \in {d, Any}

\* AnomalyCountTracker.record: every stored time is held against the cut-off.
KeptPrefixTrimmed(times, cutoff) ==
  {t \in times : \E s \in times : s.at >= cutoff /\ s.nr <= t.nr}
Kept(times, cutoff) == {t \in times : t.at >= cutoff}

Recorded(d, at) ==
  Kept(seen[d], at - cached.window) \cup {[nr |-> Len(counted) + 1, at |-> at]}

condition_matches(r, value, count) ==
  CASE r.condition = "GREATER_THAN"  -> r.threshold # Null /\ value > r.threshold
    [] r.condition = "LESS_THAN"     -> r.threshold # Null /\ value < r.threshold
    [] r.condition = "OUTSIDE_RANGE" -> /\ Null \notin {r.low, r.high}
                                        /\ value < r.low \/ value > r.high
    [] r.condition = "ANOMALY_COUNT" -> r.threshold # Null /\ count >= r.threshold

Applies(d) == cached # NoRule /\ scope_matches(d)
Counts == cached.condition = "ANOMALY_COUNT"

CountAnomaly(d, at, value) ==
  /\ Applies(d) /\ Counts /\ Len(counted) < MaxAnomalies
  /\ seen' = [seen EXCEPT ![d] = Recorded(d, at)]
  /\ counted' = Append(counted, [device |-> d, at |-> at,
                                 cutoff |-> at - cached.window])
  /\ verdict' = [rule |-> cached, device |-> d, at |-> at,
                 count |-> Cardinality(Recorded(d, at)),
                 due |-> condition_matches(cached, value,
                                           Cardinality(Recorded(d, at)))]
  /\ UNCHANGED <<rule, cached, edits>>

\* Other conditions look at the value only.
CompareAnomaly(d, at, value) ==
  /\ Applies(d) /\ ~Counts
  /\ verdict' = [rule |-> cached, device |-> d, at |-> at, count |-> 0,
                 due |-> condition_matches(cached, value, 0)]
  /\ UNCHANGED <<rule, cached, seen, counted, edits>>

\* The counts live in memory; the cache is read anew.
Restart ==
  /\ seen' = [d \in Devices |-> {}]
  /\ counted' = <<>>
  /\ verdict' = Unknown
  /\ cached' = rule
  /\ UNCHANGED <<rule, edits>>

Next ==
  \/ \E v \in Versions \cup {NoRule} : EditRule(v)
  \/ refresh
  \/ \E d \in Devices, at \in Times, value \in Values :
       CountAnomaly(d, at, value) \/ CompareAnomaly(d, at, value)
  \/ Restart

-----------------------------------------------------------------------------
(* Properties. *)

\* anomalycount.py:19-40, conditions.py:24-25.  An ANOMALY_COUNT rule is due at
\* the newest anomaly of a device exactly when its threshold of anomalies has
\* come since the cut-off, in whatever order and with whatever edits before,
\* provided no earlier evaluation looked back less far.
CountIsExact ==
  verdict.rule # NoRule /\ verdict.rule.condition = "ANOMALY_COUNT" =>
    LET past == {i \in DOMAIN counted : counted[i].device = verdict.device}
        cutoff == verdict.at - verdict.rule.window
        within == {i \in past : counted[i].at \in cutoff..verdict.at}
    IN (\A i \in past : counted[i].at <= verdict.at /\ counted[i].cutoff <= cutoff)
         => /\ verdict.count = Cardinality(within)
            /\ verdict.due <=> /\ verdict.rule.threshold # Null
                               /\ Cardinality(within) >= verdict.rule.threshold
=============================================================================
