----------------------------- MODULE TimeWindows -----------------------------
(***************************************************************************)
(* The two structures that look back over a window of event time: the      *)
(* stream processor's SeriesWindows and the alert service's AnomalyCounts. *)
(* They do not interact, so in a behaviour one of them moves and the other *)
(* stays in its initial state.                                             *)
(***************************************************************************)
EXTENDS Integers, FiniteSets

CONSTANTS Times, Values, Windows, MaxReadings, MaxFlushes,
          Devices, Versions, NoRule, Any, Null, MaxAnomalies, MaxEdits

VARIABLES tracked, hand, samples, now, todo, batch, aggregates, flushes,
          recorded, rule, cached, seen, verdict, counted, edits

W == INSTANCE SeriesWindows
C == INSTANCE AnomalyCounts

\* Times are instants and windows are durations; some window is the longest.
ASSUME WindowAssumptions ==
  /\ Times \subseteq Int /\ Values \subseteq Int
  /\ Windows \subseteq Nat
  /\ \E longest \in Windows : \A w \in Windows : w <= longest

\* alert_rules: a rule has one of the four conditions and a NOT NULL window,
\* which is a duration.
ASSUME RuleAssumptions ==
  /\ NoRule \notin Versions
  /\ \A v \in Versions : /\ v.condition \in C!Conditions
                         /\ v.window \in Nat
                         /\ v.threshold \in Int \cup {Null}

windows == <<tracked, hand, samples, now, todo, batch, aggregates, flushes,
             recorded>>
counts == <<rule, cached, seen, verdict, counted, edits>>

WindowsInit == W!Init /\ C!Init

WindowsNext ==
  \/ W!Next /\ C!Init /\ UNCHANGED counts
  \/ C!Next /\ W!Init /\ UNCHANGED windows

WindowsSpec == WindowsInit /\ [][WindowsNext]_<<windows, counts>>

AggregatesAreExact == W!AggregatesAreExact
CountIsExact == C!CountIsExact
=============================================================================
