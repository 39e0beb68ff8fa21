---------------------------- MODULE SeriesWindows ----------------------------
(***************************************************************************)
(* The stream processor's rolling windows.  The consume loop records every *)
(* stored reading in the buffer of its series; the flusher thread computes *)
(* one aggregate per window, taking the buffer's lock once per window, and *)
(* writes the batch.  Event times come in any order and from clocks of     *)
(* their own: nothing validates them against the processor's.              *)
(*                                                                         *)
(* One series; a reading is its event time and its value.                  *)
(***************************************************************************)
EXTENDS Integers, Sequences, FiniteSets, FiniteSetsExt, Functions

CONSTANTS Times, Values,
          Windows,     \* cfg.windows_seconds
          MaxReadings, \* bound: readings since the processor was started
          MaxFlushes   \* bound: flushes since the processor was started

MaxWindow == Max(Windows)

VARIABLES
  tracked,    \* is the series in the registry
  hand,       \* the reading the consume loop has to add, or None
  samples,    \* the series' buffer
  now, todo,  \* the flush: its time and the windows still to compute
  batch,      \* its points so far
  aggregates, \* points written to InfluxDB
  flushes,    \* history: flushes so far
  recorded    \* history: all readings added, in the order they came

buffer == <<tracked, samples, recorded>>
flusher == <<now, todo, batch, flushes>>
None == [at |-> -1, value |-> 0]

Init ==
  /\ tracked = FALSE /\ hand = None /\ samples = <<>>
  /\ now = 0 /\ todo = {} /\ batch = {} /\ aggregates = {} /\ flushes = 0
  /\ recorded = <<>>

-----------------------------------------------------------------------------
(* SeriesRegistry.record and SeriesBuffer.add. *)

\* The series gets its buffer before the reading is in it.
Track(s) ==
  /\ hand = None /\ Len(recorded) < MaxReadings
  /\ tracked' = TRUE
  /\ hand' = s
  /\ UNCHANGED <<samples, recorded, flusher, aggregates>>

\* The slot after the last sample that is not later than the new one.
SlotAtTheEnd(at) == Len(samples)
Slot(at) == Max({0} \cup {i \in DOMAIN samples : samples[i].at <= at})

Inserted(s) ==
  SubSeq(samples, 1, Slot(s.at)) \o <<s>>
    \o SubSeq(samples, Slot(s.at) + 1, Len(samples))

\* The leading samples older than the longest window before the last are cut.
Trimmed(seq) ==
  LET cutoff == seq[Len(seq)].at - MaxWindow
      kept == {i \in DOMAIN seq : seq[i].at >= cutoff}
  IN SubSeq(seq, Min(kept), Len(seq))

Add ==
  /\ hand # None
  /\ samples' = Trimmed(Inserted(hand))
  /\ recorded' = Append(recorded, hand)
  /\ hand' = None
  /\ UNCHANGED <<tracked, flusher, aggregates>>

-----------------------------------------------------------------------------
(* _flush_once. *)

\* What is in a window, by position.
InWindow(seq, w) == {i \in DOMAIN seq : seq[i].at >= now - w}

\* _compute_stats: the averages are over count, the rate is rise / elapsed.
Summary(seq, in, first, last) ==
  [count   |-> Cardinality(in),
   sum     |-> SumFunction([i \in in |-> seq[i].value]),
   squares |-> SumFunction([i \in in |-> seq[i].value * seq[i].value]),
   min     |-> Min({seq[i].value : i \in in}),
   max     |-> Max({seq[i].value : i \in in}),
   rise    |-> seq[last].value - seq[first].value,
   elapsed |-> seq[last].at - seq[first].at]

stats_for(w) ==
  LET in == InWindow(samples, w)
  IN Summary(samples, in, Min(in), Max(in))

StartFlush(t) ==
  /\ todo = {} /\ batch = {} /\ flushes < MaxFlushes /\ t >= now
  /\ now' = t
  /\ flushes' = flushes + 1
  /\ todo' = IF tracked THEN Windows ELSE {}
  /\ UNCHANGED <<buffer, hand, batch, aggregates>>

\* A window without samples gives no point.
Compute(w) ==
  /\ w \in todo
  /\ todo' = todo \ {w}
  /\ batch' = IF InWindow(samples, w) = {} THEN batch
              ELSE batch \cup {[window |-> w, at |-> now, stats |-> stats_for(w),
                                seen |-> Len(recorded)]}
  /\ UNCHANGED <<buffer, hand, now, flushes, aggregates>>

\* Best effort: the points of a failed write are dropped.
Write ==
  /\ todo = {} /\ batch # {}
  /\ aggregates' \in {aggregates, aggregates \cup batch}
  /\ batch' = {}
  /\ UNCHANGED <<buffer, hand, now, todo, flushes>>

-----------------------------------------------------------------------------

\* The windows live in memory.
Restart ==
  /\ recorded # <<>>
  /\ tracked' = FALSE /\ hand' = None /\ samples' = <<>>
  /\ todo' = {} /\ batch' = {} /\ aggregates' = {} /\ flushes' = 0
  /\ recorded' = <<>>
  /\ UNCHANGED now

Next ==
  \/ \E at \in Times, value \in Values : Track([at |-> at, value |-> value])
  \/ Add
  \/ \E t \in Times : StartFlush(t)
  \/ \E w \in Windows : Compute(w)
  \/ Write \/ Restart

-----------------------------------------------------------------------------
(* Properties. *)

\* The statistics by definition: over all readings, ordered by event time and
\* then by arrival.
Reference(seq, t, w) ==
  LET in == {i \in DOMAIN seq : seq[i].at >= t - w}
      Before(i, j) == seq[i].at < seq[j].at \/ (seq[i].at = seq[j].at /\ i <= j)
  IN Summary(seq, in, CHOOSE i \in in : \A j \in in : Before(i, j),
                      CHOOSE i \in in : \A j \in in : Before(j, i))

\* window.py:56-83, main.py:217-233.  Every aggregate written says of its
\* window exactly what all readings added by then say, in whatever order they
\* came, as long as no reading is ahead of the flush by more than the longest
\* window exceeds this one.
AggregatesAreExact ==
  \A p \in aggregates \cup batch :
    LET sofar == SubSeq(recorded, 1, p.seen)
    IN (\A i \in DOMAIN sofar : sofar[i].at - p.at <= MaxWindow - p.window)
         => p.stats = Reference(sofar, p.at, p.window)
=============================================================================
