----------------------------- MODULE SweepRange -----------------------------
(***************************************************************************)
(* The sweep range of main.c: set_sweep_frequency keeps start and stop in     *)
(* order, inside the frequencies of the mode and, unless they are one, a     *)
(* hertz per point apart; the mode, the harmonic, ultra and the mixer move    *)
(* the frequencies of the mode (update_min_max_freq of sa_core.c).            *)
(***************************************************************************)
EXTENDS Integers

CONSTANTS Ranges,       \* what update_min_max_freq assigns: records [min, max]
          MaxHz,        \* bound on requested frequencies
          PointCounts   \* what sweep_points can be

ASSUME RangeAssumption ==
  /\ MaxHz \in Nat
  /\ Ranges \subseteq [min : 0 .. MaxHz, max : 0 .. MaxHz]
  /\ \A r \in Ranges : r.min <= r.max
  /\ PointCounts \subseteq Nat
  /\ \E n \in PointCounts : \A m \in PointCounts : m <= n

VARIABLES minFreq, maxFreq,
          frequency0, frequency1,
          sweep_points,
          outdated,     \* history: the range moved, or a preset came, and start or stop stayed
          widened,      \* history: start left the range by a span wider than it
          refined       \* history: sweep_points grew since the frequencies were set

rangeVars == <<minFreq, maxFreq, frequency0, frequency1, sweep_points, outdated, widened, refined>>

Types == {"START", "STOP", "CENTER", "SPAN", "CW"}
Smaller(a, b) == IF a < b THEN a ELSE b
Larger(a, b) == IF a > b THEN a ELSE b

\* The frequencies of a sweep, and the highest number of points.
Sweeps == [start : 0 .. MaxHz, stop : 0 .. MaxHz]
AllPoints == CHOOSE n \in PointCounts : \A m \in PointCounts : m <= n

-----------------------------------------------------------------------------
(* set_sweep_frequency                                                       *)

\* A span may be narrower than the lowest frequency.
Bounded(type, freq, r) ==
  Smaller(IF type = "SPAN" THEN freq ELSE Larger(freq, r.min), r.max)

Center(s) == s.start \div 2 + s.stop \div 2
HalfSpan(s) == (s.stop - s.start) \div 2

\* Half of the span that fits around a center.
Fitting(freq, half, r) ==
  LET below == IF freq < r.min + half THEN freq - r.min ELSE half
  IN IF freq > r.max - below THEN r.max - freq ELSE below

Around(center, half) == [start |-> center - half, stop |-> center + half]

\* A center is not kept away from the upper end.
RequestedUncut(type, freq, s, r) ==
  CASE type = "START" -> [start |-> freq, stop |-> Larger(s.stop, freq)]
    [] type = "STOP" -> [start |-> Smaller(s.start, freq), stop |-> freq]
    [] type = "CENTER" -> Around(freq, Smaller(HalfSpan(s), freq - r.min))
    [] type = "SPAN" -> LET half == freq \div 2
                        IN Around(Smaller(Larger(Center(s), r.min + half), r.max - half), half)
    [] type = "CW" -> [start |-> freq, stop |-> freq]

\* What the request asks for.
Requested(type, freq, s, r) ==
  CASE type = "START" -> [start |-> freq, stop |-> Larger(s.stop, freq)]
    [] type = "STOP" -> [start |-> Smaller(s.start, freq), stop |-> freq]
    [] type = "CENTER" -> Around(freq, Fitting(freq, HalfSpan(s), r))
    [] type = "SPAN" -> LET half == freq \div 2
                        IN Around(Smaller(Larger(Center(s), r.min + half), r.max - half), half)
    [] type = "CW" -> [start |-> freq, stop |-> freq]

\* Counts hertz where the code counts half of them.
ForcedLater(s, points) ==
  LET middle == (s.start + s.stop) \div 2
      even == middle + (middle % 2)
  IN IF HalfSpan(s) # 0 /\ 2 * HalfSpan(s) < points \div 2
     THEN [start |-> even, stop |-> even] ELSE s

\* Less than a hertz per point becomes one frequency, an even one.
Forced(s, points) ==
  LET middle == (s.start + s.stop) \div 2
      even == middle + (middle % 2)
  IN IF HalfSpan(s) # 0 /\ HalfSpan(s) < points \div 2
     THEN [start |-> even, stop |-> even] ELSE s

Set(type, freq, s, r, points) ==
  Forced(Requested(type, Bounded(type, freq, r), s, r), points)

-----------------------------------------------------------------------------
Present == [start |-> frequency0, stop |-> frequency1]
ModeRange == [min |-> minFreq, max |-> maxFreq]

Becomes(s) == frequency0' = s.start /\ frequency1' = s.stop
Moves(r) == minFreq' = r.min /\ maxFreq' = r.max

TooWide(type, freq, r) == type = "SPAN" /\ 2 * (freq \div 2) > r.max - r.min

\* reset_settings begins with the whole range, or a part of it up to some frequency
\* (M_LOW), or with one frequency (the output modes).
FromWhole(r, top, s, points) ==
  LET whole_range == Set("STOP", r.max, Set("START", r.min, s, r, points), r, points)
  IN Set("STOP", top, whole_range, r, points)
AtOne(r, top, s, points) == Set("SPAN", 0, Set("CENTER", top, s, r, points), r, points)

\* set_mode: reset_settings moves the range and begins a sweep in it; all points.
Reset(r, top) ==
  /\ Moves(r)
  /\ \/ Becomes(FromWhole(r, top, Present, sweep_points))
     \/ Becomes(AtOne(r, top, Present, sweep_points))
  /\ sweep_points' = AllPoints
  /\ outdated' = FALSE /\ widened' = FALSE /\ refined' = (sweep_points' > sweep_points)

Init ==
  /\ \E r \in Ranges : minFreq = r.min /\ maxFreq = r.max
  /\ frequency0 = minFreq /\ frequency1 = maxFreq
  /\ sweep_points = AllPoints
  /\ outdated = FALSE /\ widened = FALSE
  /\ refined = (frequency1 - frequency0 < sweep_points - 1)

SetMode == \E r \in Ranges, top \in 0 .. MaxHz : Reset(r, top)

\* A request from the console, the keypad, a marker or the touch screen.
SetSweepFrequency(type, freq) ==
  /\ Becomes(Set(type, freq, Present, ModeRange, sweep_points))
  /\ outdated' = (outdated /\ type \in {"START", "STOP"})
  /\ widened' = IF type = "SPAN" THEN TooWide(type, Bounded(type, freq, ModeRange), ModeRange)
                ELSE widened /\ type = "STOP"
  /\ refined' = FALSE
  /\ UNCHANGED <<minFreq, maxFreq, sweep_points>>

\* set_harmonic, ultra, mixer_output = true: update_min_max_freq alone.
MoveRange ==
  /\ \E r \in Ranges : Moves(r)
  /\ outdated' = TRUE
  /\ UNCHANGED <<frequency0, frequency1, sweep_points, widened, refined>>

\* mixer_output = false: the center is set again.
MixerOff ==
  /\ \E r \in Ranges : Moves(r) /\ Becomes(Set("CENTER", Center(Present), Present, r, sweep_points))
  /\ outdated' = FALSE /\ widened' = FALSE /\ refined' = FALSE
  /\ UNCHANGED sweep_points

SetSweepPoints(points) ==
  /\ sweep_points' = points
  /\ refined' = (refined \/ points > sweep_points)
  /\ UNCHANGED <<minFreq, maxFreq, frequency0, frequency1, outdated, widened>>

Next ==
  \/ SetMode
  \/ \E type \in Types, freq \in 0 .. MaxHz : SetSweepFrequency(type, freq)
  \/ MoveRange
  \/ MixerOff
  \/ \E points \in PointCounts : SetSweepPoints(points)

Spec == Init /\ [][Next]_rangeVars

-----------------------------------------------------------------------------
(* Properties.                                                               *)

TypeOK ==
  /\ ModeRange \in Ranges /\ Present \in Sweeps /\ sweep_points \in PointCounts
  /\ {outdated, widened, refined} \subseteq BOOLEAN

\* The sweep stays in order, so that the exchange in get_sweep_frequency ("Obsolete",
\* main.c:1941) never happens, and inside the range it was set in ("Check frequency for
\* out of bounds", main.c:1856), but for a start pushed out by a span wider than it.
WithinRange ==
  /\ frequency0 <= frequency1
  /\ ~outdated => frequency1 <= maxFreq
  /\ ~outdated /\ ~widened => minFreq <= frequency0

\* A sweep has one frequency, or a hertz for each step between its points, unless points
\* were added later; the one exception is a span of one hertz, of which half is none
\* (main.c:1906).
PointsApart ==
  ~refined => \/ frequency1 - frequency0 \in 0 .. 1
              \/ frequency1 - frequency0 >= sweep_points - 1
=============================================================================
