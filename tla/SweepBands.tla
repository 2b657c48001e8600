----------------------------- MODULE SweepBands -----------------------------
(***************************************************************************)
(* Multi band sweeps of main.c: update_bands deals the points of a sweep out *)
(* to the enabled bands, in proportion to their spans, and getFrequency finds  *)
(* the frequency of a point in its band.  The keypad and the menus of ui.c     *)
(* change the bands.  A float of single precision holds a frequency to the     *)
(* nearest multiple of Granularity; unsigned differences wrap at Wrap.         *)
(***************************************************************************)
EXTENDS Integers, FiniteSets

CONSTANTS BANDS_MAX, POINTS_COUNT,
          PointCounts,   \* what sweep_points can be
          Keyed,         \* frequencies that are keyed in
          Kept,          \* bound: the ends of bands that are followed up
          Granularity, Wrap

VARIABLES
  bands,           \* setting.bands
  multi_band,
  sweep_points,
  f_band_index,    \* _f_band_index
  updated          \* history: the points have been dealt since the last change of bands

bandVars == <<bands, multi_band, sweep_points, f_band_index, updated>>

Bands == 0 .. BANDS_MAX - 1
NoBand == [enabled |-> FALSE, start |-> 0, end |-> 0, start_index |-> 0, stop_index |-> 0]

Init ==
  /\ bands = [b \in Bands |-> NoBand]
  /\ multi_band = FALSE /\ sweep_points \in PointCounts
  /\ f_band_index = [idx \in 0 .. POINTS_COUNT - 1 |-> 0]
  /\ updated = FALSE

-----------------------------------------------------------------------------
(* update_bands                                                              *)

\* Disabled bands widen the step.
WidthOfAll(bs, b) == bs[b].end - bs[b].start

Width(bs, b) == IF bs[b].enabled THEN bs[b].end - bs[b].start ELSE 0

\* The sum of f over the bands below b.
Below(f, b) == LET sum[c \in 0 .. b] == IF c = 0 THEN 0 ELSE sum[c - 1] + f[c - 1] IN sum[b]

Span(bs) == Below([b \in Bands |-> Width(bs, b)], BANDS_MAX) % Wrap

\* A quotient as a float has it.
Rounded(num, den) == Granularity * ((2 * num + Granularity * den) \div (2 * Granularity * den))

\* How many points in a row, from its first one, stay below the end of a band.
Capacity(bs, span, points, b) ==
  IF ~bs[b].enabled THEN 0
  ELSE Cardinality({k \in 0 .. points - 1 :
                      Rounded(bs[b].start * points + k * span, points) < bs[b].end})

Dealt(bs, points, index) ==
  LET span == Span(bs)
      capacity == [b \in Bands |-> Capacity(bs, span, points, b)]
      first == [b \in Bands |-> Below(capacity, b)]
      Reached(b) == bs[b].enabled /\ first[b] < points
      Has(b, idx) == bs[b].enabled /\ idx \in first[b] .. first[b] + capacity[b] - 1
  IN [bands |-> [b \in Bands |->
        IF ~Reached(b) THEN bs[b]
        ELSE [bs[b] EXCEPT !.start_index = first[b],
                           !.stop_index = IF capacity[b] = 0 THEN @
                                          ELSE IF first[b] + capacity[b] < points
                                               THEN first[b] + capacity[b] - 1 ELSE points - 1]],
      index |-> [idx \in DOMAIN index |->
        IF idx < points /\ \E b \in Bands : Has(b, idx)
        THEN CHOOSE b \in Bands : Has(b, idx) ELSE index[idx]]]

\* update_frequencies, which deals the points only in a multi band sweep.
Update(bs, points) ==
  /\ updated' = multi_band
  /\ IF multi_band
     THEN LET d == Dealt(bs, points, f_band_index)
          IN bands' = d.bands /\ f_band_index' = d.index
     ELSE bands' = bs /\ UNCHANGED f_band_index

-----------------------------------------------------------------------------
(* The menus and the keypad.                                                 *)

SetBand(b, start, end) ==
  /\ {start % Wrap, end % Wrap} \subseteq Kept
  /\ Update([bands EXCEPT ![b].start = start % Wrap, ![b].end = end % Wrap], sweep_points)
  /\ UNCHANGED <<multi_band, sweep_points>>

SetStart(b, f) == SetBand(b, f, IF bands[b].end < f THEN f ELSE bands[b].end)
SetEnd(b, f) == SetBand(b, IF bands[b].start > f THEN f ELSE bands[b].start, f)

Distance(b) ==
  IF bands[b].end < bands[b].start THEN bands[b].start - bands[b].end
  ELSE bands[b].end - bands[b].start

\* Neither looks where the band ends up.
SetCenter(b, f) == SetBand(b, f - Distance(b) \div 2, f + Distance(b) \div 2)
SetSpan(b, f) ==
  LET center == ((bands[b].end + bands[b].start) % Wrap) \div 2
  IN SetBand(b, center - f \div 2, center + f \div 2)

\* Drawing the menu of bands enables the first one if none is; choosing one enables it.
SelectBand(b) ==
  /\ Update([bands EXCEPT ![b].enabled = TRUE], sweep_points)
  /\ UNCHANGED <<multi_band, sweep_points>>

DisableBand(b) ==
  /\ bands[b].enabled => \E c \in Bands \ {b} : bands[c].enabled
  /\ Update([bands EXCEPT ![b].enabled = FALSE], sweep_points)
  /\ UNCHANGED <<multi_band, sweep_points>>

\* With the menu of bands, which is drawn; what the sweep was is the first band, unless
\* that one has been set.  The points are dealt at the first point of the next sweep.
MultiBand ==
  /\ multi_band' = ~multi_band
  /\ IF multi_band THEN UNCHANGED bands
     ELSE \E start, end \in Keyed :
            /\ start <= end
            /\ bands' = LET named == IF bands[0].end # 0 THEN bands
                                     ELSE [bands EXCEPT ![0].start = start, ![0].end = end]
                        IN IF \E b \in Bands : bands[b].enabled THEN named
                           ELSE [named EXCEPT ![0].enabled = TRUE]
  /\ updated' = FALSE
  /\ UNCHANGED <<sweep_points, f_band_index>>

\* sweep(), while dirty.
SweepDeals ==
  /\ multi_band /\ Update(bands, sweep_points)
  /\ UNCHANGED <<multi_band, sweep_points>>

SetSweepPoints(points) ==
  /\ points # sweep_points /\ sweep_points' = points
  /\ Update(bands, points)
  /\ UNCHANGED multi_band

Next ==
  \/ \E b \in Bands, f \in Keyed : SetStart(b, f) \/ SetEnd(b, f) \/ SetCenter(b, f) \/ SetSpan(b, f)
  \/ \E b \in Bands : SelectBand(b) \/ DisableBand(b)
  \/ MultiBand \/ SweepDeals
  \/ \E points \in PointCounts : SetSweepPoints(points)

Spec == Init /\ [][Next]_bandVars

-----------------------------------------------------------------------------
(* getFrequency                                                              *)

GetFrequency(idx) ==
  LET b == bands[f_band_index[idx]]
      steps == b.stop_index - b.start_index
  IN IF steps = 0 THEN b.start
     ELSE b.start + ((b.end - b.start) * (idx - b.start_index)) \div steps

\* No band has been moved below zero, and the step between points is wide enough for
\* what the rounding of all bands can take away.
Dealable ==
  /\ \A b \in Bands : bands[b].start <= bands[b].end
  /\ 2 * Span(bands) > BANDS_MAX * Granularity * sweep_points

\* Every point belongs to an enabled band, the points of a band are in a row, and they
\* go from its start to its end, unless it has one point only (main.c:1750-1784,
\* 1817-1828).
PointsInBands ==
  (updated /\ Dealable) =>
    \A idx \in 0 .. sweep_points - 1 :
      LET b == bands[f_band_index[idx]] IN
      /\ b.enabled /\ b.start_index <= idx /\ idx <= b.stop_index
      /\ GetFrequency(idx) \in b.start .. b.end
      /\ idx = b.start_index => GetFrequency(idx) = b.start
      /\ idx = b.stop_index /\ b.start_index < idx => GetFrequency(idx) = b.end
=============================================================================
