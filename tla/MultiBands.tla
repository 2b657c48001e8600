----------------------------- MODULE MultiBands -----------------------------
(***************************************************************************)
(* The bands of SweepBands, under names that can stand beside those of the   *)
(* other settings.                                                           *)
(***************************************************************************)
EXTENDS Naturals

CONSTANTS BANDS_MAX, POINTS_COUNT,
          BandPoints,    \* what sweep_points can be in a multi band sweep
          Keyed, Kept, Granularity, Wrap

\* There is a band and a point to deal out; frequencies are not negative.
ASSUME BandsAssumption ==
  /\ BANDS_MAX \in Nat \ {0} /\ POINTS_COUNT \in Nat /\ BandPoints \subseteq 1 .. POINTS_COUNT
  /\ Keyed \subseteq Nat /\ Kept \subseteq Nat
  /\ Granularity \in Nat \ {0} /\ Wrap \in Nat \ {0}

VARIABLES bands, multi_band, band_points, f_band_index, updated

bandVars == <<bands, multi_band, band_points, f_band_index, updated>>

Multi == INSTANCE SweepBands WITH sweep_points <- band_points, PointCounts <- BandPoints

\* Every point of a multi band sweep belongs to an enabled band, in which the points go
\* from its start to its end (main.c:1750-1784, 1817-1828).
PointsInBands == Multi!PointsInBands
=============================================================================
