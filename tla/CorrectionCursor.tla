-------------------------- MODULE CorrectionCursor --------------------------
(***************************************************************************)
(* zs407_correction_cursor of modern/core/zs407_core.c: the correction of a *)
(* frequency, interpolated on a table of points.  The cursor remembers the  *)
(* segment of the last answer, so that a rising sweep does not search the   *)
(* table again.  Points and segments count from 0, as in the code.          *)
(*                                                                          *)
(* The products and sums are those of integers: a frequency below 2^34 Hz   *)
(* times a difference below 2^16 stays far below INT64_MAX, where the code  *)
(* would answer ZS407_CORE_OUT_OF_RANGE.                                    *)
(***************************************************************************)
EXTENDS Integers

CONSTANTS MaxHz,         \* bound on the frequencies
          MaxTable,      \* bound on the points of a table
          Corrections    \* the corrections of a point, in 1/32 dB

\* the bounds of zs407_db32_saturate, INT16_MIN + 1 and INT16_MAX
DbMin == -32767
DbMax == 32767

ASSUME CorrectionAssumption ==
  MaxHz \in Nat /\ MaxTable \in Nat \ {0} /\ Corrections \subseteq (DbMin - 1)..DbMax

\* The tables zs407_correction_cursor_init accepts: it compares neighbours.
Tables ==
  {t \in UNION {[0..(n - 1) -> [hz : 0..MaxHz, db : Corrections]] : n \in 1..MaxTable} :
     \A i, j \in DOMAIN t : i < j => t[i].hz < t[j].hz}

VARIABLES points,           \* the table of the last init
          segment,          \* the segment of the last answer
          asked_hz,         \* the frequency of the last call, -1 before
          correction_db32   \* its answer

cursorVars == <<points, segment, asked_hz, correction_db32>>

LastPoint(t) == CHOOSE i \in DOMAIN t : \A j \in DOMAIN t : j <= i
Last == LastPoint(points)

Saturate(value) == IF value > DbMax THEN DbMax
                   ELSE IF value < DbMin THEN DbMin ELSE value

\* C divides towards zero.
Quotient(n, d) == IF n >= 0 THEN n \div d ELSE -((-n) \div d)

\* Rounds half a step up, also below zero.
InterpolatedUpwards(a, b, hz) ==
  LET span == b.hz - a.hz
      numerator == (b.db - a.db) * (hz - a.hz)
  IN Saturate(a.db + Quotient(numerator + (span \div 2), span))

Interpolated(a, b, hz) ==
  LET span == b.hz - a.hz
      numerator == (b.db - a.db) * (hz - a.hz)
      rounded == IF numerator >= 0 THEN span \div 2 ELSE -(span \div 2)
  IN Saturate(a.db + Quotient(numerator + rounded, span))

Init == /\ points \in Tables /\ segment = 0
        /\ asked_hz = -1 /\ correction_db32 = 0

\* zs407_correction_cursor_init, with another table
CursorInit == /\ points' \in Tables /\ segment' = 0
              /\ asked_hz' = -1 /\ correction_db32' = 0

\* zs407_correction_at below, above or on an end of the table
AtEnd(hz) ==
  /\ \/ hz <= points[0].hz /\ segment' = 0
     \/ hz > points[0].hz /\ hz >= points[Last].hz /\ segment' = Last
  /\ correction_db32' = points[segment'].db
  /\ asked_hz' = hz /\ UNCHANGED points

\* Goes on from the cached segment even if the frequency lies below it.
StartForward(hz) == segment

\* the segment the search starts from
Start(hz) == IF segment >= Last \/ hz < points[segment].hz THEN 0 ELSE segment

\* zs407_correction_at within the table: the first segment from Start(hz) on
\* that ends at or above hz.
AtInner(hz) ==
  /\ points[0].hz < hz /\ hz < points[Last].hz
  /\ \E k \in Start(hz)..(Last - 1) :
       /\ hz <= points[k + 1].hz
       /\ \A j \in Start(hz)..(k - 1) : hz > points[j + 1].hz
       /\ segment' = k
       /\ correction_db32' = Interpolated(points[k], points[k + 1], hz)
  /\ asked_hz' = hz /\ UNCHANGED points

Next == CursorInit \/ \E hz \in 0..MaxHz : AtEnd(hz) \/ AtInner(hz)

Spec == Init /\ [][Next]_cursorVars

-----------------------------------------------------------------------------
(* Properties.                                                               *)

\* The segment is one of the table's, so no point outside it is read.
TypeOK == /\ points \in Tables /\ segment \in 0..Last
          /\ asked_hz \in -1..MaxHz /\ correction_db32 \in (DbMin - 1)..DbMax

\* The correction of a frequency, from the table alone.
OnCurve(t, hz) ==
  IF hz <= t[0].hz THEN t[0].db
  ELSE IF hz >= t[LastPoint(t)].hz THEN t[LastPoint(t)].db
  ELSE LET k == CHOOSE i \in 0..(LastPoint(t) - 1) : t[i].hz < hz /\ hz <= t[i + 1].hz
       IN Interpolated(t[k], t[k + 1], hz)

\* The answer does not depend on what was asked before, although the cached
\* segment decides which of two segments a point between them belongs to
\* (zs407_core.c:104-111).
AnswerOnCurve == asked_hz >= 0 => correction_db32 = OnCurve(points, asked_hz)

\* Between two points the answer is the nearest 1/32 dB to the straight line,
\* rising or falling; INT16_MIN, the mark of an invalid sample, is never
\* interpolated (zs407_core.c:113-130).
NearestToLine ==
  \A k \in 0..(Last - 1) :
    points[k].hz < asked_hz /\ asked_hz < points[k + 1].hz =>
      LET a == points[k]
          b == points[k + 1]
          span == b.hz - a.hz
          off == (correction_db32 - a.db) * span - (b.db - a.db) * (asked_hz - a.hz)
      IN /\ correction_db32 >= DbMin
         /\ correction_db32 > DbMin => 2 * off <= span
         /\ -span <= 2 * off
=============================================================================
