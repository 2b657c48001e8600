------------------------------ MODULE CoreProofs ------------------------------
(***************************************************************************)
(* The answers of the correction cursor lie on the curve of its table and   *)
(* next to its line; the bus goes past those that wait to more urgent ones   *)
(* only; what is stale on the screen stays dirty; the RSSI buffer shows the  *)
(* window around its trigger; markers and searches find the highest peaks;   *)
(* the oscillator runs at what is compensated for.  For all tables, numbers  *)
(* of clients, screens, buffers, traces and points to tune to.               *)
(***************************************************************************)
EXTENDS SmallMachines, ModArithmetic, SequenceTheorems

-----------------------------------------------------------------------------
(* The tables. *)

\* What a table is, by its length: its points rise.
LEMMA TableFacts ==
  ASSUME NEW t \in Tables
  PROVE  \E n \in 1..MaxTable :
           /\ DOMAIN t = 0..(n - 1) /\ LastPoint(t) = n - 1
           /\ \A i \in 0..(n - 1) : t[i].hz \in Nat /\ t[i].db \in (DbMin - 1)..DbMax
           /\ \A i, j \in 0..(n - 1) : i < j => t[i].hz < t[j].hz
  <1>1. PICK n \in 1..MaxTable : t \in [0..(n - 1) -> [hz : 0..MaxHz, db : Corrections]]
    BY DEF Tables
  <1>2. DOMAIN t = 0..(n - 1) BY <1>1
  <1>3. n \in Nat /\ n >= 1 BY CorrectionAssumption
  <1>4. LastPoint(t) = n - 1
    <2>1. n - 1 \in DOMAIN t /\ \A j \in DOMAIN t : j <= n - 1 BY <1>2, <1>3
    <2>2. LastPoint(t) \in DOMAIN t /\ \A j \in DOMAIN t : j <= LastPoint(t)
      BY <2>1 DEF LastPoint
    <2> QED BY <1>2, <1>3, <2>1, <2>2
  <1>5. \A i \in 0..(n - 1) : t[i].hz \in Nat /\ t[i].db \in (DbMin - 1)..DbMax
    <2>1. \A i \in 0..(n - 1) : t[i].hz \in 0..MaxHz /\ t[i].db \in Corrections BY <1>1
    <2>2. 0..MaxHz \subseteq Nat /\ Corrections \subseteq (DbMin - 1)..DbMax
      BY CorrectionAssumption
    <2> QED BY <2>1, <2>2
  <1>6. \A i, j \in DOMAIN t : i < j => t[i].hz < t[j].hz BY DEF Tables
  <1> QED BY <1>2, <1>4, <1>5, <1>6

\* A frequency within the table lies in one segment (k, k + 1] only.
LEMMA OneSegment ==
  ASSUME NEW t \in Tables, NEW hz \in Nat,
         NEW k \in 0..(LastPoint(t) - 1), NEW j \in 0..(LastPoint(t) - 1),
         t[k].hz < hz, hz <= t[k + 1].hz, t[j].hz < hz, hz <= t[j + 1].hz
  PROVE  j = k
  <1>1. PICK n \in 1..MaxTable :
           /\ DOMAIN t = 0..(n - 1) /\ LastPoint(t) = n - 1
           /\ \A i \in 0..(n - 1) : t[i].hz \in Nat /\ t[i].db \in (DbMin - 1)..DbMax
           /\ \A i, l \in 0..(n - 1) : i < l => t[i].hz < t[l].hz
    BY TableFacts
  <1>2. n \in Nat BY CorrectionAssumption
  <1>3. /\ k \in Int /\ j \in Int /\ k + 1 \in 0..(n - 1) /\ j + 1 \in 0..(n - 1)
        /\ k \in 0..(n - 1) /\ j \in 0..(n - 1)
    BY <1>1, <1>2
  <1>4. ~(j < k)
    <2>1. SUFFICES ASSUME j < k PROVE FALSE OBVIOUS
    <2>2. t[j + 1].hz <= t[k].hz
      <3>1. j + 1 = k \/ j + 1 < k BY <1>3, <2>1
      <3> QED BY <1>1, <1>3, <3>1
    <2> QED BY <1>1, <1>3, <2>2
  <1>5. ~(k < j)
    <2>1. SUFFICES ASSUME k < j PROVE FALSE OBVIOUS
    <2>2. t[k + 1].hz <= t[j].hz
      <3>1. k + 1 = j \/ k + 1 < j BY <1>3, <2>1
      <3> QED BY <1>1, <1>3, <3>1
    <2> QED BY <1>1, <1>3, <2>2
  <1> QED BY <1>3, <1>4, <1>5

\* What is used of the bounds of a correction.
LEMMA DbBounds ==
  /\ DbMin \in Int /\ DbMax \in Int /\ DbMin <= DbMax
  /\ 0 \in (DbMin - 1)..DbMax
  /\ \A v \in DbMin..DbMax : v \in (DbMin - 1)..DbMax
  /\ \A v \in (DbMin - 1)..DbMax : v \in Int
  <1>1. DbMin \in Int /\ DbMax \in Int /\ DbMin <= 0 /\ 0 <= DbMax BY DEF DbMin, DbMax
  <1>2. DbMin <= DbMax /\ 0 \in (DbMin - 1)..DbMax BY <1>1
  <1>3. \A v \in DbMin..DbMax : v \in (DbMin - 1)..DbMax BY <1>1
  <1>4. \A v \in (DbMin - 1)..DbMax : v \in Int BY <1>1
  <1> QED BY <1>1, <1>2, <1>3, <1>4

-----------------------------------------------------------------------------
(* The interpolation. *)

\* A multiple of d, and less than d more, divided by d.
LEMMA QuotientOfMultiple ==
  ASSUME NEW d \in Nat, d >= 1, NEW q \in Nat, NEW r \in 0..(d - 1)
  PROVE  (q * d + r) \div d = q
  <1>1. q * d + r \in Nat
    <2>1. q * d \in Nat OBVIOUS
    <2> QED BY <2>1
  <1> DEFINE p == (q * d + r) \div d
             s == (q * d + r) % d
  <1>2. p \in Int /\ s \in 0..(d - 1) /\ q * d + r = (d * p) + s
    BY <1>1, DivMod
  <1> HIDE DEF p, s
  <1>3. (d * q) + r = (d * p) + s BY <1>2
  <1>4. q = p BY <1>2, <1>3, RemainderUnique
  <1> QED BY <1>4 DEF p

\* At the first point of a segment the interpolation is exact.
LEMMA ExactAtFirst ==
  ASSUME NEW a, NEW b, a.hz \in Nat, b.hz \in Nat, a.hz < b.hz,
         a.db \in Int, b.db \in Int
  PROVE  Interpolated(a, b, a.hz) = Saturate(a.db)
  <1> DEFINE span == b.hz - a.hz
             half == span \div 2
  <1>1. span \in Nat /\ span >= 1 OBVIOUS
  <1>2. half \in 0..(span - 1) BY <1>1
  <1>3. (b.db - a.db) * (a.hz - a.hz) = 0 OBVIOUS
  <1> HIDE DEF half, span
  <1>4. Quotient(0 + half, span) = 0
    <2>1. (0 * span + half) \div span = 0 BY <1>1, <1>2, QuotientOfMultiple
    <2>2. 0 * span + half = 0 + half /\ 0 + half >= 0 BY <1>1, <1>2
    <2> QED BY <2>1, <2>2 DEF Quotient
  <1>5. Interpolated(a, b, a.hz) = Saturate(a.db + Quotient(0 + half, span))
    BY <1>3 DEF Interpolated, half, span
  <1> QED BY <1>4, <1>5

\* At the second point, too, whether the segment rises or falls.
LEMMA ExactAtSecond ==
  ASSUME NEW a, NEW b, a.hz \in Nat, b.hz \in Nat, a.hz < b.hz,
         a.db \in Int, b.db \in Int
  PROVE  Interpolated(a, b, b.hz) = Saturate(b.db)
  <1> DEFINE span == b.hz - a.hz
             half == span \div 2
             rise == b.db - a.db
             rounded == IF rise * span >= 0 THEN half ELSE -half
  <1>1. span \in Nat /\ span >= 1 /\ rise \in Int OBVIOUS
  <1>2. half \in 0..(span - 1) BY <1>1
  <1>3. Interpolated(a, b, b.hz) = Saturate(a.db + Quotient(rise * span + rounded, span))
    BY DEF Interpolated
  <1>4. a.db + rise = b.db OBVIOUS
  <1> HIDE DEF half, span, rise
  <1>5. Quotient(rise * span + rounded, span) = rise
    <2>1. CASE rise >= 0
      <3>1. rise * span >= 0 /\ rise * span \in Int /\ rise \in Nat BY <1>1, <2>1
      <3>2. rise * span + half >= 0 BY <1>2, <3>1
      <3>3. (rise * span + half) \div span = rise
        BY <1>1, <1>2, <3>1, QuotientOfMultiple
      <3> QED BY <3>1, <3>2, <3>3 DEF Quotient
    <2>2. CASE rise < 0
      <3> DEFINE fall == -rise
      <3>1. fall \in Nat /\ fall >= 1 /\ rise = -fall BY <1>1, <2>2
      <3> HIDE DEF fall
      <3>2. fall * span \in Nat /\ fall * span >= 1 BY <1>1, <3>1
      <3>3. rise * span = -(fall * span) BY <1>1, <3>1
      <3>4. ~(rise * span >= 0) /\ ~(rise * span + (-half) >= 0)
        BY <1>2, <3>2, <3>3
      <3>5. -(rise * span + (-half)) = fall * span + half BY <1>2, <3>2, <3>3
      <3>6. (fall * span + half) \div span = fall
        BY <1>1, <1>2, <3>1, QuotientOfMultiple
      <3> QED BY <3>1, <3>4, <3>5, <3>6 DEF Quotient
    <2> QED BY <1>1, <2>1, <2>2
  <1> QED BY <1>3, <1>4, <1>5

\* An interpolated correction is never INT16_MIN.
LEMMA InterpolatedRange ==
  ASSUME NEW a, NEW b, NEW hz \in Nat, a.hz \in Nat, b.hz \in Nat, a.hz < b.hz,
         a.db \in Int, b.db \in Int
  PROVE  Interpolated(a, b, hz) \in DbMin..DbMax
  <1> DEFINE span == b.hz - a.hz
             numerator == (b.db - a.db) * (hz - a.hz)
             rounded == IF numerator >= 0 THEN span \div 2 ELSE -(span \div 2)
             value == a.db + Quotient(numerator + rounded, span)
  <1>1. span \in Nat /\ span >= 1 /\ numerator \in Int OBVIOUS
  <1>2. span \div 2 \in Int BY <1>1
  <1>3. Interpolated(a, b, hz) = Saturate(value) BY DEF Interpolated
  <1> HIDE DEF span, numerator
  <1>4. numerator + rounded \in Int BY <1>1, <1>2
  <1> HIDE DEF rounded
  <1>5. Quotient(numerator + rounded, span) \in Int BY <1>1, <1>4 DEF Quotient
  <1>6. value \in Int BY <1>5
  <1> HIDE DEF value
  <1> QED BY <1>3, <1>6, DbBounds DEF Saturate

\* Before it is saturated, the interpolation is at most half a step from the
\* line: adding half a divisor first makes the division towards zero one to
\* the nearest, on both sides of zero.
LEMMA RoundedQuotient ==
  ASSUME NEW span \in Nat, span >= 1, NEW n \in Int
  PROVE  LET rounded == IF n >= 0 THEN span \div 2 ELSE -(span \div 2)
             q == Quotient(n + rounded, span)
         IN /\ q \in Int
            /\ 2 * (q * span - n) <= span
            /\ -span <= 2 * (q * span - n)
  <1> DEFINE half == span \div 2
             rounded == IF n >= 0 THEN half ELSE -half
             q == Quotient(n + rounded, span)
  <1>1. half \in Nat /\ 2 * half <= span /\ span - 1 <= 2 * half OBVIOUS
  <1> HIDE DEF half
  <1>2. CASE n >= 0
    <2> DEFINE p == (n + half) \div span
               r == (n + half) % span
    <2>1. n + half \in Nat BY <1>1, <1>2
    <2>2. p \in Int /\ r \in 0..(span - 1) /\ n + half = (span * p) + r
      BY <2>1, DivMod
    <2>3. q = p BY <1>2, <2>1 DEF Quotient
    <2> HIDE DEF p, r, q
    <2>4. q * span = span * p /\ span * p \in Int BY <2>2, <2>3
    <2>5. q * span - n = half - r BY <1>1, <2>2, <2>4
    <2>6. q \in Int /\ 2 * (q * span - n) <= span /\ -span <= 2 * (q * span - n)
      BY <1>1, <2>2, <2>3, <2>5
    <2> QED BY <2>6 DEF q, half
  <1>3. CASE n < 0
    <2> DEFINE m == half - n
               p == m \div span
               r == m % span
    <2>1. m \in Nat /\ m > 0 /\ m = -(n + rounded) /\ ~(n + rounded >= 0)
      BY <1>1, <1>3
    <2>2. p \in Int /\ r \in 0..(span - 1) /\ m = (span * p) + r
      <3> HIDE DEF m
      <3> QED BY <2>1, DivMod
    <2>3. q = -p BY <2>1 DEF Quotient
    <2>4. m = half - n OBVIOUS
    <2> HIDE DEF m, p, r, q
    <2>5. q * span = -(span * p) /\ span * p \in Int BY <2>2, <2>3
    <2>6. q * span - n = r - half BY <1>1, <2>2, <2>4, <2>5
    <2>7. q \in Int /\ 2 * (q * span - n) <= span /\ -span <= 2 * (q * span - n)
      BY <1>1, <2>2, <2>3, <2>6
    <2> QED BY <2>7 DEF q, half
  <1> QED BY <1>2, <1>3

\* A greater correction lies further above the line.
LEMMA ProductMonotone ==
  ASSUME NEW span \in Nat, NEW c \in Int, NEW d \in Int, c <= d
  PROVE  c * span <= d * span
  <1>1. (d - c) * span >= 0 OBVIOUS
  <1>2. (d - c) * span = d * span - c * span OBVIOUS
  <1> QED BY <1>1, <1>2

\* The interpolation is the nearest step to the line; only at the bound below
\* which no correction is allowed it may lie further above it.
LEMMA InterpolatedNear ==
  ASSUME NEW a, NEW b, NEW hz \in Nat, a.hz \in Nat, b.hz \in Nat,
         a.hz < hz, hz < b.hz,
         a.db \in (DbMin - 1)..DbMax, b.db \in (DbMin - 1)..DbMax
  PROVE  LET span == b.hz - a.hz
             c == Interpolated(a, b, hz)
             off == (c - a.db) * span - (b.db - a.db) * (hz - a.hz)
         IN /\ c >= DbMin
            /\ c > DbMin => 2 * off <= span
            /\ -span <= 2 * off
  <1> DEFINE span == b.hz - a.hz
             part == hz - a.hz
             rise == b.db - a.db
             n == rise * part
             rounded == IF n >= 0 THEN span \div 2 ELSE -(span \div 2)
             q == Quotient(n + rounded, span)
             c == Interpolated(a, b, hz)
  <1>1. a.db \in Int /\ b.db \in Int BY DbBounds
  <1>2. /\ span \in Nat /\ span >= 1 /\ part \in Nat /\ part <= span
        /\ rise \in Int /\ n \in Int
    BY <1>1
  <1>3. c = Saturate(a.db + q) BY DEF Interpolated
  <1>4. c \in DbMin..DbMax BY <1>1, InterpolatedRange
  <1>5. b.db = a.db + rise /\ b.db <= DbMax /\ a.db <= DbMax BY <1>1, DbBounds
  <1> HIDE DEF span, part, rise, c
  <1>6. n = rise * part OBVIOUS
  <1> HIDE DEF n
  <1>7. /\ q \in Int /\ 2 * (q * span - n) <= span /\ -span <= 2 * (q * span - n)
    BY <1>2, RoundedQuotient
  <1> HIDE DEF q, rounded
  <1> DEFINE step == c - a.db
  <1>8. c \in Int /\ c >= DbMin /\ step \in Int BY <1>1, <1>4, DbBounds
  <1>9. CASE c = a.db + q
    <2>1. step = q BY <1>1, <1>7, <1>9
    <2>2. /\ 2 * (step * span - n) <= span /\ -span <= 2 * (step * span - n)
      BY <1>7, <2>1
    <2> QED BY <1>8, <2>2, <1>6 DEF c, n, span, part, rise
  <1>10. CASE c = DbMax /\ a.db + q > DbMax
    <2>1. step <= q /\ step >= 0 /\ step >= rise
      BY <1>1, <1>2, <1>5, <1>7, <1>10, DbBounds
    <2>2. step * span <= q * span BY <1>2, <1>7, <1>8, <2>1, ProductMonotone
    <2>3. step * span \in Int /\ q * span \in Int BY <1>2, <1>7, <1>8
    <2> HIDE DEF step
    <2>4. step * span >= n
      <3>1. step * span >= step * part
        <4>1. step \in Nat BY <1>8, <2>1
        <4>2. part * step <= span * step BY <1>2, <4>1, ProductMonotone
        <4> QED BY <1>2, <4>1, <4>2
      <3>2. rise * part <= step * part BY <1>2, <1>8, <2>1, ProductMonotone
      <3>3. step * part \in Int BY <1>2, <1>8
      <3> QED BY <1>2, <1>6, <2>3, <3>1, <3>2, <3>3
    <2>5. /\ 2 * (step * span - n) <= span /\ -span <= 2 * (step * span - n)
      BY <1>2, <1>7, <2>2, <2>3, <2>4
    <2> QED BY <1>8, <2>5, <1>6 DEF step, c, n, span, part, rise
  <1>11. CASE c = DbMin /\ a.db + q < DbMin
    <2>1. q <= step BY <1>1, <1>7, <1>11, DbBounds
    <2>2. q * span <= step * span BY <1>2, <1>7, <1>8, <2>1, ProductMonotone
    <2>3. step * span \in Int /\ q * span \in Int BY <1>2, <1>7, <1>8
    <2>4. ~(c > DbMin) BY <1>11, DbBounds
    <2>5. -span <= 2 * (step * span - n) BY <1>2, <1>7, <2>2, <2>3
    <2> QED BY <1>8, <2>4, <2>5, <1>6 DEF c, n, span, part, rise
  <1>12. a.db + q \in Int BY <1>1, <1>7
  <1> QED BY <1>3, <1>9, <1>10, <1>11, <1>12, DbBounds DEF Saturate

\* The curve within a table is the interpolation on the segment around hz.
LEMMA CurveOfSegment ==
  ASSUME NEW t \in Tables, NEW hz \in Nat, NEW k \in 0..(LastPoint(t) - 1),
         t[0].hz < hz, hz < t[LastPoint(t)].hz,
         t[k].hz < hz, hz <= t[k + 1].hz
  PROVE  OnCurve(t, hz) = Interpolated(t[k], t[k + 1], hz)
  <1> DEFINE Around(i) == t[i].hz < hz /\ hz <= t[i + 1].hz
             c == CHOOSE i \in 0..(LastPoint(t) - 1) : Around(i)
  <1>1. c \in 0..(LastPoint(t) - 1) /\ Around(c) OBVIOUS
  <1>2. t[0].hz \in Nat /\ t[LastPoint(t)].hz \in Nat
    <2>1. PICK n \in 1..MaxTable :
             /\ LastPoint(t) = n - 1
             /\ \A i \in 0..(n - 1) : t[i].hz \in Nat
      BY TableFacts
    <2> QED BY <2>1, CorrectionAssumption
  <1>3. ~(hz <= t[0].hz) /\ ~(hz >= t[LastPoint(t)].hz) BY <1>2
  <1>4. OnCurve(t, hz) = Interpolated(t[c], t[c + 1], hz) BY <1>3 DEF OnCurve
  <1> HIDE DEF c
  <1>5. c = k BY <1>1, OneSegment
  <1> QED BY <1>4, <1>5

-----------------------------------------------------------------------------
(* The cursor. *)

\* Wherever the search starts, it answers with a correction on the curve: at
\* a point between two segments both of them give the point's correction.
LEMMA SearchOnCurve ==
  ASSUME NEW t \in Tables, NEW hz \in Nat, NEW s \in 0..LastPoint(t),
         s = 0 \/ t[s].hz <= hz,
         t[0].hz < hz, hz < t[LastPoint(t)].hz,
         NEW k \in s..(LastPoint(t) - 1), hz <= t[k + 1].hz,
         \A j \in s..(k - 1) : hz > t[j + 1].hz
  PROVE  /\ Interpolated(t[k], t[k + 1], hz) = OnCurve(t, hz)
         /\ Interpolated(t[k], t[k + 1], hz) \in DbMin..DbMax
  <1>1. PICK n \in 1..MaxTable :
           /\ LastPoint(t) = n - 1
           /\ \A i \in 0..(n - 1) : t[i].hz \in Nat /\ t[i].db \in (DbMin - 1)..DbMax
           /\ \A i, l \in 0..(n - 1) : i < l => t[i].hz < t[l].hz
    BY TableFacts
  <1>2. n \in Nat /\ n >= 1 BY CorrectionAssumption
  <1>3. \A i \in 0..(n - 1) : t[i].db \in Int BY <1>1, DbBounds
  <1>4. /\ k \in Int /\ k \in 0..(n - 1) /\ k + 1 \in 0..(n - 1) /\ s \in Int
        /\ k \in 0..(LastPoint(t) - 1)
    BY <1>1, <1>2
  <1>5. /\ t[k].hz \in Nat /\ t[k + 1].hz \in Nat /\ t[k].hz < t[k + 1].hz
        /\ t[k].db \in Int /\ t[k + 1].db \in Int
    BY <1>1, <1>3, <1>4
  <1>6. CASE t[k].hz < hz BY <1>4, <1>6, CurveOfSegment, <1>5, InterpolatedRange
  <1>7. CASE ~(t[k].hz < hz)
    <2>1. k = s
      <3>1. SUFFICES ASSUME k # s PROVE FALSE OBVIOUS
      <3>2. k - 1 \in s..(k - 1) /\ (k - 1) + 1 = k BY <1>4, <3>1
      <3>3. hz > t[k].hz BY <3>2
      <3> QED BY <3>3, <1>5, <1>7
    <2>2. k # 0 BY <1>7
    <2>3. hz = t[k].hz BY <1>5, <1>7, <2>1, <2>2
    <2> DEFINE i == k - 1
    <2>4. /\ i \in 0..(LastPoint(t) - 1) /\ i \in 0..(n - 1) /\ i < k /\ i + 1 = k
      BY <1>1, <1>4, <2>2
    <2> HIDE DEF i
    <2>5. t[i].hz \in Nat /\ t[i].db \in Int /\ t[i].hz < t[k].hz
      BY <1>1, <1>3, <1>4, <2>4
    <2>6. OnCurve(t, hz) = Interpolated(t[i], t[k], hz)
      BY <1>5, <2>3, <2>4, <2>5, CurveOfSegment
    <2>7. Interpolated(t[i], t[k], hz) = Saturate(t[k].db)
      BY <1>5, <2>3, <2>5, ExactAtSecond
    <2>8. Interpolated(t[k], t[k + 1], hz) = Saturate(t[k].db)
      BY <1>5, <2>3, ExactAtFirst
    <2> QED BY <1>5, <2>6, <2>7, <2>8, InterpolatedRange
  <1> QED BY <1>6, <1>7

\* The segment is one of the table's, and the answer is on the curve.
CursorInv == TypeOK /\ AnswerOnCurve

\* A new table starts with segment 0 and no answer.
LEMMA InitCursor == Init => CursorInv
  <1> SUFFICES ASSUME Init PROVE CursorInv OBVIOUS
  <1>1. points \in Tables /\ segment = 0 /\ asked_hz = -1 /\ correction_db32 = 0
    BY DEF Init
  <1>2. 0 \in 0..Last
    <2>1. PICK n \in 1..MaxTable : LastPoint(points) = n - 1 BY <1>1, TableFacts
    <2> QED BY <2>1, CorrectionAssumption DEF Last
  <1> QED BY <1>1, <1>2, CorrectionAssumption, DbBounds
          DEF CursorInv, TypeOK, AnswerOnCurve

\* Every call answers on the curve.
LEMMA NextCursor == CursorInv /\ [Next]_cursorVars => CursorInv'
  <1> SUFFICES ASSUME CursorInv, [Next]_cursorVars PROVE CursorInv' OBVIOUS
  <1> USE DEF CursorInv
  <1>1. CASE CursorInit
    <2>1. PICK n \in 1..MaxTable : LastPoint(points') = n - 1
      BY <1>1, TableFacts DEF CursorInit
    <2>2. Last' = n - 1 BY <2>1 DEF Last
    <2> QED BY <1>1, <2>2, CorrectionAssumption, DbBounds
            DEF CursorInit, TypeOK, AnswerOnCurve
  <1>2. ASSUME NEW hz \in 0..MaxHz, AtEnd(hz) PROVE CursorInv'
    <2>1. PICK n \in 1..MaxTable :
             /\ LastPoint(points) = n - 1
             /\ \A i \in 0..(n - 1) : points[i].hz \in Nat
                                      /\ points[i].db \in (DbMin - 1)..DbMax
      BY TableFacts DEF TypeOK
    <2>2. n - 1 \in 0..(n - 1) /\ 0 \in 0..(n - 1) BY CorrectionAssumption
    <2>3. points' = points /\ Last' = Last /\ asked_hz' = hz
      BY <1>2 DEF AtEnd, Last
    <2>4. hz \in Nat /\ hz \in -1..MaxHz BY CorrectionAssumption
    <2>5. CASE hz <= points[0].hz /\ segment' = 0
      <3>1. correction_db32' = points[0].db BY <1>2, <2>5 DEF AtEnd
      <3> QED BY <2>1, <2>2, <2>3, <2>4, <2>5, <3>1
              DEF TypeOK, AnswerOnCurve, OnCurve, Last
    <2>6. CASE hz > points[0].hz /\ hz >= points[Last].hz /\ segment' = Last
      <3>1. correction_db32' = points[Last].db BY <1>2, <2>6 DEF AtEnd
      <3>2. ~(hz <= points[0].hz) BY <2>1, <2>2, <2>4, <2>6
      <3> QED BY <2>1, <2>2, <2>3, <2>4, <2>6, <3>1, <3>2
              DEF TypeOK, AnswerOnCurve, OnCurve, Last
    <2> QED BY <1>2, <2>5, <2>6 DEF AtEnd
  <1>3. ASSUME NEW hz \in 0..MaxHz, AtInner(hz) PROVE CursorInv'
    <2>1. PICK k \in Start(hz)..(Last - 1) :
             /\ hz <= points[k + 1].hz
             /\ \A j \in Start(hz)..(k - 1) : hz > points[j + 1].hz
             /\ segment' = k
             /\ correction_db32' = Interpolated(points[k], points[k + 1], hz)
      BY <1>3 DEF AtInner
    <2>2. PICK n \in 1..MaxTable :
             /\ LastPoint(points) = n - 1
             /\ \A i \in 0..(n - 1) : points[i].hz \in Nat
      BY TableFacts DEF TypeOK
    <2>3. n \in Nat /\ n >= 1 /\ hz \in Nat /\ hz \in -1..MaxHz
      BY CorrectionAssumption
    <2>4. Last = LastPoint(points) BY DEF Last
    <2>5. segment \in 0..(n - 1) BY <2>2, <2>4 DEF TypeOK
    <2>6. /\ Start(hz) \in 0..LastPoint(points)
          /\ Start(hz) = 0 \/ points[Start(hz)].hz <= hz
      <3>1. 0 \in 0..LastPoint(points) /\ segment \in 0..LastPoint(points)
            /\ points[segment].hz \in Nat
        BY <2>2, <2>3, <2>5
      <3>2. CASE segment >= Last \/ hz < points[segment].hz
        <4>1. Start(hz) = 0 BY <3>2 DEF Start
        <4> QED BY <3>1, <4>1
      <3>3. CASE ~(segment >= Last \/ hz < points[segment].hz)
        <4>1. Start(hz) = segment BY <3>3 DEF Start
        <4>2. points[segment].hz <= hz BY <2>3, <3>1, <3>3
        <4> QED BY <3>1, <4>1, <4>2
      <3> QED BY <3>2, <3>3
    <2>7. points[0].hz < hz /\ hz < points[LastPoint(points)].hz
      BY <1>3, <2>4 DEF AtInner
    <2>8. points' = points /\ asked_hz' = hz BY <1>3 DEF AtInner
    <2>9. /\ correction_db32' = OnCurve(points, hz)
          /\ correction_db32' \in DbMin..DbMax
      BY <2>1, <2>3, <2>4, <2>6, <2>7, SearchOnCurve DEF TypeOK
    <2>10. segment' \in 0..Last BY <2>1, <2>2, <2>3, <2>4, <2>6
    <2>11. Last' = Last BY <2>8 DEF Last
    <2> QED BY <2>3, <2>8, <2>9, <2>10, <2>11, DbBounds
            DEF TypeOK, AnswerOnCurve
  <1>4. CASE UNCHANGED cursorVars
    BY <1>4 DEF cursorVars, TypeOK, AnswerOnCurve, Last
  <1> QED BY <1>1, <1>2, <1>3, <1>4 DEF Next

\* Whatever was asked before, zs407_correction_at answers with the correction
\* the table alone gives (zs407_core.c:83-131), and it reads no point outside
\* the table.
THEOREM AnswersOnCurve == Spec => [](TypeOK /\ AnswerOnCurve)
  BY InitCursor, NextCursor, PTL DEF Spec, CursorInv

\* An answer on the curve of a table is next to the line of its segment.
LEMMA CurveNearest == TypeOK /\ AnswerOnCurve => NearestToLine
  <1> SUFFICES ASSUME TypeOK, AnswerOnCurve,
                      NEW k \in 0..(Last - 1),
                      points[k].hz < asked_hz, asked_hz < points[k + 1].hz
               PROVE  LET a == points[k]
                          b == points[k + 1]
                          span == b.hz - a.hz
                          off == (correction_db32 - a.db) * span
                                 - (b.db - a.db) * (asked_hz - a.hz)
                      IN /\ correction_db32 >= DbMin
                         /\ correction_db32 > DbMin => 2 * off <= span
                         /\ -span <= 2 * off
    BY DEF NearestToLine
  <1>1. points \in Tables /\ asked_hz \in -1..MaxHz BY DEF TypeOK
  <1>2. PICK n \in 1..MaxTable :
           /\ LastPoint(points) = n - 1
           /\ \A i \in 0..(n - 1) : points[i].hz \in Nat
                                    /\ points[i].db \in (DbMin - 1)..DbMax
           /\ \A i, l \in 0..(n - 1) : i < l => points[i].hz < points[l].hz
    BY <1>1, TableFacts
  <1>3. n \in Nat /\ n >= 1 /\ Last = n - 1 BY <1>2, CorrectionAssumption DEF Last
  <1>4. /\ k \in Int /\ k \in 0..(n - 1) /\ k + 1 \in 0..(n - 1)
        /\ k \in 0..(LastPoint(points) - 1)
        /\ 0 \in 0..(n - 1) /\ n - 1 \in 0..(n - 1)
    BY <1>2, <1>3
  <1>5. asked_hz \in Int BY <1>1, CorrectionAssumption
  <1>6. asked_hz \in Nat BY <1>2, <1>4, <1>5
  <1>7. points[0].hz < asked_hz
    <2>1. points[0].hz <= points[k].hz BY <1>2, <1>4
    <2> QED BY <1>2, <1>4, <1>5, <2>1
  <1>8. asked_hz < points[LastPoint(points)].hz
    <2>1. points[k + 1].hz <= points[n - 1].hz
      <3>1. k + 1 = n - 1 \/ k + 1 < n - 1 BY <1>3, <1>4
      <3> QED BY <1>2, <1>4, <3>1
    <2> QED BY <1>2, <1>4, <1>5, <2>1
  <1>9. asked_hz <= points[k + 1].hz BY <1>2, <1>4, <1>5
  <1>10. OnCurve(points, asked_hz) = Interpolated(points[k], points[k + 1], asked_hz)
    BY <1>1, <1>4, <1>6, <1>7, <1>8, <1>9, CurveOfSegment
  <1>11. correction_db32 = Interpolated(points[k], points[k + 1], asked_hz)
    BY <1>6, <1>10 DEF AnswerOnCurve
  <1> QED BY <1>2, <1>4, <1>6, <1>11, InterpolatedNear

\* Between two points of any table the answer is the nearest step to their
\* line, whether it rises or falls, and never INT16_MIN (zs407_core.c:113-130).
THEOREM AnswersNearest == Spec => []NearestToLine
  BY AnswersOnCurve, CurveNearest, PTL

-----------------------------------------------------------------------------
(* The bus. *)

\* Who waits is a client, and was overtaken by more urgent ones only.
BusInv == /\ pending_mask \subseteq Clients
          /\ overtakers \in [Clients -> SUBSET Clients]
          /\ OvertakenByUrgentOnly

\* Nobody waits at first.
LEMMA InitBus == BusInit => BusInv
  BY DEF BusInit, BusInv, OvertakenByUrgentOnly

\* The bus goes to the least number, and who begins to wait was not overtaken.
LEMMA NextBus == BusInv /\ [BusNext]_busVars => BusInv'
  <1> SUFFICES ASSUME BusInv, [BusNext]_busVars PROVE BusInv' OBVIOUS
  <1> USE DEF BusInv, OvertakenByUrgentOnly
  <1>1. CASE GrantNext
    <2>1. Chosen \in pending_mask /\ \A d \in pending_mask : Chosen <= d
      <3>1. /\ pending_mask \in SUBSET (0..(ClientCount - 1)) /\ pending_mask # {}
            /\ ClientCount - 1 \in Int
        BY <1>1, BusAssumption DEF GrantNext, Clients
      <3> QED BY <3>1, LeastNumber DEF Chosen
    <2>2. Clients \subseteq Int BY BusAssumption DEF Clients
    <2>3. \A c \in pending_mask \ {Chosen} : Chosen < c BY <2>1, <2>2
    <2> QED BY <1>1, <2>1, <2>3 DEF GrantNext
  <1>2. ASSUME NEW c \in Clients, Request(c) PROVE BusInv'
    BY <1>2 DEF Request
  <1>3. ASSUME NEW c \in Clients, Release(c) PROVE BusInv'
    BY <1>3 DEF Release
  <1>4. CASE UNCHANGED busVars BY <1>4 DEF busVars
  <1> QED BY <1>1, <1>2, <1>3, <1>4 DEF BusNext

\* However the clients request and release, the bus goes past one that waits
\* to more urgent ones only (zs407_services.c:96-132).
THEOREM BusByUrgency == BusSpec => []OvertakenByUrgentOnly
  <1>1. BusInv => OvertakenByUrgentOnly BY DEF BusInv
  <1> QED BY <1>1, InitBus, NextBus, PTL DEF BusSpec

-----------------------------------------------------------------------------
(* The dirty tiles. *)

\* Tiles further right are not numbered lower.
LEMMA DivMonotone ==
  ASSUME NEW C \in Nat, C >= 1, NEW a \in Nat, NEW b \in Nat, a <= b
  PROVE  a \div C <= b \div C
  <1> DEFINE p == a \div C
             q == b \div C
             r == a % C
             s == b % C
  <1>1. /\ p \in Int /\ r \in 0..(C - 1) /\ a = (C * p) + r
        /\ q \in Int /\ s \in 0..(C - 1) /\ b = (C * q) + s
    BY DivMod
  <1> HIDE DEF p, q, r, s
  <1>2. ~(q < p)
    <2>1. SUFFICES ASSUME q < p PROVE FALSE OBVIOUS
    <2>2. (C * q) + C <= C * p BY <1>1, <2>1, MultiplesApart
    <2> QED BY <1>1, <2>2
  <1>3. p <= q BY <1>1, <1>2
  <1> QED BY <1>3 DEF p, q

\* A pixel left of the end of the last tile is in a tile.
LEMMA DivBelow ==
  ASSUME NEW C \in Nat, C >= 1, NEW k \in Nat, NEW a \in Nat, a < C * k
  PROVE  a \div C \in 0..(k - 1)
  <1> DEFINE p == a \div C
             r == a % C
  <1>1. p \in Int /\ r \in 0..(C - 1) /\ a = (C * p) + r BY DivMod
  <1>2. p >= 0 OBVIOUS
  <1> HIDE DEF p, r
  <1>3. p < k
    <2>1. SUFFICES ASSUME ~(p < k) PROVE FALSE OBVIOUS
    <2>2. p = k \/ (C * k) + C <= C * p BY <1>1, <2>1, MultiplesApart
    <2> QED BY <1>1, <2>2
  <1>4. p \in 0..(k - 1) BY <1>1, <1>2, <1>3
  <1> QED BY <1>4 DEF p

\* Every pixel of the screen is in a tile of the screen.
LEMMA TileOnScreen ==
  ASSUME NEW pixel \in Pixels
  PROVE  TileCount \in Nat /\ TileOf(pixel) \in 0..(TileCount - 1)
  <1> DEFINE rows == Height \div TileSize
             column == pixel.x \div TileSize
             row == pixel.y \div TileSize
  <1>1. /\ TileSize \in Nat /\ TileSize >= 1 /\ Width \in Nat /\ Height \in Nat
        /\ Width % TileSize = 0 /\ Height % TileSize = 0
    BY TilesAssumption
  <1>2. /\ pixel.x \in Nat /\ pixel.x < Width /\ pixel.y \in Nat /\ pixel.y < Height
    BY <1>1 DEF Pixels
  <1>3. TileColumns \in Nat /\ Width = TileSize * TileColumns
    BY <1>1, DivMod DEF TileColumns
  <1>4. rows \in Nat /\ Height = TileSize * rows BY <1>1, DivMod
  <1> HIDE DEF rows
  <1>5. column \in 0..(TileColumns - 1) BY <1>1, <1>2, <1>3, DivBelow
  <1>6. row \in 0..(rows - 1) BY <1>1, <1>2, <1>4, DivBelow
  <1>7. TileCount = TileColumns * rows BY DEF TileCount, rows
  <1>8. TileOf(pixel) = row * TileColumns + column BY DEF TileOf
  <1> HIDE DEF row, column
  <1>9. TileColumns * rows \in Nat BY <1>3, <1>4
  <1>10. row * TileColumns \in Nat /\ row * TileColumns + TileColumns <= TileColumns * rows
    <2>1. row \in Nat /\ row < rows BY <1>4, <1>6
    <2>2. TileColumns * row + TileColumns <= TileColumns * rows
      <3>1. CASE TileColumns = 0 BY <3>1, <2>1, <1>4
      <3>2. CASE TileColumns >= 1 BY <3>2, <2>1, <1>3, <1>4, MultiplesApart
      <3> QED BY <1>3, <3>1, <3>2
    <2> QED BY <2>1, <2>2, <1>3
  <1> QED BY <1>3, <1>5, <1>7, <1>8, <1>9, <1>10

\* Making everything dirty marks every tile of the screen, and the mask of the
\* last word takes away no tile's bit.
LEMMA AllMarked ==
  ASSUME NEW pixel \in Pixels, InvalidateAll
  PROVE  TileOf(pixel) \in words'
  <1> DEFINE t == TileOf(pixel)
             q == TileCount \div WordBits
             r == TileCount % WordBits
  <1>1. WordBits \in Nat /\ WordBits >= 1 BY TilesAssumption
  <1>2. TileCount \in Nat /\ t \in 0..(TileCount - 1) BY TileOnScreen
  <1>3. q \in Nat /\ r \in 0..(WordBits - 1) /\ TileCount = (WordBits * q) + r
    <2>1. q \in Int /\ r \in 0..(WordBits - 1) /\ TileCount = (WordBits * q) + r
      BY <1>1, <1>2, DivMod
    <2>2. q >= 0 BY <1>1, <1>2
    <2> QED BY <2>1, <2>2
  <1>4. r # 0 BY TilesAssumption
  <1> HIDE DEF t
  <1>5. TileWords = q + 1
    <2> DEFINE p == (TileCount + WordBits - 1) \div WordBits
               s == (TileCount + WordBits - 1) % WordBits
    <2>1. TileCount + WordBits - 1 \in Nat BY <1>1, <1>2
    <2>2. /\ p \in Int /\ s \in 0..(WordBits - 1)
          /\ TileCount + WordBits - 1 = (WordBits * p) + s
      BY <1>1, <2>1, DivMod
    <2>3. p = TileWords BY DEF TileWords
    <2> HIDE DEF p, s, q, r
    <2> DEFINE q1 == q + 1
               r1 == r - 1
    <2>4. q1 \in Int /\ r1 \in 0..(WordBits - 1) BY <1>1, <1>3, <1>4
    <2>5. WordBits * q1 = (WordBits * q) + WordBits /\ WordBits * q \in Int
      BY <1>1, <1>3
    <2>6. (WordBits * q1) + r1 = (WordBits * p) + s
      <3> HIDE DEF q1
      <3> QED BY <1>1, <1>3, <2>2, <2>5
    <2> HIDE DEF q1, r1
    <2>7. q1 = p BY <1>1, <2>2, <2>4, <2>6, RemainderUnique
    <2> QED BY <2>3, <2>7 DEF q1
  <1> HIDE DEF q, r
  <1>6. TileWords * WordBits = (WordBits * q) + WordBits /\ WordBits * q \in Nat
    BY <1>1, <1>3, <1>5
  <1>7. t \in Bits
    <2>1. t < (WordBits * q) + WordBits BY <1>1, <1>2, <1>3, <1>6
    <2> QED BY <1>1, <1>2, <1>6, <2>1 DEF Bits
  <1>8. WordOf(t) = TileWords - 1 => t % WordBits < r
    <2> DEFINE s == t % WordBits
    <2>1. SUFFICES ASSUME t \div WordBits = q PROVE s < r BY <1>3, <1>5 DEF WordOf
    <2>2. s \in 0..(WordBits - 1) /\ t = (WordBits * (t \div WordBits)) + s
      BY <1>1, <1>2, DivMod
    <2>3. t = (WordBits * q) + s BY <2>1, <2>2
    <2> HIDE DEF s
    <2> QED BY <1>1, <1>2, <1>3, <1>6, <2>2, <2>3
  <1> QED BY <1>7, <1>8 DEF InvalidateAll, t, r

\* A pixel between the ends of an interval is in a tile of its span, however
\* the interval was clipped.
LEMMA InSpan ==
  ASSUME NEW from \in Int, NEW length \in Int, NEW limit \in Nat,
         NEW pixel \in 0..(limit - 1), from <= pixel, pixel < from + length
  PROVE  pixel \div TileSize \in Span(from, length, limit)
  <1> DEFINE first == Max({from, 0})
             end == Min({from + length, limit}) - 1
  <1>1. TileSize \in Nat /\ TileSize >= 1 BY TilesAssumption
  <1>2. first \in Nat /\ first <= pixel BY MaxOfTwo
  <1>3. end \in Nat /\ pixel <= end BY MinOfTwo
  <1>4. Span(from, length, limit) = (first \div TileSize)..(end \div TileSize)
    BY DEF Span
  <1> HIDE DEF first, end
  <1>5. pixel \in Nat OBVIOUS
  <1>6. /\ first \div TileSize <= pixel \div TileSize
        /\ pixel \div TileSize <= end \div TileSize
    BY <1>1, <1>2, <1>3, <1>5, DivMonotone
  <1>7. pixel \div TileSize \in Int BY <1>1, <1>5
  <1> QED BY <1>4, <1>6, <1>7

\* An invalidated pixel's tile is dirty.
LEMMA InsideMarked ==
  ASSUME NEW pixel \in Pixels, NEW r \in Rectangles, Inside(pixel, r), Invalidate(r)
  PROVE  TileOf(pixel) \in words'
  <1>1. r.x \in Int /\ r.y \in Int /\ r.width \in Int /\ r.height \in Int
    BY TilesAssumption DEF Rectangles
  <1>2. /\ Width \in Nat /\ Height \in Nat
        /\ pixel.x \in 0..(Width - 1) /\ pixel.y \in 0..(Height - 1)
    BY TilesAssumption DEF Pixels
  <1>3. ~OffScreen(r) BY <1>1, <1>2 DEF OffScreen, Inside
  <1>4. /\ pixel.x \div TileSize \in Span(r.x, r.width, Width)
        /\ pixel.y \div TileSize \in Span(r.y, r.height, Height)
    BY <1>1, <1>2, InSpan DEF Inside
  <1> QED BY <1>3, <1>4 DEF Invalidate, TileOf

\* The watched pixel is one of the screen, its tile dirty while it is stale.
TilesInv == watched \in Pixels /\ StaleIsDirty

\* Nothing is stale at first.
LEMMA InitTiles == TilesInit => TilesInv
  BY DEF TilesInit, TilesInv, StaleIsDirty

\* Every operation keeps the tile of a stale pixel dirty.
LEMMA NextTiles == TilesInv /\ [TilesNext]_tileVars => TilesInv'
  <1> SUFFICES ASSUME TilesInv, [TilesNext]_tileVars PROVE TilesInv' OBVIOUS
  <1>1. watched \in Pixels /\ (stale => TileOf(watched) \in words)
    BY DEF TilesInv, StaleIsDirty
  <1>2. SUFFICES watched' = watched /\ (stale' => TileOf(watched) \in words')
    BY <1>1 DEF TilesInv, StaleIsDirty
  <1>3. CASE Clear BY <1>3 DEF Clear
  <1>4. CASE InvalidateAll BY <1>1, <1>4, AllMarked DEF InvalidateAll
  <1>5. CASE Pop BY <1>1, <1>5 DEF Pop
  <1>6. ASSUME NEW r \in Rectangles, Invalidate(r)
        PROVE  watched' = watched /\ (stale' => TileOf(watched) \in words')
    <2>1. CASE Inside(watched, r)
      <3>1. TileOf(watched) \in words' BY <1>1, <1>6, <2>1, InsideMarked
      <3> QED BY <1>6, <3>1 DEF Invalidate
    <2>2. CASE ~Inside(watched, r)
      <3>1. watched' = watched /\ stale' = (stale \/ Inside(watched, r)) /\ words \subseteq words'
        BY <1>6 DEF Invalidate
      <3> QED BY <1>1, <2>2, <3>1
    <2> QED BY <2>1, <2>2
  <1>7. CASE UNCHANGED tileVars BY <1>1, <1>7 DEF tileVars
  <1> QED BY <1>3, <1>4, <1>5, <1>6, <1>7 DEF TilesNext

\* Whatever rectangles are invalidated, on every screen of whole tiles: a pixel
\* that is stale has its tile dirty until the tile is handed out to be drawn
\* (zs407_ui_model.c:6-74).
THEOREM StaleStaysDirty == TilesSpec => []StaleIsDirty
  <1>1. TilesInv => StaleIsDirty BY DEF TilesInv
  <1> QED BY <1>1, InitTiles, NextTiles, PTL DEF TilesSpec

-----------------------------------------------------------------------------
(***************************************************************************)
(* The RSSI buffer.  While it fills, every slot holds a sample as old as its  *)
(* distance behind the next slot (Circle); the window ends after as many       *)
(* samples as the trigger mode wants after the one that fired; it is read from  *)
(* where filling ended, once round (Reading).                                   *)
(***************************************************************************)

N == BufferPoints

\* How many samples ago the slot k was filled, where e is filled next.
Behind(e, k) == IF k < e THEN e - 1 - k ELSE e - 1 - k + N

\* How many samples are left until the slot b is next again.
Ahead(e, b) == IF e < b THEN b - e ELSE b - e + N

Circle(a, e) == \A k \in Rssi!Slots : a[k] = Behind(e, k)
Begun(a, e) == \A k \in Rssi!Slots : k < e => a[k] = e - 1 - k

\* The samples the window needs after the one that fired, by the position of that one.
Wanted(p) == N - 1 - p

RssiTypes ==
  /\ setting \in Rssi!Settings
  /\ fill_i \in Rssi!Slots /\ buf_index \in Rssi!Slots /\ buf_end \in Rssi!Slots
  /\ point \in Rssi!Slots /\ age \in [Rssi!Slots -> Int] /\ trace \in [Rssi!Slots -> Int]
  /\ since \in Int

FillInv ==
  pc = "trigger" =>
    /\ setting.measures = "triggered" /\ waiting \in {"ARMING", "WAITING", "FILLING"} /\ point = 0
    /\ waiting = "ARMING" =>
         data_level = Rssi!Undef /\ fill_i < N - 1 /\ Begun(age, fill_i)
    /\ waiting = "WAITING" /\ data_level = Rssi!Undef => fill_i = N - 1 /\ Begun(age, fill_i)
    /\ waiting = "WAITING" /\ data_level # Rssi!Undef => Circle(age, fill_i)
    /\ waiting = "FILLING" =>
         /\ Circle(age, fill_i) /\ setting.mode # "POST"
         /\ since = Wanted(Rssi!TriggerPosition) - Ahead(fill_i, buf_index)

\* The sweep shows a whole window.
Shows == setting.measures = "triggered" /\ ~setting.decay /\ ~setting.spur

Reading ==
  pc = "measure" /\ Shows /\ ~operation_requested =>
    /\ buf_read /\ Circle(age, buf_end) /\ since = Wanted(Rssi!TriggerPosition)
    /\ buf_index = (IF buf_end + point < N THEN buf_end + point ELSE buf_end + point - N)
    /\ \A k \in Rssi!Slots : k < point => trace[k] = N - 1 - k

Shown ==
  completed =>
    /\ pc = "idle"
    /\ Shows => since = Wanted(Rssi!TriggerPosition)
                /\ \A k \in Rssi!Slots : trace[k] = N - 1 - k

\* Only with spur removal a point has a second pass.
PcKnown ==
  /\ pc \in {"idle", "fill", "trigger", "measure"} /\ (pc = "fill" => setting.measures = "fast")
  /\ spur_second_pass \in BOOLEAN /\ (spur_second_pass => setting.spur /\ pc # "idle")

RssiInv == RssiTypes /\ PcKnown /\ FillInv /\ Reading /\ Shown

\* The slots and what is in them.
LEMMA SlotFacts ==
  /\ N \in Nat /\ N >= 2 /\ Rssi!Slots = 0 .. N - 1
  /\ \A k \in Rssi!Slots : k \in Nat /\ k < N
  /\ 0 \in Rssi!Slots
  /\ \A k \in Rssi!Slots : Rssi!After(k) \in Rssi!Slots
                           /\ Rssi!After(k) = IF k = N - 1 THEN 0 ELSE k + 1
  /\ Rssi!Old \in Nat /\ Rssi!Old > N
  /\ Rssi!Stale \in [Rssi!Slots -> Int]
  <1>1. N \in Nat /\ N >= 2 /\ Rssi!Slots = 0 .. N - 1 BY BufferAssumption DEF N, Rssi!Slots
  <1>2. \A k \in Rssi!Slots : k \in Nat /\ k < N BY <1>1
  <1>3. 0 \in Rssi!Slots BY <1>1
  <1>4. ASSUME NEW k \in Rssi!Slots
        PROVE  Rssi!After(k) \in Rssi!Slots /\ Rssi!After(k) = IF k = N - 1 THEN 0 ELSE k + 1
    <2>1. Rssi!After(k) = IF k + 1 >= N THEN 0 ELSE k + 1 BY DEF Rssi!After, N
    <2> QED BY <1>1, <1>2, <2>1
  <1>5. Rssi!Old \in Nat /\ Rssi!Old > N
    <2>1. Rssi!Old = 3 * N BY DEF Rssi!Old, N
    <2> QED BY <1>1, <2>1
  <1>6. Rssi!Stale \in [Rssi!Slots -> Int]
    <2>1. Rssi!Old \in Int BY <1>5
    <2> QED BY <2>1 DEF Rssi!Stale
  <1> QED BY <1>1, <1>2, <1>3, <1>4, <1>5, <1>6

\* One more sample ages the others by one.
LEMMA AgedFacts ==
  ASSUME NEW b \in [Rssi!Slots -> Int]
  PROVE  /\ Rssi!Aged(b) \in [Rssi!Slots -> Int]
         /\ \A k \in Rssi!Slots : b[k] < N => Rssi!Aged(b)[k] = b[k] + 1
  <1>1. \A x \in Int : Rssi!Earlier(x) \in Int /\ (x < N => Rssi!Earlier(x) = x + 1)
    BY SlotFacts DEF Rssi!Earlier
  <1>2. \A k \in Rssi!Slots : b[k] \in Int OBVIOUS
  <1> QED BY <1>1, <1>2 DEF Rssi!Aged

\* What Sampled does to the next slot and to the array.
LEMMA SampledFacts ==
  ASSUME RssiTypes, Rssi!Sampled
  PROVE  /\ fill_i' \in Rssi!Slots /\ age' \in [Rssi!Slots -> Int]
         /\ fill_i' = IF fill_i = N - 1 THEN 0 ELSE fill_i + 1
         /\ age'[fill_i] = 0
         /\ \A k \in Rssi!Slots : k # fill_i /\ age[k] < N => age'[k] = age[k] + 1
  <1>1. /\ fill_i \in Rssi!Slots /\ age \in [Rssi!Slots -> Int]
        /\ age' = [Rssi!Aged(age) EXCEPT ![fill_i] = 0] /\ fill_i' = Rssi!After(fill_i)
    BY DEF RssiTypes, Rssi!Sampled
  <1>2. Rssi!Aged(age) \in [Rssi!Slots -> Int] BY <1>1, AgedFacts
  <1>3. \A k \in Rssi!Slots : k # fill_i /\ age[k] < N => age'[k] = age[k] + 1
    BY <1>1, <1>2, AgedFacts
  <1>4. age'[fill_i] = 0 /\ age' \in [Rssi!Slots -> Int] BY <1>1, <1>2
  <1>5. fill_i' \in Rssi!Slots /\ fill_i' = IF fill_i = N - 1 THEN 0 ELSE fill_i + 1
    BY <1>1, SlotFacts
  <1> QED BY <1>3, <1>4, <1>5

\* A slot that is filled stays as far behind as its sample is old.
LEMMA CircleGoesOn ==
  ASSUME RssiTypes, Rssi!Sampled, Circle(age, fill_i)
  PROVE  Circle(age', fill_i')
  <1> SUFFICES ASSUME NEW k \in Rssi!Slots PROVE age'[k] = Behind(fill_i', k) BY DEF Circle
  <1>1. /\ N \in Nat /\ N >= 2 /\ k \in Nat /\ k < N /\ fill_i \in Nat /\ fill_i < N
        /\ fill_i' = IF fill_i = N - 1 THEN 0 ELSE fill_i + 1
    BY SlotFacts, SampledFacts DEF RssiTypes
  <1>2. age[k] = Behind(fill_i, k) BY DEF Circle
  <1>3. CASE k = fill_i
    <2>1. Behind(fill_i', k) = 0 BY <1>1, <1>3 DEF Behind
    <2> QED BY <1>3, <2>1, SampledFacts
  <1>4. CASE k # fill_i
    <2>1. Behind(fill_i, k) < N /\ Behind(fill_i', k) = Behind(fill_i, k) + 1
      BY <1>1, <1>4 DEF Behind
    <2> QED BY <1>2, <1>4, <2>1, SampledFacts
  <1> QED BY <1>3, <1>4

\* The first samples fill the array from its start.
LEMMA BegunGoesOn ==
  ASSUME RssiTypes, Rssi!Sampled, Begun(age, fill_i)
  PROVE  /\ fill_i < N - 1 => Begun(age', fill_i')
         /\ fill_i = N - 1 => Circle(age', fill_i')
  <1>1. /\ N \in Nat /\ N >= 2 /\ fill_i \in Nat /\ fill_i < N
        /\ fill_i' = IF fill_i = N - 1 THEN 0 ELSE fill_i + 1
    BY SlotFacts, SampledFacts DEF RssiTypes
  <1>2. ASSUME NEW k \in Rssi!Slots, k <= fill_i PROVE age'[k] = fill_i - k
    <2>1. k \in Nat /\ k < N BY SlotFacts
    <2>2. CASE k = fill_i BY <1>1, <2>1, <2>2, SampledFacts
    <2>3. CASE k # fill_i
      <3>1. age[k] = fill_i - 1 - k BY <1>1, <1>2, <2>1, <2>3 DEF Begun
      <3>2. fill_i - 1 - k < N /\ (fill_i - 1 - k) + 1 = fill_i - k BY <1>1, <2>1
      <3> QED BY <2>3, <3>1, <3>2, SampledFacts
    <2> QED BY <2>2, <2>3
  <1>3. ASSUME fill_i < N - 1 PROVE Begun(age', fill_i')
    <2> SUFFICES ASSUME NEW k \in Rssi!Slots, k < fill_i' PROVE age'[k] = fill_i' - 1 - k
      BY DEF Begun
    <2>1. k \in Nat /\ fill_i' = fill_i + 1 BY <1>1, <1>3, SlotFacts
    <2>2. k <= fill_i /\ fill_i' - 1 - k = fill_i - k BY <1>1, <2>1
    <2> QED BY <1>2, <2>2
  <1>4. ASSUME fill_i = N - 1 PROVE Circle(age', fill_i')
    <2> SUFFICES ASSUME NEW k \in Rssi!Slots PROVE age'[k] = Behind(fill_i', k) BY DEF Circle
    <2>1. k \in Nat /\ k < N /\ fill_i' = 0 BY <1>1, <1>4, SlotFacts
    <2>2. k <= fill_i /\ Behind(fill_i', k) = fill_i - k BY <1>1, <1>4, <2>1 DEF Behind
    <2> QED BY <1>2, <2>2
  <1> QED BY <1>3, <1>4

\* The settings, one by one.
LEMMA SettingFacts ==
  ASSUME setting \in Rssi!Settings
  PROVE  setting.mode \in {"PRE", "MID", "POST"} /\ setting.up \in 0 .. 1
         /\ setting.decay \in BOOLEAN /\ setting.spur \in BOOLEAN
         /\ setting.measures \in {"triggered", "fast", "direct"}
  <1> DEFINE Known(s) ==
        /\ s.mode \in {"PRE", "MID", "POST"} /\ s.up \in 0 .. 1
        /\ s.decay \in BOOLEAN /\ s.spur \in BOOLEAN
        /\ s.measures \in {"triggered", "fast", "direct"}
  <1>1. ASSUME NEW s \in [measures: {"triggered"}, mode: {"PRE", "MID", "POST"}, up: 0 .. 1,
                          decay: BOOLEAN, spur: BOOLEAN]
        PROVE  Known(s)
    OBVIOUS
  <1>2. ASSUME NEW s \in [measures: {"fast"}, mode: {"PRE"}, up: {1}, decay: BOOLEAN,
                          spur: {FALSE}]
        PROVE  Known(s)
    <2>1. s.up = 1 /\ s.measures = "fast" /\ s.mode = "PRE" OBVIOUS
    <2>2. s.decay \in BOOLEAN /\ s.spur \in {FALSE} BY Zenon
    <2>3. s.spur \in BOOLEAN BY <2>2, Zenon
    <2> QED BY <2>1, <2>2, <2>3
  <1>3. ASSUME NEW s \in [measures: {"direct"}, mode: {"PRE"}, up: {1}, decay: BOOLEAN,
                          spur: BOOLEAN]
        PROVE  Known(s)
    <2>1. s.up = 1 /\ s.measures = "direct" /\ s.mode = "PRE" OBVIOUS
    <2>2. s.decay \in BOOLEAN /\ s.spur \in BOOLEAN BY Zenon
    <2> QED BY <2>1, <2>2
  <1>4. \/ setting \in [measures: {"triggered"}, mode: {"PRE", "MID", "POST"}, up: 0 .. 1,
                         decay: BOOLEAN, spur: BOOLEAN]
        \/ setting \in [measures: {"fast"}, mode: {"PRE"}, up: {1}, decay: BOOLEAN,
                         spur: {FALSE}]
        \/ setting \in [measures: {"direct"}, mode: {"PRE"}, up: {1}, decay: BOOLEAN,
                         spur: BOOLEAN]
    BY DEF Rssi!Settings, Rssi!Levels
  <1>5. Known(setting) BY <1>1, <1>2, <1>3, <1>4
  <1> QED BY <1>5

\* The window begins behind the sample that fired, as far as its mode wants.
LEMMA WindowFacts ==
  ASSUME setting \in Rssi!Settings, NEW t \in Rssi!Slots
  PROVE  /\ Rssi!WindowStart(t) \in Rssi!Slots
         /\ setting.mode # "POST" =>
              Wanted(Rssi!TriggerPosition) - Ahead(t, Rssi!WindowStart(t)) = 0
         /\ setting.mode = "POST" => Rssi!WindowStart(t) = t /\ Wanted(Rssi!TriggerPosition) = 0
  <1> DEFINE h == N \div 2
  <1>1. /\ N \in Nat /\ N >= 2 /\ t \in Nat /\ t < N
        /\ \A k \in Nat : k < N => k \in Rssi!Slots
    BY SlotFacts
  <1>2. h \in Nat /\ h >= 1 /\ h < N BY <1>1
  <1>3. /\ Rssi!TriggerPosition = CASE setting.mode = "PRE" -> -1
                                    [] setting.mode = "MID" -> N - 1 - h
                                    [] setting.mode = "POST" -> N - 1
        /\ Rssi!WindowStart(t) = IF setting.mode # "MID" THEN t
                                 ELSE IF t + h >= N THEN t + h - N ELSE t + h
    BY DEF Rssi!TriggerPosition, Rssi!WindowStart, N
  <1> HIDE DEF h
  <1>4. CASE setting.mode = "PRE"
    <2>1. Rssi!WindowStart(t) = t /\ Wanted(Rssi!TriggerPosition) = N
      BY <1>1, <1>3, <1>4 DEF Wanted
    <2>2. Ahead(t, t) = N BY <1>1 DEF Ahead
    <2> QED BY <1>1, <1>4, <2>1, <2>2
  <1>5. CASE setting.mode = "MID"
    <2>1. Wanted(Rssi!TriggerPosition) = h BY <1>1, <1>2, <1>3, <1>5 DEF Wanted
    <2>2. CASE t + h >= N
      <3>1. Rssi!WindowStart(t) = t + h - N BY <1>3, <1>5, <2>2
      <3>2. t + h - N \in Nat /\ t + h - N < N /\ Ahead(t, t + h - N) = h
        BY <1>1, <1>2, <2>2 DEF Ahead
      <3> QED BY <1>1, <1>2, <1>5, <2>1, <3>1, <3>2
    <2>3. CASE ~(t + h >= N)
      <3>1. Rssi!WindowStart(t) = t + h BY <1>3, <1>5, <2>3
      <3>2. t + h \in Nat /\ t + h < N /\ Ahead(t, t + h) = h
        BY <1>1, <1>2, <2>3 DEF Ahead
      <3> QED BY <1>1, <1>2, <1>5, <2>1, <3>1, <3>2
    <2> QED BY <2>2, <2>3
  <1>6. CASE setting.mode = "POST"
    <2>1. Rssi!WindowStart(t) = t /\ Wanted(Rssi!TriggerPosition) = 0
      BY <1>1, <1>3, <1>6 DEF Wanted
    <2> QED BY <1>6, <2>1
  <1> QED BY <1>4, <1>5, <1>6, SettingFacts

\* A slot comes one nearer with every sample.
LEMMA AheadFacts ==
  ASSUME NEW i \in Rssi!Slots, NEW b \in Rssi!Slots,
         NEW t, t = IF i = N - 1 THEN 0 ELSE i + 1
  PROVE  /\ t = b => Ahead(i, b) = 1
         /\ t # b => Ahead(t, b) = Ahead(i, b) - 1
         /\ Ahead(i, b) \in Int
  <1>1. N \in Nat /\ N >= 2 /\ i \in Nat /\ i < N /\ b \in Nat /\ b < N BY SlotFacts
  <1> QED BY <1>1 DEF Ahead

LEMMA RssiInitially == Rssi!Init => RssiInv
  <1> SUFFICES ASSUME Rssi!Init PROVE RssiInv OBVIOUS
  <1>1. RssiTypes
    <2>1. -1 \in Int OBVIOUS
    <2> QED BY <2>1, SlotFacts DEF Rssi!Init, RssiTypes, Rssi!Never
  <1>2. PcKnown /\ FillInv /\ Reading /\ Shown BY DEF Rssi!Init, PcKnown, FillInv, Reading, Shown
  <1> QED BY <1>1, <1>2 DEF RssiInv

\* Requests, and the steps between two sweeps.
LEMMA RestKeeps ==
  ASSUME RssiInv, Rssi!Request \/ Rssi!Serve \/ Rssi!Begin \/ Rssi!Fill \/ Rssi!TriggerAborted
  PROVE  RssiInv'
  <1>0. RssiTypes /\ PcKnown /\ FillInv /\ Reading /\ Shown BY DEF RssiInv
  <1>1. ASSUME Rssi!Request PROVE RssiInv'
    <2>1. /\ operation_requested' = TRUE
          /\ UNCHANGED <<setting, pc, age, buf_index, buf_end, buf_read, fill_i, waiting,
                         data_level, since, point,
                         spur_second_pass, trace, completed>>
      BY <1>1 DEF Rssi!Request, Rssi!bufferVars, Rssi!fillVars
    <2>2. RssiTypes' /\ PcKnown' BY <1>0, <2>1 DEF RssiTypes, PcKnown
    <2>3. Rssi!TriggerPosition' = Rssi!TriggerPosition BY <2>1 DEF Rssi!TriggerPosition
    <2>4. FillInv' BY <1>0, <2>1, <2>3 DEF FillInv
    <2>5. Reading' BY <2>1 DEF Reading
    <2>6. Shown' BY <1>0, <2>1, <2>3 DEF Shown, Shows
    <2> QED BY <2>2, <2>4, <2>5, <2>6 DEF RssiInv
  <1>2. ASSUME Rssi!Serve PROVE RssiInv'
    <2>1. /\ setting' \in Rssi!Settings /\ pc = "idle" /\ pc' = "idle" /\ completed' = FALSE
          /\ age' = Rssi!Stale /\ trace' = Rssi!Stale
          /\ UNCHANGED <<fill_i, buf_index, buf_end, point, spur_second_pass, since>>
      BY <1>2 DEF Rssi!Serve, Rssi!fillVars
    <2>2. RssiTypes' BY <1>0, <2>1, SlotFacts DEF RssiTypes
    <2>3. PcKnown' /\ FillInv' /\ Reading' /\ Shown'
      BY <1>0, <2>1 DEF PcKnown, FillInv, Reading, Shown
    <2> QED BY <2>2, <2>3 DEF RssiInv
  <1>3. ASSUME Rssi!Begin PROVE RssiInv'
    <2>1. /\ pc = "idle" /\ completed' = FALSE /\ age' = Rssi!Stale /\ trace' = Rssi!Stale
          /\ fill_i' = 0 /\ point' = 0 /\ since' = -1 /\ waiting' = "ARMING"
          /\ data_level' = Rssi!Undef
          /\ UNCHANGED <<setting, buf_index, buf_end, spur_second_pass>>
      BY <1>3 DEF Rssi!Begin, Rssi!Never
    <2>2. RssiTypes'
      <3>1. -1 \in Int OBVIOUS
      <3> QED BY <1>0, <2>1, <3>1, SlotFacts DEF RssiTypes
    <2>3. /\ setting.measures = "fast" => pc' = "fill"
          /\ setting.measures = "triggered" => pc' = "trigger"
          /\ setting.measures \notin {"fast", "triggered"} => pc' = "measure"
      BY <1>3 DEF Rssi!Begin
    <2>4. PcKnown' /\ Shown'
      <3>1. ~spur_second_pass /\ spur_second_pass \in BOOLEAN
        BY <1>0, <2>1 DEF PcKnown
      <3>2. setting.measures \in {"triggered", "fast", "direct"}
        BY <1>0, SettingFacts DEF RssiTypes
      <3>3. pc' \in {"fill", "trigger", "measure"} /\ (pc' = "fill" => setting.measures = "fast")
        BY <2>3, <3>2
      <3>4. spur_second_pass' = spur_second_pass /\ setting' = setting BY <2>1
      <3> QED BY <2>1, <3>1, <3>3, <3>4 DEF PcKnown, Shown
    <2>5. 0 < N - 1 /\ \A k \in Rssi!Slots : ~(k < 0) BY SlotFacts
    <2>6. FillInv'
      <3>1. pc' = "trigger" => setting.measures = "triggered"
        BY <1>0, <2>3, SettingFacts DEF RssiTypes
      <3>2. Begun(age', fill_i') BY <2>1, <2>5 DEF Begun
      <3> QED BY <2>1, <2>5, <3>1, <3>2 DEF FillInv
    <2>7. Reading'
      <3>1. pc' = "measure" => setting'.measures # "triggered" BY <2>1, <2>3
      <3> QED BY <3>1 DEF Reading, Shows
    <2> QED BY <2>2, <2>4, <2>6, <2>7 DEF RssiInv
  <1>4. ASSUME Rssi!Fill PROVE RssiInv'
    <2>1. /\ pc = "fill" /\ pc' = "measure" /\ setting.measures = "fast" /\ buf_index' = 0
          /\ buf_end' = BufferPoints - 1 /\ age' = [k \in Rssi!Slots |-> BufferPoints - 1 - k]
          /\ UNCHANGED <<setting, fill_i, since, point,
                         spur_second_pass, trace, completed>>
      BY <1>0, <1>4 DEF Rssi!Fill, Rssi!fillVars, PcKnown
    <2>2. age' \in [Rssi!Slots -> Int] /\ BufferPoints - 1 \in Rssi!Slots
      <3>1. \A k \in Rssi!Slots : BufferPoints - 1 - k \in Int BY SlotFacts DEF N
      <3>2. BufferPoints - 1 \in Rssi!Slots BY SlotFacts DEF N
      <3> QED BY <2>1, <3>1, <3>2
    <2>3. RssiTypes' BY <1>0, <2>1, <2>2, SlotFacts DEF RssiTypes
    <2>4. PcKnown' /\ FillInv' /\ Reading' /\ Shown'
      BY <1>0, <2>1 DEF PcKnown, FillInv, Reading, Shown, Shows
    <2> QED BY <2>3, <2>4 DEF RssiInv
  <1>5. ASSUME Rssi!TriggerAborted PROVE RssiInv'
    <2>1. /\ pc = "trigger" /\ pc' = "measure" /\ operation_requested' = TRUE
          /\ UNCHANGED <<setting, age, buf_index, buf_end, fill_i, since, point,
                         spur_second_pass, trace, completed>>
      <3>1. operation_requested'
        BY <1>5 DEF Rssi!TriggerAborted
      <3> QED BY <1>5, <3>1 DEF Rssi!TriggerAborted, Rssi!Return, Rssi!bufferVars
    <2>2. RssiTypes' BY <1>0, <2>1 DEF RssiTypes
    <2>3. PcKnown' /\ FillInv' /\ Reading' /\ Shown'
      BY <1>0, <2>1 DEF PcKnown, FillInv, Reading, Shown
    <2> QED BY <2>2, <2>3 DEF RssiInv
  <1> QED BY <1>1, <1>2, <1>3, <1>4, <1>5

\* A turn of the fill that does not end it leaves the rest as it is.
LEMMA SamplesOnly ==
  ASSUME RssiInv, Rssi!Sampled, pc = "trigger", pc' = "trigger", buf_index' \in Rssi!Slots,
         since' \in Int, UNCHANGED <<setting, buf_end, point, spur_second_pass, trace, completed>>
  PROVE  RssiTypes' /\ PcKnown' /\ Reading' /\ Shown'
  <1>1. RssiTypes /\ PcKnown /\ Shown BY DEF RssiInv
  <1>2. fill_i' \in Rssi!Slots /\ age' \in [Rssi!Slots -> Int] BY <1>1, SampledFacts
  <1>3. RssiTypes' BY <1>1, <1>2 DEF RssiTypes
  <1>4. PcKnown' /\ Reading' /\ Shown' BY <1>1 DEF PcKnown, Reading, Shown
  <1> QED BY <1>3, <1>4

\* Samples before the one that fires.
LEMMA ArmingKeeps ==
  ASSUME RssiInv, Rssi!Arming \/ Rssi!Waiting
  PROVE  RssiInv'
  <1>0. RssiTypes /\ FillInv BY DEF RssiInv
  <1>1. /\ Rssi!Sampled /\ pc = "trigger" /\ pc' = "trigger"
        /\ UNCHANGED <<setting, buf_index, buf_end, since, point,
                         spur_second_pass, trace, completed>>
    BY DEF Rssi!Arming, Rssi!Waiting
  <1>2. RssiTypes' /\ PcKnown' /\ Reading' /\ Shown'
    BY <1>0, <1>1, SamplesOnly DEF RssiTypes
  <1>3. setting'.measures = "triggered" /\ point' = 0
        /\ N \in Nat /\ fill_i \in Nat /\ fill_i < N
        /\ fill_i' = IF fill_i = N - 1 THEN 0 ELSE fill_i + 1
    BY <1>0, <1>1, SampledFacts, SlotFacts DEF FillInv, RssiTypes
  <1>4. CASE Rssi!Arming
    <2>1. /\ waiting = "ARMING" /\ data_level' = data_level
          /\ waiting' = IF fill_i' = N - 1 THEN "WAITING" ELSE "ARMING"
      <3>1. Rssi!After(fill_i) = fill_i' BY <1>1 DEF Rssi!Sampled
      <3> QED BY <1>4, <3>1 DEF Rssi!Arming, N
    <2>2. data_level = Rssi!Undef /\ fill_i < N - 1 /\ Begun(age, fill_i)
      BY <1>0, <1>1, <2>1 DEF FillInv
    <2>3. Begun(age', fill_i') BY <1>0, <1>1, <2>2, BegunGoesOn
    <2>4. fill_i' = N - 1 \/ fill_i' < N - 1 BY <1>3, <2>2
    <2>5. FillInv'
      <3>1. CASE fill_i' = N - 1
        <4>1. waiting' = "WAITING" BY <2>1, <3>1
        <4> QED BY <1>3, <2>1, <2>2, <2>3, <3>1, <4>1 DEF FillInv, Rssi!Undef
      <3>2. CASE fill_i' # N - 1
        <4>1. waiting' = "ARMING" /\ fill_i' < N - 1 BY <2>1, <2>4, <3>2
        <4> QED BY <1>3, <2>1, <2>2, <2>3, <4>1 DEF FillInv, Rssi!Undef
      <3> QED BY <3>1, <3>2
    <2> QED BY <1>2, <2>5 DEF RssiInv
  <1>5. CASE Rssi!Waiting
    <2>1. waiting = "WAITING" /\ waiting' = "WAITING" /\ data_level' \in 0 .. 1
      BY <1>5 DEF Rssi!Waiting, Rssi!Levels
    <2>2. Circle(age', fill_i')
      <3>1. CASE data_level = Rssi!Undef
        <4>1. fill_i = N - 1 /\ Begun(age, fill_i) BY <1>0, <1>1, <2>1, <3>1 DEF FillInv
        <4> QED BY <1>0, <1>1, <4>1, BegunGoesOn
      <3>2. CASE data_level # Rssi!Undef
        <4>1. Circle(age, fill_i) BY <1>0, <1>1, <2>1, <3>2 DEF FillInv
        <4> QED BY <1>0, <1>1, <4>1, CircleGoesOn
      <3> QED BY <3>1, <3>2
    <2>3. data_level' # Rssi!Undef BY <2>1 DEF Rssi!Undef
    <2>4. FillInv'
      <3>1. (data_level # Rssi!Undef)' BY <2>3 DEF Rssi!Undef
      <3> QED BY <1>3, <2>1, <2>2, <3>1 DEF FillInv
    <2> QED BY <1>2, <2>4 DEF RssiInv
  <1> QED BY <1>4, <1>5

\* The end of the fill: the window is full, and reading starts where filling ended.
LEMMA FillEnds ==
  ASSUME RssiTypes, RssiTypes', PcKnown, Shown, FillInv, pc = "trigger", pc' = "measure",
         Circle(age', fill_i'), fill_i' = buf_index', buf_end' = buf_index', buf_read',
         (since = Wanted(Rssi!TriggerPosition))',
         UNCHANGED <<setting, point, spur_second_pass, trace, completed>>
  PROVE  PcKnown' /\ FillInv' /\ Reading' /\ Shown'
  <1>1. PcKnown' /\ FillInv' /\ Shown' BY DEF PcKnown, FillInv, Shown
  <1>2. point' = 0 BY DEF FillInv
  <1>3. \A k \in Rssi!Slots : ~(k < 0) BY SlotFacts
  <1>4. buf_index' = IF buf_end' + 0 < N THEN buf_end' + 0 ELSE buf_end' + 0 - N
    <2>1. N \in Nat /\ buf_index' \in Nat /\ buf_index' < N
      BY SlotFacts DEF RssiTypes
    <2>2. \A b \in Nat : b < N => b = IF b + 0 < N THEN b + 0 ELSE b + 0 - N BY <2>1
    <2> QED BY <2>1, <2>2
  <1>5. Circle(age', buf_end') OBVIOUS
  <1>6. Reading' BY <1>2, <1>3, <1>4, <1>5 DEF Reading, Circle
  <1> QED BY <1>1, <1>6

\* The sample that fires.
LEMMA TriggersKeeps ==
  ASSUME RssiInv, Rssi!Triggers
  PROVE  RssiInv'
  <1>0. RssiTypes /\ FillInv /\ Shown /\ setting \in Rssi!Settings BY DEF RssiInv, RssiTypes
  <1>1. /\ Rssi!Sampled /\ pc = "trigger" /\ waiting = "WAITING" /\ waiting' = "FILLING"
        /\ data_level = 1 - setting.up /\ since' = 0 /\ buf_index' = Rssi!WindowStart(fill_i')
        /\ UNCHANGED <<setting, point, spur_second_pass, trace, completed>>
    <2>1. Rssi!After(fill_i) = fill_i' BY DEF Rssi!Triggers, Rssi!Sampled
    <2> QED BY <2>1 DEF Rssi!Triggers, Rssi!Crosses
  <1>2. fill_i' \in Rssi!Slots /\ age' \in [Rssi!Slots -> Int] BY <1>0, <1>1, SampledFacts
  <1>3. Circle(age', fill_i')
    <2>1. data_level # Rssi!Undef
      <3>1. setting.up \in 0 .. 1 BY <1>0, SettingFacts
      <3> QED BY <1>1, <3>1 DEF Rssi!Undef
    <2>2. Circle(age, fill_i) BY <1>0, <1>1, <2>1 DEF FillInv
    <2> QED BY <1>0, <1>1, <2>2, CircleGoesOn
  <1>4. /\ buf_index' \in Rssi!Slots
        /\ setting.mode # "POST" => Wanted(Rssi!TriggerPosition) - Ahead(fill_i', buf_index') = 0
        /\ setting.mode = "POST" => buf_index' = fill_i' /\ Wanted(Rssi!TriggerPosition) = 0
    BY <1>0, <1>1, <1>2, WindowFacts
  <1>5. Rssi!TriggerPosition' = Rssi!TriggerPosition BY <1>1 DEF Rssi!TriggerPosition
  <1>6. CASE setting.mode # "POST"
    <2>1. pc' = pc /\ buf_end' = buf_end BY <1>6 DEF Rssi!Triggers
    <2>2. RssiTypes' /\ PcKnown' /\ Reading' /\ Shown'
      BY <1>1, <1>4, <2>1, SamplesOnly
    <2>3. FillInv' BY <1>0, <1>1, <1>3, <1>4, <1>5, <1>6, <2>1 DEF FillInv, Wanted
    <2> QED BY <2>2, <2>3 DEF RssiInv
  <1>7. CASE setting.mode = "POST"
    <2>1. pc' = "measure" /\ buf_end' = buf_index' /\ buf_read'
      BY <1>7 DEF Rssi!Triggers, Rssi!Return
    <2>2. RssiTypes' BY <1>0, <1>1, <1>2, <1>4, <2>1 DEF RssiTypes
    <2>3. (since = Wanted(Rssi!TriggerPosition))' BY <1>1, <1>4, <1>5, <1>7 DEF Wanted
    <2> QED BY <1>0, <1>1, <1>3, <1>4, <1>7, <2>1, <2>2, <2>3, FillEnds DEF RssiInv
  <1> QED BY <1>6, <1>7

\* Samples after it.
LEMMA FillingKeeps ==
  ASSUME RssiInv, Rssi!Filling
  PROVE  RssiInv'
  <1>0. RssiTypes /\ FillInv /\ Shown /\ setting \in Rssi!Settings BY DEF RssiInv, RssiTypes
  <1>1. /\ Rssi!Sampled /\ pc = "trigger" /\ waiting = "FILLING" /\ waiting' = "FILLING"
        /\ since' = since + 1 /\ Rssi!After(fill_i) = fill_i'
        /\ UNCHANGED <<setting, buf_index, point, spur_second_pass, trace, completed>>
    BY DEF Rssi!Filling, Rssi!Sampled
  <1>2. /\ fill_i' \in Rssi!Slots /\ age' \in [Rssi!Slots -> Int]
        /\ fill_i' = IF fill_i = N - 1 THEN 0 ELSE fill_i + 1
        /\ fill_i \in Rssi!Slots /\ buf_index \in Rssi!Slots /\ since \in Int
    BY <1>0, <1>1, SampledFacts DEF RssiTypes
  <1>3. /\ Circle(age, fill_i) /\ setting.mode # "POST" /\ point = 0
        /\ setting.measures = "triggered"
        /\ since = Wanted(Rssi!TriggerPosition) - Ahead(fill_i, buf_index)
    BY <1>0, <1>1 DEF FillInv
  <1>4. Circle(age', fill_i') BY <1>0, <1>1, <1>3, CircleGoesOn
  <1>5. /\ fill_i' = buf_index => Ahead(fill_i, buf_index) = 1
        /\ fill_i' # buf_index => Ahead(fill_i', buf_index) = Ahead(fill_i, buf_index) - 1
        /\ Ahead(fill_i, buf_index) \in Int
    BY <1>2, AheadFacts
  <1>6. Rssi!TriggerPosition' = Rssi!TriggerPosition BY <1>1 DEF Rssi!TriggerPosition
  <1>7. Wanted(Rssi!TriggerPosition) \in Int
    <2>1. N \in Int /\ N \div 2 \in Int BY SlotFacts
    <2>2. Rssi!TriggerPosition \in Int
      BY <1>0, <2>1, SettingFacts DEF Rssi!TriggerPosition, N
    <2> QED BY <2>1, <2>2 DEF Wanted
  <1>8. since' \in Int BY <1>1, <1>2
  <1>9. CASE fill_i' # buf_index
    <2>1. pc' = pc /\ buf_end' = buf_end BY <1>1, <1>9 DEF Rssi!Filling
    <2>2. RssiTypes' /\ PcKnown' /\ Reading' /\ Shown'
      BY <1>1, <1>2, <1>8, <2>1, SamplesOnly
    <2>3. \A w, a, b, s \in Int : s = w - a /\ b = a - 1 => s + 1 = w - b OBVIOUS
    <2>4. Ahead(fill_i', buf_index) \in Int BY <1>5, <1>9
    <2>5. since' = Wanted(Rssi!TriggerPosition) - Ahead(fill_i', buf_index)
      BY <1>1, <1>2, <1>3, <1>5, <1>7, <1>9, <2>3, <2>4
    <2>6. (since = Wanted(Rssi!TriggerPosition) - Ahead(fill_i, buf_index))'
      BY <1>1, <1>6, <2>5 DEF Wanted, Ahead
    <2>7. FillInv' BY <1>1, <1>3, <1>4, <2>1, <2>6 DEF FillInv
    <2> QED BY <2>2, <2>7 DEF RssiInv
  <1>10. CASE fill_i' = buf_index
    <2>1. pc' = "measure" /\ buf_end' = buf_index /\ buf_read'
      BY <1>1, <1>10 DEF Rssi!Filling, Rssi!Return
    <2>2. RssiTypes' BY <1>0, <1>1, <1>2, <1>8, <2>1 DEF RssiTypes
    <2>3. \A w, s \in Int : s = w - 1 => s + 1 = w OBVIOUS
    <2>4. since' = Wanted(Rssi!TriggerPosition) BY <1>1, <1>2, <1>3, <1>5, <1>7, <1>10, <2>3
    <2>5. (since = Wanted(Rssi!TriggerPosition))' BY <1>6, <2>4 DEF Wanted
    <2> QED BY <1>0, <1>1, <1>4, <1>10, <2>1, <2>2, <2>5, FillEnds DEF RssiInv
  <1> QED BY <1>9, <1>10

\* What one point of the sweep does, whatever it stores.
LEMMA EndPointFacts ==
  ASSUME RssiTypes, pc = "measure", NEW stored \in [Rssi!Slots -> Int], Rssi!EndPoint(stored)
  PROVE  /\ trace' = stored /\ point' \in Rssi!Slots /\ pc' \in {"idle", "measure"}
         /\ operation_requested => pc' = "idle" /\ completed' = completed
         /\ pc' = "measure" => point + 1 < N /\ point' = point + 1 /\ completed' = completed
         /\ pc' = "idle" /\ ~operation_requested => point = N - 1
  <1>1. N \in Nat /\ point \in Nat /\ point < N /\ point \in Rssi!Slots
    BY SlotFacts DEF RssiTypes
  <1>2. \A p \in Nat : p < N => p \in Rssi!Slots BY SlotFacts
  <1>3. CASE operation_requested BY <1>1, <1>3 DEF Rssi!EndPoint
  <1>4. CASE ~operation_requested /\ point + 1 < N
    <2>1. /\ trace' = stored /\ point' = point + 1 /\ pc' = "measure" /\ completed' = completed
      BY <1>4 DEF Rssi!EndPoint, N
    <2> QED BY <1>1, <1>2, <1>4, <2>1
  <1>5. CASE ~operation_requested /\ ~(point + 1 < N)
    <2>1. trace' = stored /\ pc' = "idle" /\ point' = point BY <1>5 DEF Rssi!EndPoint, N
    <2>2. point = N - 1 BY <1>1, <1>5
    <2> QED BY <1>1, <1>5, <2>1, <2>2
  <1> QED BY <1>3, <1>4, <1>5

\* A point, from the buffer or from the chip.
LEMMA ReadKeeps ==
  ASSUME RssiInv, Rssi!FromBuffer \/ Rssi!FromChip
  PROVE  RssiInv'
  <1>0. RssiTypes /\ PcKnown /\ Reading /\ Shown BY DEF RssiInv
  <1>t. /\ age \in [Rssi!Slots -> Int] /\ trace \in [Rssi!Slots -> Int] /\ point \in Rssi!Slots
        /\ buf_index \in Rssi!Slots /\ buf_end \in Rssi!Slots /\ setting \in Rssi!Settings
        /\ Rssi!Old \in Int
    BY <1>0, SlotFacts DEF RssiTypes
  <1>1. /\ pc = "measure" /\ ~completed
        /\ UNCHANGED <<setting, operation_requested, buf_end, fill_i>>
    BY <1>0 DEF Rssi!FromBuffer, Rssi!FromChip, Rssi!ReadBuffer, Rssi!fillVars, Shown
  <1>k. /\ \A x \in Int : Rssi!Kept(x) \in Int
        /\ ~setting.spur => \A x \in Int : Rssi!Kept(x) = x
    BY <1>0, <1>t DEF Rssi!Kept, Rssi!Lower, PcKnown
  <1>d. \A b \in [Rssi!Slots -> Int] : \A c \in Rssi!Decays(b) : c \in [Rssi!Slots -> Int]
    BY <1>t DEF Rssi!Decays
  <1>2. PICK stored \in [Rssi!Slots -> Int] :
          /\ Rssi!EndPoint(stored)
          /\ Rssi!FromBuffer => stored = [trace EXCEPT ![point] = Rssi!Kept(age[buf_index])]
    <2>0. age[buf_index] \in Int BY <1>t
    <2>1. [trace EXCEPT ![point] = Rssi!Kept(age[buf_index])] \in [Rssi!Slots -> Int]
      BY <1>t, <1>k, <2>0
    <2>2. [Rssi!Aged(trace) EXCEPT ![point] = Rssi!Kept(0)] \in [Rssi!Slots -> Int]
      BY <1>t, <1>k, AgedFacts
    <2>3. CASE Rssi!FromBuffer BY <2>1, <2>3 DEF Rssi!FromBuffer
    <2>4. CASE ~Rssi!FromBuffer BY <2>2, <2>4 DEF Rssi!FromChip
    <2> QED BY <2>3, <2>4
  <1>3. /\ trace' = stored /\ point' \in Rssi!Slots /\ pc' \in {"idle", "measure"}
        /\ operation_requested => pc' = "idle" /\ completed' = completed
        /\ pc' = "measure" => point + 1 < N /\ point' = point + 1 /\ completed' = completed
        /\ pc' = "idle" /\ ~operation_requested => point = N - 1
    BY <1>0, <1>1, <1>2, EndPointFacts
  <1>4. RssiTypes'
    <2>1. age' \in [Rssi!Slots -> Int]
      <3>1. CASE Rssi!FromBuffer BY <1>t, <1>d, <3>1 DEF Rssi!FromBuffer
      <3>2. CASE Rssi!FromChip
        <4>1. Rssi!Aged(age) \in [Rssi!Slots -> Int] BY <1>t, AgedFacts
        <4> QED BY <1>d, <3>2, <4>1 DEF Rssi!FromChip
      <3> QED BY <3>1, <3>2
    <2>2. buf_index' \in Rssi!Slots
      BY <1>t, SlotFacts DEF Rssi!FromBuffer, Rssi!FromChip, Rssi!ReadBuffer
    <2>3. since' \in Int
      <3>1. since \in Int BY <1>0 DEF RssiTypes
      <3>2. Rssi!Earlier(since) \in Int BY <3>1 DEF Rssi!Earlier
      <3>3. since' \in {since, Rssi!Earlier(since), Rssi!Never}
        BY DEF Rssi!FromBuffer, Rssi!FromChip, Rssi!SinceNext, Rssi!fillVars
      <3>4. Rssi!Never \in Int BY DEF Rssi!Never
      <3> QED BY <3>1, <3>2, <3>3, <3>4
    <2> QED BY <1>0, <1>1, <1>3, <2>1, <2>2, <2>3 DEF RssiTypes
  <1>5. PcKnown' /\ FillInv'
    <2>1. spur_second_pass' = FALSE BY DEF Rssi!FromBuffer, Rssi!FromChip
    <2> QED BY <1>3, <2>1 DEF PcKnown, FillInv
  <1>6. CASE ~(Shows /\ ~operation_requested)
    <2>1. ~(Shows' /\ ~operation_requested') BY <1>1, <1>6 DEF Shows
    <2>2. Reading' BY <2>1 DEF Reading
    <2>3. completed' => pc' = "idle" /\ ~operation_requested BY <1>1, <1>3
    <2>4. Shown' BY <1>1, <2>1, <2>3 DEF Shown
    <2> QED BY <1>4, <1>5, <2>2, <2>4 DEF RssiInv
  <1>7. CASE Shows /\ ~operation_requested
    <2>1. /\ buf_read /\ Circle(age, buf_end) /\ since = Wanted(Rssi!TriggerPosition)
          /\ buf_index = (IF buf_end + point < N THEN buf_end + point ELSE buf_end + point - N)
          /\ \A k \in Rssi!Slots : k < point => trace[k] = N - 1 - k
      BY <1>0, <1>1, <1>7 DEF Reading
    <2>2. /\ Rssi!FromBuffer /\ since' = since /\ buf_index' = Rssi!After(buf_index)
          /\ buf_read' = (Rssi!After(buf_index) # buf_end)
      BY <2>1 DEF Rssi!FromBuffer, Rssi!FromChip, Rssi!ReadBuffer, Rssi!fillVars
    <2>3. age' = age
      BY <1>7, <2>2 DEF Rssi!FromBuffer, Rssi!Decays, Shows
    <2>4. /\ N \in Nat /\ N >= 2 /\ point \in Nat /\ point < N /\ buf_end \in Nat /\ buf_end < N
          /\ buf_index \in Nat /\ buf_index < N
          /\ Rssi!After(buf_index) = IF buf_index = N - 1 THEN 0 ELSE buf_index + 1
      BY <1>t, SlotFacts
    <2>5. age[buf_index] = N - 1 - point
      <3>1. age[buf_index] = Behind(buf_end, buf_index) BY <1>t, <2>1 DEF Circle
      <3>2. Behind(buf_end, buf_index) = N - 1 - point BY <2>1, <2>4 DEF Behind
      <3> QED BY <3>1, <3>2
    <2>6. \A k \in Rssi!Slots : k <= point => trace'[k] = N - 1 - k
      <3>0. age[buf_index] \in Int /\ Rssi!Kept(age[buf_index]) = age[buf_index]
        BY <1>t, <1>k, <1>7 DEF Shows
      <3>1. trace' = [trace EXCEPT ![point] = age[buf_index]] BY <1>2, <1>3, <2>2, <3>0
      <3>2. \A k \in Rssi!Slots : trace'[k] = IF k = point THEN age[buf_index] ELSE trace[k]
        BY <1>t, <3>1
      <3>3. \A k \in Rssi!Slots : k <= point => k = point \/ k < point BY <2>4, SlotFacts
      <3> QED BY <2>1, <2>5, <3>2, <3>3
    <2>7. /\ Rssi!TriggerPosition' = Rssi!TriggerPosition
          /\ Wanted(Rssi!TriggerPosition)' = Wanted(Rssi!TriggerPosition)
      BY <1>1 DEF Rssi!TriggerPosition, Wanted
    <2>8. CASE pc' = "measure"
      <3>1. point' = point + 1 /\ point + 1 < N /\ ~completed' BY <1>1, <1>3, <2>8
      <3>2. /\ buf_index' = (IF buf_end + point' < N THEN buf_end + point' ELSE buf_end + point' - N)
            /\ buf_index' # buf_end
        BY <2>1, <2>2, <2>4, <3>1
      <3>3. buf_read' BY <2>2, <3>2
      <3>4. \A k \in Rssi!Slots : k < point' => trace'[k] = N - 1 - k
        <4>1. \A k \in Rssi!Slots : k < point' => k <= point BY <2>4, <3>1, SlotFacts
        <4> QED BY <2>6, <4>1
      <3>5. (since = Wanted(Rssi!TriggerPosition))' BY <2>1, <2>2, <2>7
      <3>6. Circle(age', buf_end') BY <1>1, <2>1, <2>3
      <3>7. (buf_index = (IF buf_end + point < N THEN buf_end + point ELSE buf_end + point - N))'
        BY <1>1, <3>2
      <3>8. Reading' BY <3>3, <3>4, <3>5, <3>6, <3>7 DEF Reading, Circle
      <3>9. Shown' BY <3>1 DEF Shown
      <3> QED BY <1>4, <1>5, <3>8, <3>9 DEF RssiInv
    <2>9. CASE pc' = "idle"
      <3>1. point = N - 1 BY <1>3, <1>7, <2>9
      <3>2. \A k \in Rssi!Slots : trace'[k] = N - 1 - k
        <4>1. \A k \in Rssi!Slots : k <= point BY <3>1, SlotFacts
        <4> QED BY <2>6, <4>1
      <3>3. (since = Wanted(Rssi!TriggerPosition))' BY <2>1, <2>2, <2>7
      <3>4. Reading' BY <2>9 DEF Reading
      <3>5. Shown' BY <2>9, <3>2, <3>3 DEF Shown
      <3> QED BY <1>4, <1>5, <3>4, <3>5 DEF RssiInv
    <2> QED BY <1>3, <2>8, <2>9
  <1> QED BY <1>6, <1>7

\* The first of two passes over a point.
LEMMA AgainKeeps ==
  ASSUME RssiInv, Rssi!MeasureAgain
  PROVE  RssiInv'
  <1>0. RssiTypes /\ PcKnown /\ Shown BY DEF RssiInv
  <1>1. /\ pc = "measure" /\ setting.spur /\ spur_second_pass' = TRUE /\ ~completed
        /\ UNCHANGED <<setting, buf_end, point, completed>>
    BY <1>0 DEF Rssi!MeasureAgain, Rssi!FirstOfTwo, Rssi!ReadBuffer, Shown
  <1>2. \/ pc' = "measure" /\ fill_i' = fill_i
        \/ /\ pc' = "trigger" /\ setting.measures = "triggered" /\ point = 0 /\ fill_i' = 0
           /\ waiting' = "ARMING" /\ data_level' = Rssi!Undef
    BY <1>1 DEF Rssi!MeasureAgain
  <1>3. RssiTypes'
    <2>1. age' \in [Rssi!Slots -> Int] /\ trace' \in [Rssi!Slots -> Int]
      BY <1>0, AgedFacts DEF Rssi!MeasureAgain, RssiTypes
    <2>2. buf_index' \in Rssi!Slots
      BY <1>0, SlotFacts DEF Rssi!MeasureAgain, Rssi!ReadBuffer, RssiTypes
    <2>3. since' \in Int
      <3>1. Rssi!Earlier(since) \in Int /\ Rssi!Never \in Int /\ since \in Int
        BY <1>0 DEF RssiTypes, Rssi!Earlier, Rssi!Never
      <3>2. since' \in {since, Rssi!Earlier(since), Rssi!Never}
        BY DEF Rssi!MeasureAgain, Rssi!SinceNext
      <3> QED BY <3>1, <3>2
    <2>4. fill_i' \in Rssi!Slots BY <1>0, <1>2, SlotFacts DEF RssiTypes
    <2> QED BY <1>0, <1>1, <2>1, <2>2, <2>3, <2>4 DEF RssiTypes
  <1>4. PcKnown' BY <1>1, <1>2 DEF PcKnown
  <1>5. FillInv'
    <2>1. 0 < N - 1 /\ \A k \in Rssi!Slots : ~(k < 0) BY SlotFacts
    <2>2. fill_i' = 0 => Begun(age', fill_i') BY <2>1 DEF Begun
    <2>3. CASE pc' = "measure" BY <2>3 DEF FillInv
    <2>4. CASE pc' # "measure"
      <3>1. /\ pc' = "trigger" /\ setting'.measures = "triggered" /\ point' = 0 /\ fill_i' = 0
            /\ waiting' = "ARMING" /\ data_level' = Rssi!Undef
        BY <1>1, <1>2, <2>4
      <3>2. fill_i' < N - 1 BY <2>1, <3>1
      <3> QED BY <2>2, <3>1, <3>2 DEF FillInv, Rssi!Undef
    <2> QED BY <2>3, <2>4
  <1>6. Reading' /\ Shown' BY <1>1 DEF Reading, Shown, Shows
  <1> QED BY <1>3, <1>4, <1>5, <1>6 DEF RssiInv

LEMMA RssiStep == RssiInv /\ [Rssi!Next]_Rssi!rssiVars => RssiInv'
  <1> SUFFICES ASSUME RssiInv, [Rssi!Next]_Rssi!rssiVars PROVE RssiInv' OBVIOUS
  <1>1. CASE UNCHANGED Rssi!rssiVars
    <2>1. UNCHANGED <<setting, operation_requested, pc, age, buf_index, buf_end, buf_read, fill_i,
                      waiting, data_level, since, point, spur_second_pass, trace, completed>>
      BY <1>1 DEF Rssi!rssiVars, Rssi!bufferVars, Rssi!fillVars
    <2>2. Rssi!TriggerPosition' = Rssi!TriggerPosition BY <2>1 DEF Rssi!TriggerPosition
    <2>3. RssiTypes' /\ PcKnown' BY <2>1 DEF RssiInv, RssiTypes, PcKnown
    <2>4. FillInv' BY <2>1, <2>2 DEF RssiInv, FillInv
    <2>5. Reading' /\ Shown' BY <2>1, <2>2 DEF RssiInv, Reading, Shown, Shows
    <2> QED BY <2>3, <2>4, <2>5 DEF RssiInv
  <1>2. CASE Rssi!Next
    BY <1>2, RestKeeps, ArmingKeeps, TriggersKeeps, FillingKeeps, ReadKeeps, AgainKeeps
    DEF Rssi!Next
  <1> QED BY <1>1, <1>2

\* A completed triggered sweep shows consecutive samples, oldest first, the one that fired
\* just before them, in their middle or last, as the trigger mode wants it, for any number of
\* points from two on (si4468.c:1993-2062, 2207-2218), unless AV_MAX_DECAY writes its counters
\* into the buffer or spur removal takes two samples for a point (sa_core.c:5021-5046).
THEOREM WindowAroundTrigger == Rssi!Spec => []TriggerWindow
  <1>1. ASSUME RssiInv PROVE TriggerWindow
    <2> SUFFICES ASSUME completed, setting.measures = "triggered", ~setting.decay, ~setting.spur,
                        NEW k \in Rssi!Slots
                 PROVE  trace[k] = since + Rssi!TriggerPosition - k
      BY DEF TriggerWindow, Rssi!TriggerWindow
    <2>1. since = Wanted(Rssi!TriggerPosition) /\ trace[k] = N - 1 - k
      BY <1>1 DEF RssiInv, Shown, Shows
    <2>2. N \in Int /\ N \div 2 \in Int /\ k \in Int BY SlotFacts
    <2>3. Rssi!TriggerPosition \in Int
      BY <1>1, <2>2, SettingFacts DEF RssiInv, RssiTypes, Rssi!TriggerPosition, N
    <2>4. \A p \in Int : N - 1 - k = ((N - 1 - p) + p) - k BY <2>2
    <2>5. since + Rssi!TriggerPosition - k = N - 1 - k BY <2>1, <2>2, <2>3, <2>4 DEF Wanted
    <2> QED BY <2>1, <2>5
  <1> QED BY <1>1, RssiInitially, RssiStep, PTL DEF Rssi!Spec

-----------------------------------------------------------------------------
(* The peaks of a trace f, of the points S of it that have been seen.        *)

PeakOf(f, S, p) ==
  \E a, b \in S :
    /\ a < p /\ p < b
    /\ f[a] < f[p] - noise /\ f[b] < f[p] - noise
    /\ \A k \in S : a < k /\ k < b => f[k] <= f[p]
    /\ \A k \in S : a < k /\ k < p => f[k] < f[p]

\* A point that is a peak once the trace falls behind it.
Candidate(f, S, p) ==
  \E a \in S :
    /\ a < p /\ f[a] < f[p] - noise
    /\ \A k \in S : a < k /\ k < p => f[k] < f[p]
    /\ \A k \in S : p < k => f[k] <= f[p]

\* Down the slope the walk remembers a lowest point, since one that is higher than the
\* noise hides.
Falling(f, S, t) ==
  /\ \A p \in S : Candidate(f, S, p) => PeakOf(f, S, p)
  /\ \A k \in S : t < k => f[k] <= f[t] + noise
  /\ \A a \in S : f[a] < f[t] => \E q \in S : a < q /\ q <= t /\ f[t] + noise < f[q]

\* Up the slope it remembers the only candidate, behind all peaks.
Climbing(f, S, t) ==
  /\ \A p \in S : Candidate(f, S, p) => PeakOf(f, S, p) \/ p = t
  /\ Candidate(f, S, t)
  /\ \A k \in S : t <= k => f[t] - noise <= f[k]
  /\ \A p \in S : PeakOf(f, S, p) => p < t

Slope(f, S, t, down) == t \in S /\ IF down THEN Falling(f, S, t) ELSE Climbing(f, S, t)

\* Sets of points, and a trace.
LEMMA TraceFacts ==
  ASSUME NEW f \in [0 .. TracePoints - 1 -> Int], NEW S \in SUBSET (0 .. TracePoints - 1)
  PROVE  noise \in Nat /\ \A p \in S : p \in Int /\ f[p] \in Int
  BY PeakAssumption

\* A new point makes peaks of candidates only.
LEMMA NewPeaks ==
  ASSUME NEW f \in [0 .. TracePoints - 1 -> Int], NEW S \in SUBSET (0 .. TracePoints - 1),
         NEW k \in 0 .. TracePoints - 1, \A s \in S : s < k,
         NEW p \in S \union {k}, PeakOf(f, S \union {k}, p), ~(PeakOf(f, S, p) /\ p \in S)
  PROVE  p \in S /\ f[k] < f[p] - noise /\ Candidate(f, S, p)
  <1>1. noise \in Nat /\ \A s \in S \union {k} : s \in Int /\ f[s] \in Int BY TraceFacts
  <1>2. PICK a \in S \union {k}, b \in S \union {k} :
          /\ a < p /\ p < b
          /\ f[a] < f[p] - noise /\ f[b] < f[p] - noise
          /\ \A j \in S \union {k} : a < j /\ j < b => f[j] <= f[p]
          /\ \A j \in S \union {k} : a < j /\ j < p => f[j] < f[p]
    BY DEF PeakOf
  <1>3. p \in S /\ a \in S BY <1>1, <1>2
  <1>4. b = k BY <1>2, <1>3 DEF PeakOf
  <1>5. \A j \in S : p < j => a < j /\ j < b BY <1>1, <1>2, <1>3, <1>4
  <1> QED BY <1>2, <1>3, <1>4, <1>5 DEF Candidate

\* Peaks stay peaks.
LEMMA PeaksStay ==
  ASSUME NEW f \in [0 .. TracePoints - 1 -> Int], NEW S \in SUBSET (0 .. TracePoints - 1),
         NEW k \in 0 .. TracePoints - 1, \A s \in S : s < k,
         NEW p \in S, PeakOf(f, S, p)
  PROVE  PeakOf(f, S \union {k}, p)
  <1>1. \A s \in S \union {k} : s \in Int BY TraceFacts
  <1>2. PICK a \in S, b \in S :
          /\ a < p /\ p < b
          /\ f[a] < f[p] - noise /\ f[b] < f[p] - noise
          /\ \A j \in S : a < j /\ j < b => f[j] <= f[p]
          /\ \A j \in S : a < j /\ j < p => f[j] < f[p]
    BY DEF PeakOf
  <1>3. ~(k < b) /\ ~(k < p) BY <1>1, <1>2
  <1> QED BY <1>2, <1>3 DEF PeakOf

\* Candidates were candidates.
LEMMA CandidatesStayed ==
  ASSUME NEW f, NEW S, NEW k, \A s \in S : s < k,
         NEW p \in S, S \subseteq Int, k \in Int, Candidate(f, S \union {k}, p)
  PROVE  Candidate(f, S, p) /\ f[k] <= f[p]
  <1>1. PICK a \in S \union {k} :
          /\ a < p /\ f[a] < f[p] - noise
          /\ \A j \in S \union {k} : a < j /\ j < p => f[j] < f[p]
          /\ \A j \in S \union {k} : p < j => f[j] <= f[p]
    BY DEF Candidate
  <1>2. a \in S BY <1>1
  <1> QED BY <1>1, <1>2 DEF Candidate

\* Down the slope, and on: nothing is a peak or a candidate that was not.
LEMMA FallsOn ==
  ASSUME NEW f \in [0 .. TracePoints - 1 -> Int], NEW S \in SUBSET (0 .. TracePoints - 1),
         NEW k \in 0 .. TracePoints - 1, \A s \in S : s < k,
         NEW t \in S, Falling(f, S, t), f[k] <= f[t] + noise
  PROVE  /\ Falling(f, S \union {k}, IF f[k] < f[t] THEN k ELSE t)
         /\ \A p \in S \union {k} : PeakOf(f, S \union {k}, p) <=> PeakOf(f, S, p) /\ p \in S
  <1> DEFINE T == S \union {k}
             u == IF f[k] < f[t] THEN k ELSE t
  <1>1. noise \in Nat /\ \A s \in T : s \in Int /\ f[s] \in Int BY TraceFacts
  <1>2. /\ \A p \in S : Candidate(f, S, p) => PeakOf(f, S, p)
        /\ \A j \in S : t < j => f[j] <= f[t] + noise
        /\ \A a \in S : f[a] < f[t] => \E q \in S : a < q /\ q <= t /\ f[t] + noise < f[q]
    BY DEF Falling
  <1>3. \A p \in T : PeakOf(f, T, p) <=> PeakOf(f, S, p) /\ p \in S
    BY <1>2, NewPeaks, PeaksStay
  <1>4. ~Candidate(f, T, k)
    <2> SUFFICES ASSUME Candidate(f, T, k) PROVE FALSE OBVIOUS
    <2>1. PICK a \in T : a < k /\ f[a] < f[k] - noise /\ \A j \in T : a < j /\ j < k => f[j] < f[k]
      BY DEF Candidate
    <2>2. a \in S /\ f[a] < f[t] BY <1>1, <2>1
    <2>3. PICK q \in S : a < q /\ q <= t /\ f[t] + noise < f[q] BY <1>2, <2>2
    <2>4. f[q] < f[k] BY <2>1, <2>3
    <2> QED BY <1>1, <2>3, <2>4
  <1>5. \A p \in T : Candidate(f, T, p) => PeakOf(f, T, p)
    <2> SUFFICES ASSUME NEW p \in T, Candidate(f, T, p) PROVE PeakOf(f, T, p) OBVIOUS
    <2>1. p \in S BY <1>4
    <2>2. Candidate(f, S, p) BY <1>1, <2>1, CandidatesStayed
    <2> QED BY <1>2, <1>3, <2>1, <2>2
  <1>6. \A j \in T : u < j => f[j] <= f[u] + noise BY <1>1, <1>2
  <1>7. ASSUME NEW a \in T, f[a] < f[u]
        PROVE  \E q \in T : a < q /\ q <= u /\ f[u] + noise < f[q]
    <2>1. a \in S /\ f[a] < f[t] BY <1>1, <1>7
    <2>2. PICK q \in S : a < q /\ q <= t /\ f[t] + noise < f[q] BY <1>2, <2>1
    <2> QED BY <1>1, <2>2
  <1>8. Falling(f, T, u) BY <1>5, <1>6, <1>7 DEF Falling
  <1> QED BY <1>3, <1>8

\* At the foot of the next slope the new point is the candidate.
LEMMA Turns ==
  ASSUME NEW f \in [0 .. TracePoints - 1 -> Int], NEW S \in SUBSET (0 .. TracePoints - 1),
         NEW k \in 0 .. TracePoints - 1, \A s \in S : s < k,
         NEW t \in S, Falling(f, S, t), f[t] + noise < f[k]
  PROVE  /\ Climbing(f, S \union {k}, k)
         /\ \A p \in S \union {k} : PeakOf(f, S \union {k}, p) <=> PeakOf(f, S, p) /\ p \in S
  <1> DEFINE T == S \union {k}
  <1>1. noise \in Nat /\ \A s \in T : s \in Int /\ f[s] \in Int BY TraceFacts
  <1>2. /\ \A p \in S : Candidate(f, S, p) => PeakOf(f, S, p)
        /\ \A j \in S : t < j => f[j] <= f[t] + noise
    BY DEF Falling
  <1>3. \A p \in T : PeakOf(f, T, p) <=> PeakOf(f, S, p) /\ p \in S
    BY <1>2, NewPeaks, PeaksStay
  <1>4. ASSUME NEW p \in T, Candidate(f, T, p) PROVE PeakOf(f, T, p) \/ p = k
    <2> SUFFICES ASSUME p \in S PROVE PeakOf(f, T, p) OBVIOUS
    <2>1. Candidate(f, S, p) BY <1>1, <1>4, CandidatesStayed
    <2> QED BY <1>2, <1>3, <2>1
  <1>5. Candidate(f, T, k)
    <2>1. t \in T /\ t < k /\ f[t] < f[k] - noise BY <1>1
    <2>2. \A j \in T : t < j /\ j < k => f[j] < f[k] BY <1>1, <1>2
    <2>3. \A j \in T : ~(k < j) BY <1>1
    <2> QED BY <2>1, <2>2, <2>3 DEF Candidate
  <1>6. \A j \in T : k <= j => f[k] - noise <= f[j] BY <1>1
  <1>7. \A p \in T : PeakOf(f, T, p) => p < k BY <1>3
  <1> QED BY <1>3, <1>4, <1>5, <1>6, <1>7 DEF Climbing

\* Up the slope, and on.
LEMMA ClimbsOn ==
  ASSUME NEW f \in [0 .. TracePoints - 1 -> Int], NEW S \in SUBSET (0 .. TracePoints - 1),
         NEW k \in 0 .. TracePoints - 1, \A s \in S : s < k,
         NEW t \in S, Climbing(f, S, t), f[t] - noise <= f[k]
  PROVE  /\ Climbing(f, S \union {k}, IF f[k] > f[t] THEN k ELSE t)
         /\ \A p \in S \union {k} : PeakOf(f, S \union {k}, p) <=> PeakOf(f, S, p) /\ p \in S
  <1> DEFINE T == S \union {k}
             u == IF f[k] > f[t] THEN k ELSE t
  <1>1. noise \in Nat /\ \A s \in T : s \in Int /\ f[s] \in Int BY TraceFacts
  <1>2. /\ \A p \in S : Candidate(f, S, p) => PeakOf(f, S, p) \/ p = t
        /\ \A j \in S : t <= j => f[t] - noise <= f[j]
        /\ \A p \in S : PeakOf(f, S, p) => p < t
    BY DEF Climbing
  <1>3. PICK a \in S :
          /\ a < t /\ f[a] < f[t] - noise
          /\ \A j \in S : a < j /\ j < t => f[j] < f[t]
          /\ \A j \in S : t < j => f[j] <= f[t]
    BY DEF Climbing, Candidate
  <1>4. ~(f[k] < f[t] - noise) BY <1>1
  <1>5. \A p \in T : PeakOf(f, T, p) <=> PeakOf(f, S, p) /\ p \in S
    BY <1>2, <1>4, NewPeaks, PeaksStay
  <1>6. CASE f[k] > f[t]
    <2>1. u = k BY <1>6
    <2>2. Candidate(f, T, k)
      <3>1. a \in T /\ a < k /\ f[a] < f[k] - noise BY <1>1, <1>3, <1>6
      <3>2. \A j \in T : a < j /\ j < k => f[j] < f[k]
        <4>1. ASSUME NEW j \in S, a < j PROVE f[j] <= f[t]
          <5>1. j < t \/ j = t \/ t < j BY <1>1
          <5> QED BY <1>1, <1>3, <4>1, <5>1
        <4> QED BY <1>1, <1>6, <4>1
      <3>3. \A j \in T : ~(k < j) BY <1>1
      <3> QED BY <3>1, <3>2, <3>3 DEF Candidate
    <2>3. ASSUME NEW p \in T, Candidate(f, T, p) PROVE PeakOf(f, T, p) \/ p = k
      <3> SUFFICES ASSUME p \in S PROVE PeakOf(f, T, p) OBVIOUS
      <3>1. Candidate(f, S, p) /\ f[k] <= f[p] BY <1>1, <2>3, CandidatesStayed
      <3>2. p # t BY <1>1, <1>6, <3>1
      <3> QED BY <1>2, <1>5, <3>1, <3>2
    <2>4. \A j \in T : k <= j => f[k] - noise <= f[j] BY <1>1
    <2>5. \A p \in T : PeakOf(f, T, p) => p < k BY <1>5
    <2>6. Climbing(f, T, k) BY <2>2, <2>3, <2>4, <2>5 DEF Climbing
    <2> QED BY <1>5, <2>1, <2>6
  <1>7. CASE ~(f[k] > f[t])
    <2>1. u = t /\ f[k] <= f[t] BY <1>1, <1>7
    <2>2. Candidate(f, T, t) BY <1>1, <1>3, <2>1 DEF Candidate
    <2>3. ~Candidate(f, T, k)
      <3> SUFFICES ASSUME Candidate(f, T, k) PROVE FALSE OBVIOUS
      <3>1. PICK c \in T : c < k /\ f[c] < f[k] - noise /\ \A j \in T : c < j /\ j < k => f[j] < f[k]
        BY DEF Candidate
      <3>2. c \in S /\ f[c] < f[t] - noise BY <1>1, <2>1, <3>1
      <3>3. c < t BY <1>1, <1>2, <3>2
      <3>4. f[t] < f[k] BY <3>1, <3>3
      <3> QED BY <1>1, <2>1, <3>4
    <2>4. ASSUME NEW p \in T, Candidate(f, T, p) PROVE PeakOf(f, T, p) \/ p = t
      <3>1. p \in S BY <2>3, <2>4
      <3>2. Candidate(f, S, p) BY <1>1, <2>4, <3>1, CandidatesStayed
      <3> QED BY <1>2, <1>5, <3>1, <3>2
    <2>5. \A j \in T : t <= j => f[t] - noise <= f[j] BY <1>2
    <2>6. \A p \in T : PeakOf(f, T, p) => p < t BY <1>2, <1>5
    <2>7. Climbing(f, T, t) BY <2>2, <2>4, <2>5, <2>6 DEF Climbing
    <2> QED BY <1>5, <2>1, <2>7
  <1> QED BY <1>6, <1>7

\* Behind the top the candidate is a peak, the only new one.
LEMMA TopPassed ==
  ASSUME NEW f \in [0 .. TracePoints - 1 -> Int], NEW S \in SUBSET (0 .. TracePoints - 1),
         NEW k \in 0 .. TracePoints - 1, \A s \in S : s < k,
         NEW t \in S, Climbing(f, S, t), f[k] < f[t] - noise
  PROVE  /\ Falling(f, S \union {k}, k)
         /\ \A p \in S \union {k} :
              PeakOf(f, S \union {k}, p) <=> (PeakOf(f, S, p) /\ p \in S) \/ p = t
         /\ \A p \in S : PeakOf(f, S, p) => p < t
  <1> DEFINE T == S \union {k}
  <1>1. noise \in Nat /\ \A s \in T : s \in Int /\ f[s] \in Int BY TraceFacts
  <1>2. /\ \A p \in S : Candidate(f, S, p) => PeakOf(f, S, p) \/ p = t
        /\ \A j \in S : t <= j => f[t] - noise <= f[j]
        /\ \A p \in S : PeakOf(f, S, p) => p < t
    BY DEF Climbing
  <1>3. PICK a \in S :
          /\ a < t /\ f[a] < f[t] - noise
          /\ \A j \in S : a < j /\ j < t => f[j] < f[t]
          /\ \A j \in S : t < j => f[j] <= f[t]
    BY DEF Climbing, Candidate
  <1>4. PeakOf(f, T, t)
    <2>1. a \in T /\ k \in T /\ a < t /\ t < k /\ f[a] < f[t] - noise /\ f[k] < f[t] - noise
      BY <1>3
    <2>2. \A j \in T : a < j /\ j < k => f[j] <= f[t]
      <3> SUFFICES ASSUME NEW j \in T, a < j, j < k PROVE f[j] <= f[t] OBVIOUS
      <3>1. j \in S BY <1>1
      <3>2. j < t \/ j = t \/ t < j BY <1>1
      <3> QED BY <1>1, <1>3, <3>1, <3>2
    <2>3. \A j \in T : a < j /\ j < t => f[j] < f[t] BY <1>1, <1>3
    <2> QED BY <2>1, <2>2, <2>3 DEF PeakOf
  <1>5. ASSUME NEW p \in T PROVE PeakOf(f, T, p) <=> (PeakOf(f, S, p) /\ p \in S) \/ p = t
    <2>1. PeakOf(f, T, p) /\ ~(PeakOf(f, S, p) /\ p \in S) => p = t BY <1>2, NewPeaks
    <2> QED BY <1>4, <2>1, PeaksStay
  <1>6. ~Candidate(f, T, k)
    <2> SUFFICES ASSUME Candidate(f, T, k) PROVE FALSE OBVIOUS
    <2>1. PICK c \in T : c < k /\ f[c] < f[k] - noise /\ \A j \in T : c < j /\ j < k => f[j] < f[k]
      BY DEF Candidate
    <2>2. c \in S /\ f[c] < f[t] - noise BY <1>1, <2>1
    <2>3. c < t BY <1>1, <1>2, <2>2
    <2>4. f[t] < f[k] BY <2>1, <2>3
    <2> QED BY <1>1, <2>4
  <1>7. ASSUME NEW p \in T, Candidate(f, T, p) PROVE PeakOf(f, T, p)
    <2>1. p \in S BY <1>6, <1>7
    <2>2. Candidate(f, S, p) BY <1>1, <1>7, <2>1, CandidatesStayed
    <2> QED BY <1>2, <1>5, <2>1, <2>2
  <1>8. \A j \in T : k < j => f[j] <= f[k] + noise BY <1>1
  <1>9. ASSUME NEW c \in T, f[c] < f[k]
        PROVE  \E q \in T : c < q /\ q <= k /\ f[k] + noise < f[q]
    <2>1. c \in S /\ f[c] < f[t] - noise BY <1>1, <1>9
    <2>2. c < t BY <1>1, <1>2, <2>1
    <2> QED BY <1>1, <2>2
  <1>10. Falling(f, T, k) BY <1>7, <1>8, <1>9 DEF Falling
  <1> QED BY <1>2, <1>5, <1>10

Higher(f, p, q) == f[p] > f[q] \/ (f[p] = f[q] /\ p < q)

\* The table holds the highest peaks of those seen, the highest one first.
Table(f, S, t) ==
  /\ t \in Seq(Int) /\ Len(t) <= MAX_MAX
  /\ \A j \in 1 .. Len(t) : t[j] \in S /\ PeakOf(f, S, t[j])
  /\ \A i, j \in 1 .. Len(t) : i < j => Higher(f, t[i], t[j])
  /\ \A p \in S : PeakOf(f, S, p) =>
       \/ \E j \in 1 .. Len(t) : t[j] = p
       \/ Len(t) = MAX_MAX /\ \A j \in 1 .. Len(t) : Higher(f, t[j], p)

\* The place of a peak in the table is in front of the first lower one.
LEMMA PlaceFacts ==
  ASSUME NEW t \in Seq(Int), NEW k \in Int
  PROVE  /\ Peak!Place(t, k) \in 1 .. Len(t) + 1
         /\ \A j \in 1 .. Len(t) : j < Peak!Place(t, k) => ~(measured[t[j]] < measured[k])
         /\ Peak!Place(t, k) <= Len(t) => measured[t[Peak!Place(t, k)]] < measured[k]
  <1> DEFINE lower == {j \in 1 .. Len(t) : measured[t[j]] < measured[k]}
  <1>1. Peak!Place(t, k) = IF lower = {} THEN Len(t) + 1
                           ELSE CHOOSE j \in lower : \A l \in lower : j <= l
    BY DEF Peak!Place, Peak!Level
  <1>2. Len(t) \in Nat BY LenProperties
  <1>3. CASE lower = {} BY <1>1, <1>2, <1>3
  <1>4. CASE lower # {}
    <2>1. Len(t) \in Int /\ lower \in SUBSET (0 .. Len(t)) /\ lower # {} BY <1>2, <1>4
    <2> HIDE DEF lower
    <2>2. Min(lower) \in lower /\ \A y \in lower : Min(lower) <= y
      BY <2>1, LeastNumber
    <2>3. Peak!Place(t, k) \in lower /\ \A l \in lower : Peak!Place(t, k) <= l
      BY <1>1, <2>1, <2>2
    <2> USE DEF lower
    <2> QED BY <1>2, <2>3
  <1> QED BY <1>3, <1>4

\* What the table is when a peak has been put in: those behind it move, the last one out.
LEMMA InsertedFacts ==
  ASSUME NEW t \in Seq(Int), Len(t) <= MAX_MAX, NEW k \in Int, NEW s, s = Peak!Inserted(t, k),
         NEW pl, pl = Peak!Place(t, k)
  PROVE  /\ s \in Seq(Int)
         /\ Len(s) = IF Len(t) < MAX_MAX THEN Len(t) + 1 ELSE MAX_MAX
         /\ \A j \in 1 .. Len(s) : s[j] = IF j < pl THEN t[j] ELSE IF j = pl THEN k ELSE t[j - 1]
  <1> DEFINE a == SubSeq(t, 1, pl - 1)
             b == SubSeq(t, pl, Len(t))
             longer == a \o <<k>> \o b
             n == IF Len(t) < MAX_MAX THEN Len(t) + 1 ELSE MAX_MAX
  <1>1. /\ Len(t) \in Nat /\ pl \in Nat /\ pl >= 1 /\ pl <= Len(t) + 1
        /\ MAX_MAX \in Nat /\ \A j \in 1 .. Len(t) : t[j] \in Int
    <2>1. Len(t) \in Nat /\ \A j \in 1 .. Len(t) : t[j] \in Int
      BY LenProperties, ElementOfSeq
    <2>2. pl \in 1 .. Len(t) + 1 BY PlaceFacts
    <2> QED BY <2>1, <2>2, PeakAssumption
  <1>2. a \in Seq(Int) /\ Len(a) = pl - 1 /\ \A j \in 1 .. pl - 1 : a[j] = t[j]
    <2>1. \A j \in 1 .. pl - 1 : t[j] \in Int BY <1>1
    <2>2. /\ a \in Seq(Int) /\ Len(a) = IF 1 <= pl - 1 THEN (pl - 1) - 1 + 1 ELSE 0
          /\ \A j \in 1 .. (pl - 1) - 1 + 1 : a[j] = t[1 + j - 1]
      BY <1>1, <2>1, SubSeqProperties
    <2> QED BY <1>1, <2>2
  <1>3. /\ b \in Seq(Int) /\ Len(b) = Len(t) - pl + 1
        /\ \A j \in 1 .. Len(t) - pl + 1 : b[j] = t[pl + j - 1]
    <2>1. pl \in Int /\ Len(t) \in Int /\ \A j \in pl .. Len(t) : t[j] \in Int BY <1>1
    <2>2. /\ b \in Seq(Int) /\ Len(b) = IF pl <= Len(t) THEN Len(t) - pl + 1 ELSE 0
          /\ \A j \in 1 .. Len(t) - pl + 1 : b[j] = t[pl + j - 1]
      BY <2>1, SubSeqProperties
    <2> QED BY <1>1, <2>2
  <1>4. <<k>> \in Seq(Int) /\ Len(<<k>>) = 1 /\ <<k>>[1] = k OBVIOUS
  <1> HIDE DEF a, b
  <1>5. /\ a \o <<k>> \in Seq(Int) /\ Len(a \o <<k>>) = pl
        /\ \A j \in 1 .. pl : (a \o <<k>>)[j] = IF j < pl THEN t[j] ELSE k
    <2>1. /\ a \o <<k>> \in Seq(Int) /\ Len(a \o <<k>>) = Len(a) + Len(<<k>>)
          /\ \A j \in 1 .. Len(a) + Len(<<k>>) :
               (a \o <<k>>)[j] = IF j <= Len(a) THEN a[j] ELSE <<k>>[j - Len(a)]
      BY <1>2, <1>4, ConcatProperties
    <2>2. Len(a) + Len(<<k>>) = pl BY <1>1, <1>2, <1>4
    <2>3. ASSUME NEW j \in 1 .. pl PROVE (a \o <<k>>)[j] = IF j < pl THEN t[j] ELSE k
      <3>1. (a \o <<k>>)[j] = IF j <= Len(a) THEN a[j] ELSE <<k>>[j - Len(a)] BY <2>1, <2>2
      <3>2. CASE j < pl BY <1>1, <1>2, <3>1, <3>2
      <3>3. CASE ~(j < pl)
        <4>1. j - Len(a) = 1 /\ ~(j <= Len(a)) BY <1>1, <1>2, <3>3
        <4> QED BY <1>4, <3>1, <3>3, <4>1
      <3> QED BY <3>2, <3>3
    <2> QED BY <2>1, <2>2, <2>3
  <1>6. /\ longer \in Seq(Int) /\ Len(longer) = Len(t) + 1
        /\ \A j \in 1 .. Len(t) + 1 :
             longer[j] = IF j < pl THEN t[j] ELSE IF j = pl THEN k ELSE t[j - 1]
    <2> DEFINE c == a \o <<k>>
    <2>1. c \in Seq(Int) /\ Len(c) = pl /\ \A j \in 1 .. pl : c[j] = IF j < pl THEN t[j] ELSE k
      BY <1>5
    <2>2. longer = c \o b OBVIOUS
    <2> HIDE DEF c, longer
    <2>3. /\ c \o b \in Seq(Int) /\ Len(c \o b) = Len(c) + Len(b)
          /\ \A j \in 1 .. Len(c) + Len(b) :
               (c \o b)[j] = IF j <= Len(c) THEN c[j] ELSE b[j - Len(c)]
      BY <1>3, <2>1, ConcatProperties
    <2>4. Len(c) + Len(b) = Len(t) + 1 BY <1>1, <1>3, <2>1
    <2>5. ASSUME NEW j \in 1 .. Len(t) + 1
          PROVE  (c \o b)[j] = IF j < pl THEN t[j] ELSE IF j = pl THEN k ELSE t[j - 1]
      <3>1. (c \o b)[j] = IF j <= Len(c) THEN c[j] ELSE b[j - Len(c)] BY <2>3, <2>4
      <3>2. CASE j <= pl BY <1>1, <2>1, <3>1, <3>2
      <3>3. CASE ~(j <= pl)
        <4>1. j - pl \in 1 .. Len(t) - pl + 1 BY <1>1, <3>3
        <4>2. b[j - pl] = t[pl + (j - pl) - 1] BY <1>3, <4>1
        <4>3. pl + (j - pl) - 1 = j - 1 BY <1>1
        <4> QED BY <1>1, <2>1, <3>1, <3>3, <4>2, <4>3
      <3> QED BY <3>2, <3>3
    <2> QED BY <2>2, <2>3, <2>4, <2>5
  <1>7. s = SubSeq(longer, 1, n)
    <2>1. Peak!InsertAt(t, pl, k) = longer BY DEF Peak!InsertAt, a, b
    <2>2. Len(longer) = Len(t) + 1 BY <1>6
    <2> HIDE DEF longer
    <2>3. s = SubSeq(longer, 1, IF Len(longer) < MAX_MAX THEN Len(longer) ELSE MAX_MAX)
      BY <2>1 DEF Peak!Inserted
    <2>4. (IF Len(longer) < MAX_MAX THEN Len(longer) ELSE MAX_MAX) = n BY <1>1, <2>2
    <2> QED BY <2>3, <2>4
  <1> HIDE DEF longer
  <1>8. n \in Nat /\ n <= Len(t) + 1 BY <1>1
  <1>9. \A j \in 1 .. n : longer[j] \in Int
    <2>1. \A j \in 1 .. Len(t) + 1 : longer[j] \in Int BY <1>6, ElementOfSeq
    <2> QED BY <1>1, <1>8, <2>1
  <1> HIDE DEF n
  <1>10. /\ s \in Seq(Int) /\ Len(s) = n
         /\ \A j \in 1 .. n : s[j] = longer[j]
    <2>1. /\ SubSeq(longer, 1, n) \in Seq(Int)
          /\ Len(SubSeq(longer, 1, n)) = IF 1 <= n THEN n - 1 + 1 ELSE 0
          /\ \A j \in 1 .. n - 1 + 1 : SubSeq(longer, 1, n)[j] = longer[1 + j - 1]
      BY <1>8, <1>9, SubSeqProperties
    <2>2. n - 1 + 1 = n /\ (IF 1 <= n THEN n - 1 + 1 ELSE 0) = n BY <1>8
    <2>3. \A j \in 1 .. n : 1 + j - 1 = j BY <1>8
    <2> QED BY <1>7, <2>1, <2>2, <2>3
  <1>11. \A j \in 1 .. n : j \in 1 .. Len(t) + 1 BY <1>1, <1>8
  <1>12. \A j \in 1 .. n : s[j] = IF j < pl THEN t[j] ELSE IF j = pl THEN k ELSE t[j - 1]
    BY <1>6, <1>10, <1>11
  <1> QED BY <1>10, <1>12 DEF n

\* Higher peaks are ordered.
LEMMA HigherFacts ==
  ASSUME NEW f \in [0 .. TracePoints - 1 -> Int], NEW S \in SUBSET (0 .. TracePoints - 1)
  PROVE  /\ \A p, q, r \in S : Higher(f, p, q) /\ Higher(f, q, r) => Higher(f, p, r)
         /\ \A p, q \in S : p # q => (Higher(f, p, q) <=> ~Higher(f, q, p))
         /\ \A p \in S : ~Higher(f, p, p)
  <1>1. \A p \in S : p \in Int /\ f[p] \in Int BY TraceFacts
  <1> QED BY <1>1 DEF Higher

\* No peak has been seen where nothing has.
LEMMA EmptyTable ==
  ASSUME NEW f \in [0 .. TracePoints - 1 -> Int], NEW x \in 0 .. TracePoints - 1
  PROVE  Table(f, {x}, <<>>) /\ Slope(f, {x}, x, TRUE)
  <1>1. /\ x \in Int /\ ~(x < x) /\ f[x] \in Int /\ f[x] <= f[x] + noise /\ ~(f[x] < f[x])
    BY PeakAssumption
  <1>2. \A p \in {x} : ~PeakOf(f, {x}, p) /\ ~Candidate(f, {x}, p)
    BY <1>1 DEF PeakOf, Candidate
  <1>3. Table(f, {x}, <<>>) BY <1>2, PeakAssumption DEF Table
  <1> QED BY <1>1, <1>2, <1>3 DEF Falling, Slope

\* Without a new peak the table stays the one of the peaks.
LEMMA TableStays ==
  ASSUME NEW f, NEW S, NEW k, NEW t, Table(f, S, t),
         \A p \in S \union {k} : PeakOf(f, S \union {k}, p) <=> PeakOf(f, S, p) /\ p \in S
  PROVE  Table(f, S \union {k}, t)
  BY DEF Table

\* A new peak, behind the others, takes its place.
LEMMA TableGrows ==
  ASSUME NEW S \in SUBSET (0 .. TracePoints - 1), NEW T \in SUBSET (0 .. TracePoints - 1),
         measured \in [0 .. TracePoints - 1 -> Int], S \subseteq T,
         NEW t, Table(measured, S, t), NEW top \in S,
         \A p \in S : PeakOf(measured, S, p) => p < top,
         \A p \in T : PeakOf(measured, T, p) <=> (PeakOf(measured, S, p) /\ p \in S) \/ p = top
  PROVE  Table(measured, T, Peak!Inserted(t, top)) /\ Peak!Inserted(t, top) # <<>>
  <1> DEFINE s == Peak!Inserted(t, top)
             pl == Peak!Place(t, top)
             f == measured
  <1>1. /\ t \in Seq(Int) /\ Len(t) <= MAX_MAX
        /\ \A j \in 1 .. Len(t) : t[j] \in S /\ PeakOf(f, S, t[j])
        /\ \A i, j \in 1 .. Len(t) : i < j => Higher(f, t[i], t[j])
        /\ \A p \in S : PeakOf(f, S, p) =>
             \/ \E j \in 1 .. Len(t) : t[j] = p
             \/ Len(t) = MAX_MAX /\ \A j \in 1 .. Len(t) : Higher(f, t[j], p)
    BY DEF Table
  <1>2. /\ Len(t) \in Nat /\ MAX_MAX \in Nat /\ MAX_MAX >= 1
        /\ \A p \in S : p \in Int /\ f[p] \in Int
    BY <1>1, LenProperties, PeakAssumption, TraceFacts
  <1>3. /\ pl \in 1 .. Len(t) + 1
        /\ \A j \in 1 .. Len(t) : j < pl => ~(f[t[j]] < f[top])
        /\ pl <= Len(t) => f[t[pl]] < f[top]
    BY <1>1, <1>2, PlaceFacts
  <1>4. /\ s \in Seq(Int)
        /\ Len(s) = IF Len(t) < MAX_MAX THEN Len(t) + 1 ELSE MAX_MAX
        /\ \A j \in 1 .. Len(s) : s[j] = IF j < pl THEN t[j] ELSE IF j = pl THEN top ELSE t[j - 1]
    BY <1>1, <1>2, InsertedFacts
  <1> HIDE DEF s, pl, f
  <1>5. Len(s) \in Nat /\ Len(s) >= 1 /\ Len(s) <= MAX_MAX /\ Len(s) <= Len(t) + 1
        /\ (Len(s) = Len(t) + 1 \/ (Len(s) = MAX_MAX /\ Len(t) = MAX_MAX))
    <2>1. Len(s) = IF Len(t) < MAX_MAX THEN Len(t) + 1 ELSE MAX_MAX BY <1>4
    <2>2. Len(t) <= MAX_MAX /\ Len(t) \in Nat /\ MAX_MAX \in Nat /\ MAX_MAX >= 1 BY <1>1, <1>2
    <2> QED BY <2>1, <2>2
  <1>6. \A j \in 1 .. Len(s) : \/ j < pl /\ j \in 1 .. Len(t) /\ s[j] = t[j]
                               \/ j = pl /\ s[j] = top
                               \/ j > pl /\ j - 1 \in 1 .. Len(t) /\ pl <= j - 1 /\ s[j] = t[j - 1]
    BY <1>2, <1>3, <1>4, <1>5
  <1>7. \A j \in 1 .. Len(t) : j < pl => Higher(f, t[j], top)
    BY <1>1, <1>2, <1>3 DEF Higher, f
  <1>8. \A j \in 1 .. Len(t) : pl <= j => Higher(f, top, t[j])
    <2> SUFFICES ASSUME NEW j \in 1 .. Len(t), pl <= j PROVE Higher(f, top, t[j]) OBVIOUS
    <2>1. pl \in 1 .. Len(t) /\ f[t[pl]] < f[top] BY <1>2, <1>3
    <2>2. pl = j \/ Higher(f, t[pl], t[j]) BY <1>1, <1>2, <1>3, <2>1
    <2>3. f[t[j]] <= f[t[pl]] BY <1>1, <1>2, <2>1, <2>2 DEF Higher
    <2>4. f[t[j]] \in Int /\ f[t[pl]] \in Int /\ f[top] \in Int BY <1>1, <1>2, <2>1
    <2> QED BY <2>1, <2>3, <2>4 DEF Higher
  <1>9. \A j \in 1 .. Len(s) : s[j] \in T /\ PeakOf(f, T, s[j])
    <2>1. \A j \in 1 .. Len(t) : t[j] \in T /\ PeakOf(f, T, t[j]) BY <1>1 DEF f
    <2>2. top \in T /\ PeakOf(f, T, top) BY DEF f
    <2> QED BY <1>6, <2>1, <2>2
  <1>10. ASSUME NEW i \in 1 .. Len(s), NEW j \in 1 .. Len(s), i < j
         PROVE  Higher(f, s[i], s[j])
    <2>1. CASE j < pl BY <1>1, <1>2, <1>3, <1>5, <1>6, <1>10, <2>1
    <2>2. CASE j = pl
      <3>1. i < pl BY <1>10, <2>2
      <3>2. i \in 1 .. Len(t) /\ s[i] = t[i] /\ s[j] = top BY <1>3, <1>5, <1>6, <2>2, <3>1
      <3> QED BY <1>7, <3>1, <3>2
    <2>3. CASE j > pl
      <3>1. j - 1 \in 1 .. Len(t) /\ pl <= j - 1 /\ s[j] = t[j - 1]
        BY <1>3, <1>5, <1>6, <2>3
      <3>2. CASE i < pl
        <4>1. i \in 1 .. Len(t) /\ s[i] = t[i] /\ i < j - 1
          BY <1>2, <1>3, <1>5, <1>6, <3>1, <3>2
        <4> QED BY <1>1, <3>1, <4>1
      <3>3. CASE i = pl
        <4>1. s[i] = top BY <1>3, <1>6, <3>3
        <4> QED BY <1>8, <3>1, <4>1
      <3>4. CASE i > pl
        <4>1. i - 1 \in 1 .. Len(t) /\ s[i] = t[i - 1] /\ i - 1 < j - 1
          BY <1>2, <1>3, <1>5, <1>6, <1>10, <3>1, <3>4
        <4> QED BY <1>1, <3>1, <4>1
      <3> QED BY <1>3, <3>2, <3>3, <3>4
    <2> QED BY <1>3, <2>1, <2>2, <2>3
  <1>11. ASSUME NEW p \in T, PeakOf(f, T, p)
         PROVE  \/ \E j \in 1 .. Len(s) : s[j] = p
                \/ Len(s) = MAX_MAX /\ \A j \in 1 .. Len(s) : Higher(f, s[j], p)
    <2>1. (PeakOf(f, S, p) /\ p \in S) \/ p = top BY <1>11 DEF f
    <2>2. CASE p = top
      <3>1. CASE pl <= Len(s)
        <4>1. pl \in 1 .. Len(s) /\ s[pl] = top BY <1>3, <1>5, <1>6, <3>1
        <4> QED BY <2>2, <4>1
      <3>2. CASE ~(pl <= Len(s))
        <4>1. Len(s) = MAX_MAX BY <1>2, <1>3, <1>5, <3>2
        <4>2. ASSUME NEW j \in 1 .. Len(s) PROVE Higher(f, s[j], p)
          <5>1. j < pl BY <1>3, <1>5, <3>2
          <5>2. j \in 1 .. Len(t) /\ s[j] = t[j] BY <1>3, <1>6, <5>1
          <5> QED BY <1>7, <2>2, <5>1, <5>2
        <4> QED BY <4>1, <4>2
      <3> QED BY <3>1, <3>2
    <2>3. CASE p # top /\ \E j \in 1 .. Len(t) : t[j] = p
      <3>1. PICK j \in 1 .. Len(t) : t[j] = p BY <2>3
      <3>2. CASE j < pl
        <4>1. j \in 1 .. Len(s) BY <1>1, <1>2, <1>5
        <4>2. s[j] = t[j] BY <1>3, <1>6, <3>2, <4>1
        <4> QED BY <3>1, <4>1, <4>2
      <3>3. CASE ~(j < pl) /\ j + 1 <= Len(s)
        <4>1. j + 1 \in 1 .. Len(s) /\ j + 1 > pl BY <1>2, <1>3, <1>5, <3>3
        <4>2. s[j + 1] = t[(j + 1) - 1] BY <1>2, <1>3, <1>6, <4>1
        <4>3. (j + 1) - 1 = j BY <1>2
        <4> QED BY <3>1, <4>1, <4>2, <4>3
      <3>4. CASE ~(j < pl) /\ ~(j + 1 <= Len(s))
        <4>1. j = Len(t) /\ Len(s) = MAX_MAX /\ Len(t) = MAX_MAX BY <1>2, <1>5, <3>4
        <4>2. ASSUME NEW i \in 1 .. Len(s) PROVE Higher(f, s[i], p)
          <5>1. \/ i \in 1 .. Len(t) /\ i < pl /\ s[i] = t[i]
                \/ s[i] = top
                \/ i - 1 \in 1 .. Len(t) /\ s[i] = t[i - 1]
            BY <1>6
          <5>2. CASE i \in 1 .. Len(t) /\ i < pl /\ s[i] = t[i]
            <6>1. i < j BY <1>2, <1>3, <3>4, <5>2
            <6> QED BY <1>1, <3>1, <5>2, <6>1
          <5>3. CASE s[i] = top
            <6>1. pl <= j BY <1>2, <1>3, <3>4
            <6> QED BY <1>8, <3>1, <5>3, <6>1
          <5>4. CASE i - 1 \in 1 .. Len(t) /\ s[i] = t[i - 1]
            <6>1. i - 1 < j BY <1>2, <1>5, <4>1
            <6> QED BY <1>1, <3>1, <5>4, <6>1
          <5> QED BY <5>1, <5>2, <5>3, <5>4
        <4> QED BY <4>1, <4>2
      <3> QED BY <3>2, <3>3, <3>4
    <2>4. CASE p # top /\ ~\E j \in 1 .. Len(t) : t[j] = p
      <3>1. p \in S /\ Len(t) = MAX_MAX /\ \A j \in 1 .. Len(t) : Higher(f, t[j], p)
        BY <1>1, <2>1, <2>4
      <3>2. Len(s) = MAX_MAX BY <1>2, <1>5, <3>1
      <3>3. ASSUME NEW j \in 1 .. Len(s) PROVE Higher(f, s[j], p)
        <4>1. CASE s[j] # top BY <1>6, <3>1, <4>1
        <4>2. CASE s[j] = top /\ pl <= Len(t)
          <5>1. pl \in 1 .. Len(t) BY <1>2, <1>3, <4>2
          <5>2. Higher(f, top, t[pl]) /\ Higher(f, t[pl], p) BY <1>3, <1>8, <3>1, <5>1
          <5>3. t[pl] \in S BY <1>1, <5>1
          <5> QED BY <3>1, <4>2, <5>2, <5>3, HigherFacts DEF f
        <4>3. CASE s[j] = top /\ ~(pl <= Len(t))
          <5>1. j < pl /\ j \in 1 .. Len(t) BY <1>2, <1>3, <3>1, <3>2, <4>3
          <5>2. s[j] = t[j] BY <1>3, <1>6, <5>1
          <5> QED BY <3>1, <5>1, <5>2
        <4> QED BY <4>1, <4>2, <4>3
      <3> QED BY <3>2, <3>3
    <2> QED BY <2>1, <2>2, <2>3, <2>4
  <1>12. Table(f, T, s) BY <1>4, <1>5, <1>9, <1>10, <1>11 DEF Table
  <1>13. s # <<>> BY <1>5
  <1> QED BY <1>12, <1>13 DEF f, s

-----------------------------------------------------------------------------
(* The walk.                                                                 *)

\* The points seen that count when the walk comes to n: those behind the last restart,
\* and the first one.
SeenBelow(n) == {walk.from} \union {k \in walk.from .. n - 1 : k >= walk.near - 1 \/ k = n - 1}

PeakTypes ==
  /\ measured \in [0 .. TracePoints - 1 -> Int]
  /\ walk.search \in BOOLEAN /\ walk.near \in 0 .. 2
  /\ walk.from \in 0 .. TracePoints - 1 /\ walk.to \in 0 .. TracePoints - 1
  /\ walk.from <= walk.to
  /\ ~walk.search => walk.from = 0 /\ walk.to = TracePoints - 1
  /\ walk.search => walk.near = 0
  /\ walk_point \in Int /\ walk.from <= walk_point /\ walk_point <= walk.to + 2
  /\ DOMAIN marker_index = Peak!Markers

\* A walk over the points S remembers the slope it is on and the peaks it has passed.
Walked(S, t, highest, place, down) ==
  /\ Slope(measured, S, place, down)
  /\ Table(measured, S, t)
  /\ highest \in S /\ (t = <<>> => \A q \in S : measured[q] <= measured[highest])

Walking ==
  walk_point <= walk.to + 1 =>
    /\ downslope \in BOOLEAN
    /\ Walked(SeenBelow(walk_point), maxima, peak_finding_index, temppeakIndex, downslope)

PeakInv == PeakTypes /\ Walking /\ MarkersOnPeaks /\ SearchFindsHighest

LEMMA PeakInitially == Peak!Init => PeakInv
  <1> SUFFICES ASSUME Peak!Init PROVE PeakInv OBVIOUS
  <1>1. /\ measured \in Traces /\ walk \in Peak!Walks /\ walk_point = walk.from
        /\ maxima = <<>> /\ temppeakIndex = walk.from /\ downslope = TRUE
        /\ peak_finding_index = walk.from /\ DOMAIN marker_index = Peak!Markers
    BY DEF Peak!Init
  <1>2. PeakTypes
    <2>1. measured \in [0 .. TracePoints - 1 -> Int] BY <1>1, PeakAssumption
    <2>2. TracePoints \in Nat /\ TracePoints >= 1 BY PeakAssumption
    <2>3. CASE walk \in Peak!SweepWalks
      <3>1. /\ walk.search = FALSE /\ walk.near \in 0 .. 2 /\ walk.from = 0
            /\ walk.to = TracePoints - 1
        BY <2>3 DEF Peak!SweepWalks
      <3>2. /\ walk.from \in 0 .. TracePoints - 1 /\ walk.to \in 0 .. TracePoints - 1
            /\ walk_point \in Int /\ walk.from <= walk_point /\ walk_point <= walk.to + 2
            /\ walk.from <= walk.to
        BY <1>1, <2>2, <3>1
      <3> QED BY <1>1, <2>1, <3>1, <3>2 DEF PeakTypes
    <2>4. CASE walk \in Peak!SearchWalks /\ walk.from < walk.to
      <3>1. /\ walk.search = TRUE /\ walk.near = 0 /\ walk.from \in Searches
            /\ walk.to \in Searches /\ walk.from < walk.to
        BY <2>4 DEF Peak!SearchWalks
      <3>2. walk.from \in 0 .. TracePoints - 1 /\ walk.to \in 0 .. TracePoints - 1
        BY <3>1, PeakAssumption
      <3>3. /\ walk_point \in Int /\ walk.from <= walk_point /\ walk_point <= walk.to + 2
            /\ walk.from <= walk.to /\ walk.near \in 0 .. 2
        BY <1>1, <2>2, <3>1, <3>2
      <3> QED BY <1>1, <2>1, <3>1, <3>2, <3>3 DEF PeakTypes
    <2> QED BY <1>1, <2>3, <2>4 DEF Peak!Walks
  <1>3. SeenBelow(walk_point) = {walk.from}
    BY <1>1, <1>2, PeakAssumption DEF SeenBelow, PeakTypes
  <1>4. Walking
    <2>1. Table(measured, {walk.from}, <<>>) /\ Slope(measured, {walk.from}, walk.from, TRUE)
      BY <1>2, EmptyTable DEF PeakTypes
    <2>2. measured[walk.from] <= measured[walk.from] BY <1>2 DEF PeakTypes
    <2> QED BY <1>1, <1>3, <2>1, <2>2 DEF Walking, Walked
  <1>5. ~Peak!Finished
    <2>1. walk.from \in Int /\ walk.to \in Int /\ walk.from <= walk.to BY <1>2 DEF PeakTypes
    <2> QED BY <1>1, <2>1 DEF Peak!Finished
  <1> QED BY <1>2, <1>4, <1>5
      DEF PeakInv, MarkersOnPeaks, SearchFindsHighest, Peak!MarkersOnPeaks, Peak!SearchFindsHighest

\* What AddPoint makes of the walk.
Passed(place, down, k) == ~down /\ measured[k] < measured[place] - noise
NextDown(place, down, k) ==
  IF down THEN ~(measured[place] + noise < measured[k]) ELSE Passed(place, down, k)
NextPlace(place, down, k) ==
  IF \/ down /\ (measured[k] < measured[place] \/ measured[place] + noise < measured[k])
     \/ ~down /\ (measured[k] > measured[place] \/ Passed(place, down, k))
  THEN k ELSE place
NextTable(t, place, down, k) == IF Passed(place, down, k) THEN Peak!Inserted(t, place) ELSE t
NextHighest(t, highest, k) ==
  IF t = <<>> /\ measured[highest] <= measured[k] THEN k ELSE highest

\* A point that comes behind those seen.
LEMMA WalkGoesOn ==
  ASSUME measured \in [0 .. TracePoints - 1 -> Int],
         NEW S \in SUBSET (0 .. TracePoints - 1), NEW k \in 0 .. TracePoints - 1,
         \A s \in S : s < k,
         NEW t, NEW highest, NEW place, NEW down \in BOOLEAN,
         Walked(S, t, highest, place, down)
  PROVE  Walked(S \union {k}, NextTable(t, place, down, k), NextHighest(t, highest, k),
                NextPlace(place, down, k), NextDown(place, down, k))
  <1> DEFINE T == S \union {k}
             down2 == NextDown(place, down, k)
             place2 == NextPlace(place, down, k)
             t2 == NextTable(t, place, down, k)
             highest2 == NextHighest(t, highest, k)
  <1>e. /\ down2 = (IF down THEN ~(measured[place] + noise < measured[k])
                   ELSE ~down /\ measured[k] < measured[place] - noise)
        /\ place2 = (IF \/ down /\ (measured[k] < measured[place]
                                      \/ measured[place] + noise < measured[k])
                        \/ ~down /\ (measured[k] > measured[place]
                                       \/ (~down /\ measured[k] < measured[place] - noise))
                     THEN k ELSE place)
        /\ t2 = (IF ~down /\ measured[k] < measured[place] - noise THEN Peak!Inserted(t, place)
                 ELSE t)
        /\ highest2 = (IF t = <<>> /\ measured[highest] <= measured[k] THEN k ELSE highest)
        /\ down2 \in BOOLEAN
    BY DEF Passed, NextDown, NextPlace, NextTable, NextHighest
  <1> SUFFICES Walked(T, t2, highest2, place2, down2) OBVIOUS
  <1> HIDE DEF down2, place2, t2, highest2
  <1>1. /\ noise \in Nat /\ \A s \in T : s \in Int /\ measured[s] \in Int
    BY TraceFacts
  <1>2. /\ Slope(measured, S, place, down) /\ Table(measured, S, t) /\ place \in S
        /\ highest \in S /\ (t = <<>> => \A q \in S : measured[q] <= measured[highest])
    BY DEF Walked, Slope
  <1>4. highest2 \in T /\ (t = <<>> => \A q \in T : measured[q] <= measured[highest2])
    BY <1>1, <1>2, <1>e
  <1>5. CASE down /\ measured[k] <= measured[place] + noise
    <2>1. down2 /\ t2 = t
      <3>1. ~(measured[place] + noise < measured[k]) BY <1>1, <1>2, <1>5
      <3> QED BY <1>5, <1>e, <3>1
    <2>2. place2 = IF measured[k] < measured[place] THEN k ELSE place BY <1>e, <1>1, <1>2, <1>5
    <2>3. Falling(measured, S, place) BY <1>2, <1>5 DEF Slope
    <2>f. /\ Falling(measured, T, IF measured[k] < measured[place] THEN k ELSE place)
          /\ \A p \in T : PeakOf(measured, T, p) <=> PeakOf(measured, S, p) /\ p \in S
      BY <1>2, <1>5, <2>3, FallsOn
    <2>4. /\ Falling(measured, T, place2)
          /\ \A p \in T : PeakOf(measured, T, p) <=> PeakOf(measured, S, p) /\ p \in S
      BY <2>2, <2>f
    <2>5. Table(measured, T, t2) BY <1>2, <2>1, <2>4, TableStays
    <2>6. place2 \in T BY <1>2, <2>2
    <2> QED BY <1>4, <2>1, <2>4, <2>5, <2>6 DEF Walked, Slope
  <1>6. CASE down /\ measured[place] + noise < measured[k]
    <2>1. down2 = FALSE /\ t2 = t /\ place2 = k BY <1>e, <1>1, <1>2, <1>6
    <2>2. Falling(measured, S, place) BY <1>2, <1>6 DEF Slope
    <2>3. /\ Climbing(measured, T, k)
          /\ \A p \in T : PeakOf(measured, T, p) <=> PeakOf(measured, S, p) /\ p \in S
      BY <1>2, <1>6, <2>2, Turns
    <2>4. Table(measured, T, t2) BY <1>2, <2>1, <2>3, TableStays
    <2> QED BY <1>4, <2>1, <2>3, <2>4 DEF Walked, Slope
  <1>7. CASE ~down /\ measured[place] - noise <= measured[k]
    <2>1. down2 = FALSE /\ t2 = t BY <1>e, <1>1, <1>2, <1>7
    <2>2. place2 = IF measured[k] > measured[place] THEN k ELSE place BY <1>e, <1>1, <1>2, <1>7
    <2>3. Climbing(measured, S, place) BY <1>2, <1>7 DEF Slope
    <2>c. /\ Climbing(measured, T, IF measured[k] > measured[place] THEN k ELSE place)
          /\ \A p \in T : PeakOf(measured, T, p) <=> PeakOf(measured, S, p) /\ p \in S
      BY <1>2, <1>7, <2>3, ClimbsOn
    <2>4. /\ Climbing(measured, T, place2)
          /\ \A p \in T : PeakOf(measured, T, p) <=> PeakOf(measured, S, p) /\ p \in S
      BY <2>2, <2>c
    <2>5. Table(measured, T, t2) BY <1>2, <2>1, <2>4, TableStays
    <2>6. place2 \in T BY <1>2, <2>2
    <2> QED BY <1>4, <2>1, <2>4, <2>5, <2>6 DEF Walked, Slope
  <1>8. CASE ~down /\ measured[k] < measured[place] - noise
    <2>1. down2 = TRUE /\ t2 = Peak!Inserted(t, place) /\ place2 = k BY <1>e, <1>8
    <2>2. Climbing(measured, S, place) BY <1>2, <1>8 DEF Slope
    <2>3. /\ Falling(measured, T, k)
          /\ \A p \in T :
               PeakOf(measured, T, p) <=> (PeakOf(measured, S, p) /\ p \in S) \/ p = place
          /\ \A p \in S : PeakOf(measured, S, p) => p < place
      BY <1>2, <1>8, <2>2, TopPassed
    <2>4. T \in SUBSET (0 .. TracePoints - 1) /\ S \subseteq T OBVIOUS
    <2> HIDE DEF T
    <2>5. Table(measured, T, t2) /\ t2 # <<>> BY <1>2, <2>1, <2>3, <2>4, TableGrows
    <2>6. k \in T BY DEF T
    <2> QED BY <1>4, <2>1, <2>3, <2>5, <2>6 DEF Walked, Slope, T
  <1>9. measured[place] \in Int /\ measured[k] \in Int BY <1>1, <1>2, <1>e
  <1> QED BY <1>1, <1>5, <1>6, <1>7, <1>8, <1>9

\* The points that are seen one after the other.
LEMMA SeenFacts ==
  ASSUME PeakTypes, walk_point <= walk.to
  PROVE  /\ walk_point \in 0 .. TracePoints - 1
         /\ SeenBelow(walk_point) \in SUBSET (0 .. TracePoints - 1)
         /\ \A s \in SeenBelow(walk_point) : s < walk_point \/ s = walk.from
         /\ SeenBelow(walk_point + 1) =
              (IF walk_point = walk.from \/ walk_point < walk.near THEN {walk.from}
               ELSE SeenBelow(walk_point)) \union {walk_point}
         /\ walk_point # walk.from => walk.from < walk_point
  <1> DEFINE n == TracePoints
             i == walk.from
             z == walk.near
             w == walk_point
  <1>1. /\ i \in Nat /\ walk.to \in Nat /\ z \in Nat /\ w \in Int /\ n \in Nat
        /\ i <= w /\ w <= walk.to /\ walk.to <= n - 1
    BY PeakAssumption DEF PeakTypes
  <1>2. i = 0 \/ z = 0 BY DEF PeakTypes
  <1>3. /\ \A m \in Int : SeenBelow(m) = {i} \union {k \in i .. m - 1 : k >= z - 1 \/ k = m - 1}
    BY DEF SeenBelow
  <1> HIDE DEF n, i, z, w
  <1>4. w \in 0 .. n - 1 BY <1>1
  <1>5. SeenBelow(w) \in SUBSET (0 .. n - 1) BY <1>1, <1>3
  <1>6. \A s \in SeenBelow(w) : s < w \/ s = i BY <1>1, <1>3
  <1>7. SeenBelow(w + 1) = {i} \union {k \in i .. w : k >= z - 1 \/ k = w}
    <2>1. w + 1 \in Int /\ (w + 1) - 1 = w BY <1>1
    <2> QED BY <1>3, <2>1
  <1>8. ASSUME w = i \/ w < z PROVE SeenBelow(w + 1) = {i} \union {w}
    BY <1>1, <1>2, <1>7, <1>8
  <1>9. ASSUME ~(w = i \/ w < z) PROVE SeenBelow(w + 1) = SeenBelow(w) \union {w}
    BY <1>1, <1>2, <1>3, <1>7, <1>9
  <1>10. w # i => i < w BY <1>1
  <1> QED BY <1>4, <1>5, <1>6, <1>8, <1>9, <1>10 DEF n, i, z, w

LEMMA AddPointKeeps ==
  ASSUME PeakInv, Peak!AddPoint
  PROVE  PeakInv'
  <1>1. PeakTypes /\ Walking BY DEF PeakInv
  <1>2. /\ walk_point <= walk.to /\ walk_point' = walk_point + 1
        /\ UNCHANGED <<measured, walk, tracking, marker_index>>
    BY DEF Peak!AddPoint
  <1>3. /\ measured \in [0 .. TracePoints - 1 -> Int] /\ walk.from \in 0 .. TracePoints - 1
        /\ walk_point \in Int /\ walk.to \in Int /\ walk.from <= walk_point
    BY <1>1 DEF PeakTypes
  <1>4. PeakTypes'
    BY <1>1, <1>2, <1>3 DEF PeakTypes
  <1>5. ~Peak!Finished' BY <1>2, <1>3 DEF Peak!Finished
  <1> DEFINE k == walk_point
             again == k = walk.from \/ k < walk.near
             S == IF again THEN {walk.from} ELSE SeenBelow(k)
             t == IF again THEN <<>> ELSE maxima
             place == IF again THEN walk.from ELSE temppeakIndex
             down == IF again THEN TRUE ELSE downslope
             highest == IF again THEN walk.from ELSE peak_finding_index
  <1>6. /\ k \in 0 .. TracePoints - 1 /\ S \in SUBSET (0 .. TracePoints - 1)
        /\ \A s \in S : s < k \/ s = walk.from
        /\ SeenBelow(k + 1) = S \union {k}
        /\ k # walk.from => walk.from < k
    BY <1>1, <1>2, <1>3, SeenFacts
  <1>7. down \in BOOLEAN /\ Walked(S, t, highest, place, down)
    <2>1. CASE again
      <3>1. Table(measured, {walk.from}, <<>>) /\ Slope(measured, {walk.from}, walk.from, TRUE)
        BY <1>3, EmptyTable
      <3>2. measured[walk.from] <= measured[walk.from] BY <1>3
      <3> QED BY <2>1, <3>1, <3>2 DEF Walked
    <2>2. CASE ~again
      <3>1. walk_point <= walk.to + 1 BY <1>2, <1>3
      <3> QED BY <1>1, <2>2, <3>1 DEF Walking
    <2> QED BY <2>1, <2>2
  <1>8. /\ downslope' = NextDown(place, down, k)
        /\ temppeakIndex' = NextPlace(place, down, k)
        /\ maxima' = NextTable(t, place, down, k)
        /\ peak_finding_index' = NextHighest(t, highest, k)
    BY DEF Peak!AddPoint, Peak!Begun, Peak!Level,
           NextDown, NextPlace, NextTable, NextHighest, Passed
  <1> HIDE DEF t, place, down, highest, S
  <1>9. /\ downslope' \in BOOLEAN
        /\ Walked(S \union {k}, maxima', peak_finding_index', temppeakIndex', downslope')
    <2>1. CASE k # walk.from
      <3>1. \A s \in S : s < k BY <1>6, <2>1
      <3>2. measured \in [0 .. TracePoints - 1 -> Int] /\ k \in 0 .. TracePoints - 1
            /\ S \in SUBSET (0 .. TracePoints - 1)
        BY <1>3, <1>6
      <3>3. Walked(S \union {k}, NextTable(t, place, down, k), NextHighest(t, highest, k),
                   NextPlace(place, down, k), NextDown(place, down, k))
        BY <1>7, <3>1, <3>2, WalkGoesOn
      <3>4. downslope' \in BOOLEAN BY <1>7, <1>8 DEF NextDown, Passed
      <3> QED BY <1>8, <3>3, <3>4
    <2>2. CASE k = walk.from
      <3>1. /\ S = {walk.from} /\ t = <<>> /\ place = k /\ down = TRUE /\ highest = k
        BY <2>2 DEF S, t, place, down, highest
      <3>2. measured[k] \in Int /\ noise \in Nat BY <1>3, <2>2, PeakAssumption
      <3>3. ~(measured[place] + noise < measured[k]) /\ ~(measured[k] < measured[place])
        BY <3>1, <3>2
      <3>4. /\ downslope' = TRUE /\ temppeakIndex' = place /\ maxima' = t
        BY <1>8, <3>1, <3>3 DEF NextDown, NextPlace, NextTable, Passed
      <3>5. peak_finding_index' = highest BY <1>8, <3>1 DEF NextHighest
      <3>6. S \union {k} = S BY <2>2, <3>1
      <3> QED BY <1>7, <3>1, <3>4, <3>5, <3>6
    <2> QED BY <2>1, <2>2
  <1>10. Walking'
    <2>1. SeenBelow(walk_point)' = S \union {k} BY <1>2, <1>6 DEF SeenBelow
    <2> QED BY <1>2, <1>9, <2>1 DEF Walking, Walked
  <1> QED BY <1>4, <1>5, <1>10
      DEF PeakInv, MarkersOnPeaks, SearchFindsHighest, Peak!MarkersOnPeaks, Peak!SearchFindsHighest

\* Elements of a sequence that differ are as many as their places.
LEMMA PlacesCounted ==
  ASSUME NEW t \in Seq(Int), NEW n \in 0 .. Len(t),
         \A i, j \in 1 .. n : i # j => t[i] # t[j]
  PROVE  Cardinality({t[i] : i \in 1 .. n}) = n
  <1> DEFINE T == {t[i] : i \in 1 .. n}
             f == [i \in 1 .. n |-> t[i]]
  <1>1. n \in Nat BY LenProperties
  <1>2. IsFiniteSet(1 .. n) /\ Cardinality(1 .. n) = n
    <2>1. IsFiniteSet(1 .. n) /\ Cardinality(1 .. n) = IF 1 > n THEN 0 ELSE n - 1 + 1
      BY <1>1, FS_Interval
    <2> QED BY <1>1, <2>1
  <1>3. f \in Bijection(1 .. n, T)
    <2>1. f \in [1 .. n -> T] OBVIOUS
    <2>2. \A i, j \in 1 .. n : f[i] = f[j] => i = j OBVIOUS
    <2>3. \A y \in T : \E i \in 1 .. n : f[i] = y OBVIOUS
    <2> QED BY <2>1, <2>2, <2>3 DEF Bijection, Injection, Surjection, IsInjective
  <1>4. ExistsBijection(1 .. n, T) BY <1>3 DEF ExistsBijection
  <1> HIDE DEF T, f
  <1>5. Cardinality(T) = Cardinality(1 .. n) BY <1>2, <1>4, FS_Bijection
  <1> QED BY <1>2, <1>5 DEF T

\* The peaks above one.
Above(f, P, p) == {q \in P : Higher(f, q, p)}

\* The rank of a peak is its place in the table, and a table that is not full holds all.
LEMMA TableRanks ==
  ASSUME NEW f \in [0 .. TracePoints - 1 -> Int], NEW S \in SUBSET (0 .. TracePoints - 1),
         NEW t, Table(f, S, t), NEW P, P = {p \in S : PeakOf(f, S, p)}
  PROVE  /\ \A j \in 1 .. Len(t) : /\ t[j] \in P
                                   /\ Cardinality(Above(f, P, t[j])) = j - 1
         /\ Len(t) < MAX_MAX => Cardinality(P) = Len(t)
         /\ t = <<>> <=> P = {}
  <1>1. /\ t \in Seq(Int) /\ Len(t) \in Nat /\ Len(t) <= MAX_MAX
        /\ \A j \in 1 .. Len(t) : t[j] \in P /\ t[j] \in S
        /\ \A i, j \in 1 .. Len(t) : i < j => Higher(f, t[i], t[j])
    BY LenProperties DEF Table
  <1>2. \A p \in P : \/ \E j \in 1 .. Len(t) : t[j] = p
                     \/ Len(t) = MAX_MAX /\ \A j \in 1 .. Len(t) : Higher(f, t[j], p)
    BY DEF Table
  <1>3. /\ \A p, q \in S : Higher(f, p, q) => ~Higher(f, q, p)
        /\ \A p \in S : ~Higher(f, p, p)
    BY HigherFacts
  <1>4. \A i, j \in 1 .. Len(t) : i # j => t[i] # t[j]
    <2> SUFFICES ASSUME NEW i \in 1 .. Len(t), NEW j \in 1 .. Len(t), i # j PROVE t[i] # t[j]
      OBVIOUS
    <2>1. i < j \/ j < i BY <1>1
    <2> QED BY <1>1, <1>3, <2>1
  <1>5. ASSUME NEW j \in 1 .. Len(t)
        PROVE  Cardinality(Above(f, P, t[j])) = j - 1
    <2>1. j - 1 \in 0 .. Len(t) /\ \A i \in 1 .. j - 1 : i \in 1 .. Len(t) /\ i < j
      BY <1>1
    <2>2. Above(f, P, t[j]) = {t[i] : i \in 1 .. j - 1}
      <3>1. ASSUME NEW i \in 1 .. j - 1 PROVE t[i] \in P /\ Higher(f, t[i], t[j])
        BY <1>1, <2>1
      <3>2. ASSUME NEW q \in P, Higher(f, q, t[j]) PROVE \E i \in 1 .. j - 1 : t[i] = q
        <4>1. q \in S /\ t[j] \in S BY <1>1
        <4>2. ~Higher(f, t[j], q) BY <1>3, <3>2, <4>1
        <4>3. PICK i \in 1 .. Len(t) : t[i] = q BY <1>2, <4>2
        <4>4. i # j /\ ~(j < i) BY <1>1, <1>3, <3>2, <4>1, <4>2, <4>3
        <4>5. i \in 1 .. j - 1 BY <1>1, <4>4
        <4> QED BY <4>3, <4>5
      <3> QED BY <3>1, <3>2 DEF Above
    <2>3. Cardinality({t[i] : i \in 1 .. j - 1}) = j - 1
      BY <1>1, <1>4, <2>1, PlacesCounted
    <2> QED BY <2>2, <2>3
  <1>6. ASSUME Len(t) < MAX_MAX PROVE Cardinality(P) = Len(t)
    <2>1. P = {t[i] : i \in 1 .. Len(t)}
      <3>1. Len(t) # MAX_MAX BY <1>1, <1>6, PeakAssumption
      <3> QED BY <1>1, <1>2, <3>1
    <2>2. Len(t) \in 0 .. Len(t) BY <1>1
    <2> QED BY <1>1, <1>4, <2>1, <2>2, PlacesCounted
  <1>7. t = <<>> <=> P = {}
    <2>1. CASE t = <<>>
      <3>1. Len(t) = 0 /\ Len(t) # MAX_MAX BY <2>1, PeakAssumption
      <3>2. \A j : j \notin 1 .. Len(t) BY <3>1
      <3> QED BY <1>2, <2>1, <3>1, <3>2
    <2>2. CASE t # <<>>
      <3>1. 1 \in 1 .. Len(t)
        <4>1. Len(t) # 0 BY <1>1, <2>2, EmptySeq
        <4> QED BY <1>1, <4>1
      <3> QED BY <1>1, <2>2, <3>1
    <2> QED BY <2>1, <2>2
  <1> QED BY <1>1, <1>5, <1>6, <1>7

\* The cardinality of the instance.
LEMMA SameCardinality == \A A : Peak!Cardinality(A) = Cardinality(A)
  BY DEF Peak!Cardinality, Cardinality

\* What the walk knows when it ends.
LEMMA WalkEnds ==
  ASSUME PeakInv, walk_point = walk.to + 1
  PROVE  /\ maxima \in Seq(Int) /\ Len(maxima) \in Nat /\ Len(maxima) <= MAX_MAX
         /\ \A j \in 1 .. Len(maxima) : maxima[j] \in Peak!Peaks /\ Peak!Rank(maxima[j]) = j
         /\ Len(maxima) < MAX_MAX => Cardinality(Peak!Peaks) = Len(maxima)
         /\ maxima = <<>> <=> Peak!Peaks = {}
         /\ maxima = <<>> => Peak!Highest(peak_finding_index)
  <1> DEFINE S == SeenBelow(walk_point)
  <1>1. PeakTypes /\ Walking BY DEF PeakInv
  <1>2. /\ walk.from \in Nat /\ walk.to \in Nat /\ walk.near \in 0 .. 2
        /\ walk.from <= walk.to /\ walk.to <= TracePoints - 1 /\ TracePoints \in Nat
        /\ walk_point \in Int
        /\ measured \in [0 .. TracePoints - 1 -> Int]
    BY <1>1, PeakAssumption DEF PeakTypes
  <1>3. walk.near = 0 \/ (walk.from = 0 /\ walk.to = TracePoints - 1)
    BY <1>1 DEF PeakTypes
  <1>4. Walked(S, maxima, peak_finding_index, temppeakIndex, downslope)
    BY <1>1, <1>2 DEF Walking
  <1>5. Peak!Seen = S
    <2>1. walk_point - 1 = walk.to BY <1>2
    <2>2. S = {walk.from} \union {k \in walk.from .. walk.to : k >= walk.near - 1 \/ k = walk.to}
      BY <2>1 DEF SeenBelow
    <2>3. Peak!Seen = {walk.from} \union
                        (IF walk.near = 0 THEN walk.from ELSE walk.near - 1) .. walk.to
      BY DEF Peak!Seen
    <2> HIDE DEF S
    <2>4. CASE walk.near = 0 BY <1>2, <2>2, <2>3, <2>4
    <2>5. CASE walk.near # 0
      <3>1. walk.from = 0 /\ walk.near >= 1 /\ walk.near <= 2 BY <1>2, <1>3, <2>5
      <3>2. Peak!Seen = {0} \union (walk.near - 1) .. walk.to BY <2>3, <2>5, <3>1
      <3>3. S = {0} \union {k \in 0 .. walk.to : k >= walk.near - 1 \/ k = walk.to}
        BY <2>2, <3>1
      <3>4. CASE walk.to >= 1 BY <1>2, <3>1, <3>2, <3>3, <3>4
      <3>5. CASE walk.to = 0 BY <1>2, <3>1, <3>2, <3>3, <3>5
      <3> QED BY <1>2, <3>4, <3>5
    <2> QED BY <2>4, <2>5
  <1>6. S \in SUBSET (0 .. TracePoints - 1) BY <1>2 DEF SeenBelow
  <1> HIDE DEF S
  <1>7. \A p \in S : Peak!IsPeak(p) <=> PeakOf(measured, S, p)
    BY <1>5 DEF Peak!IsPeak, PeakOf, Peak!Level
  <1>8. Peak!Peaks = {p \in S : PeakOf(measured, S, p)} BY <1>5, <1>7 DEF Peak!Peaks
  <1>9. /\ Table(measured, S, maxima)
        /\ maxima = <<>> => \A q \in S : measured[q] <= measured[peak_finding_index]
    BY <1>4 DEF Walked
  <1>10. /\ \A j \in 1 .. Len(maxima) :
              /\ maxima[j] \in Peak!Peaks
              /\ Cardinality(Above(measured, Peak!Peaks, maxima[j])) = j - 1
         /\ Len(maxima) < MAX_MAX => Cardinality(Peak!Peaks) = Len(maxima)
         /\ maxima = <<>> <=> Peak!Peaks = {}
    <2>1. measured \in [0 .. TracePoints - 1 -> Int] BY <1>2
    <2>2. Table(measured, S, maxima) BY <1>9
    <2>3. /\ \A j \in 1 .. Len(maxima) :
               /\ maxima[j] \in Peak!Peaks
               /\ Cardinality(Above(measured, Peak!Peaks, maxima[j])) = j - 1
      BY <1>6, <1>8, <2>1, <2>2, TableRanks
    <2>4. /\ Len(maxima) < MAX_MAX => Cardinality(Peak!Peaks) = Len(maxima)
      BY <1>6, <1>8, <2>1, <2>2, TableRanks
    <2>5.  maxima = <<>> <=> Peak!Peaks = {}
      BY <1>6, <1>8, <2>1, <2>2, TableRanks
    <2> QED BY <2>3, <2>4, <2>5
  <1>11. ASSUME NEW j \in 1 .. Len(maxima) PROVE Peak!Rank(maxima[j]) = j
    <2>1. \A q : Peak!Before(q, maxima[j]) <=> Higher(measured, q, maxima[j])
      BY DEF Peak!Before, Peak!Level, Higher
    <2>2. {q \in Peak!Peaks : Peak!Before(q, maxima[j])} = Above(measured, Peak!Peaks, maxima[j])
      BY <2>1, Zenon DEF Above
    <2>3. Peak!Rank(maxima[j]) = Cardinality(Above(measured, Peak!Peaks, maxima[j])) + 1
      BY <2>2, SameCardinality DEF Peak!Rank
    <2>4. Cardinality(Above(measured, Peak!Peaks, maxima[j])) = j - 1 /\ j \in Int BY <1>10
    <2> QED BY <2>3, <2>4
  <1>12. maxima \in Seq(Int) /\ Len(maxima) \in Nat /\ Len(maxima) <= MAX_MAX
    BY <1>9, LenProperties DEF Table
  <1>13. maxima = <<>> => Peak!Highest(peak_finding_index)
    BY <1>5, <1>9 DEF Peak!Highest, Peak!Level
  <1> QED BY <1>10, <1>11, <1>12, <1>13

\* The rank of a marker among those that track.
LEMMA MarkerRanks ==
  ASSUME NEW ms \in SUBSET Peak!Markers, NEW m \in ms
  PROVE  Cardinality({k \in ms : k <= m}) \in 1 .. MAX_MAX
  <1> DEFINE R == {k \in ms : k <= m}
  <1>1. MAX_MAX \in Nat /\ ms \subseteq 1 .. MAX_MAX BY PeakAssumption DEF Peak!Markers
  <1>2. IsFiniteSet(1 .. MAX_MAX) /\ Cardinality(1 .. MAX_MAX) = MAX_MAX
    <2>1. 1 \in Int /\ MAX_MAX \in Int /\ MAX_MAX >= 1 BY PeakAssumption
    <2>2. /\ IsFiniteSet(1 .. MAX_MAX)
          /\ Cardinality(1 .. MAX_MAX) = IF 1 > MAX_MAX THEN 0 ELSE MAX_MAX - 1 + 1
      BY <2>1, FS_Interval
    <2> QED BY <2>1, <2>2
  <1>3. R \subseteq 1 .. MAX_MAX /\ m \in R
    <2>1. m \in Int /\ m <= m BY <1>1
    <2> QED BY <1>1, <2>1
  <1> HIDE DEF R
  <1>4. IsFiniteSet(R) /\ Cardinality(R) <= MAX_MAX BY <1>2, <1>3, FS_Subset
  <1>5. Cardinality(R) \in Nat /\ Cardinality(R) # 0
    BY <1>3, <1>4, FS_CardinalityType, FS_EmptySet
  <1>6. Cardinality(R) \in 1 .. MAX_MAX BY <1>1, <1>4, <1>5
  <1> QED BY <1>6 DEF R

LEMMA FinishSweepKeeps ==
  ASSUME PeakInv, Peak!FinishSweep
  PROVE  PeakInv'
  <1>1. /\ walk_point = walk.to + 1 /\ ~walk.search /\ walk_point' = walk_point + 1
        /\ maxima' = (IF maxima = <<>> THEN <<peak_finding_index>> ELSE maxima)
        /\ tracking' \in SUBSET Peak!Markers
        /\ marker_index' = Peak!Assigned(tracking', maxima')
        /\ UNCHANGED <<measured, walk>>
    BY DEF Peak!FinishSweep
  <1>2. walk_point \in Int /\ walk.to \in Int /\ walk.from \in Int /\ walk.from <= walk.to
    BY DEF PeakInv, PeakTypes
  <1>3. PeakTypes'
    <2>1. PeakTypes BY DEF PeakInv
    <2>2. walk_point' \in Int /\ walk.from <= walk_point' /\ walk_point' <= walk.to + 2
      BY <1>1, <1>2
    <2>3. DOMAIN marker_index' = Peak!Markers BY <1>1 DEF Peak!Assigned
    <2> QED BY <1>1, <2>1, <2>2, <2>3 DEF PeakTypes
  <1>4. Walking' BY <1>1, <1>2 DEF Walking
  <1>5. /\ maxima \in Seq(Int) /\ Len(maxima) \in Nat /\ Len(maxima) <= MAX_MAX
        /\ \A j \in 1 .. Len(maxima) : maxima[j] \in Peak!Peaks /\ Peak!Rank(maxima[j]) = j
        /\ Len(maxima) < MAX_MAX => Cardinality(Peak!Peaks) = Len(maxima)
        /\ maxima = <<>> <=> Peak!Peaks = {}
        /\ maxima = <<>> => Peak!Highest(peak_finding_index)
    BY <1>1, WalkEnds
  <1>6. /\ Peak!Peaks' = Peak!Peaks
        /\ \A p : (Peak!Rank(p))' = Peak!Rank(p)
        /\ \A p : (Peak!Highest(p))' <=> Peak!Highest(p)
    BY <1>1 DEF Peak!Peaks, Peak!Seen, Peak!IsPeak, Peak!Level, Peak!Rank, Peak!Before,
                Peak!Highest
  <1>7. ASSUME NEW m \in tracking', NEW rank, rank = Cardinality({k \in tracking' : k <= m})
        PROVE  \/ marker_index'[m] \in Peak!Peaks /\ Peak!Rank(marker_index'[m]) = rank
               \/ Peak!Peaks = {} /\ rank = 1 /\ Peak!Highest(marker_index'[m])
               \/ rank > Cardinality(Peak!Peaks) /\ marker_index'[m] = 0
    <2>1. rank \in 1 .. MAX_MAX BY <1>1, <1>7, MarkerRanks
    <2>2. m \in Peak!Markers BY <1>1
    <2>3. marker_index'[m] = IF rank > Len(maxima') THEN 0 ELSE maxima'[rank]
      BY <1>1, <1>7, <2>2, SameCardinality DEF Peak!Assigned
    <2>4. CASE maxima # <<>>
      <3>1. maxima' = maxima BY <1>1, <2>4
      <3>2. CASE rank <= Len(maxima)
        <4>1. rank \in 1 .. Len(maxima) /\ ~(rank > Len(maxima)) BY <1>5, <2>1, <3>2
        <4>2. marker_index'[m] = maxima[rank] BY <2>3, <3>1, <4>1
        <4> QED BY <1>5, <4>1, <4>2
      <3>3. CASE ~(rank <= Len(maxima))
        <4>1. rank > Len(maxima) /\ Len(maxima) < MAX_MAX
          BY <1>5, <2>1, <3>3, PeakAssumption
        <4> QED BY <1>5, <2>3, <3>1, <4>1
      <3> QED BY <3>2, <3>3
    <2>5. CASE maxima = <<>>
      <3>1. Peak!Peaks = {} /\ Peak!Highest(peak_finding_index) BY <1>5, <2>5
      <3>2. maxima' = <<peak_finding_index>> /\ Len(maxima') = 1
            /\ maxima'[1] = peak_finding_index
        BY <1>1, <2>5
      <3>3. Cardinality(Peak!Peaks) = 0 BY <3>1, FS_EmptySet
      <3>4. rank = 1 \/ rank > 1 BY <2>1, PeakAssumption
      <3>5. CASE rank = 1
        <4>1. ~(rank > Len(maxima')) BY <3>2, <3>5
        <4>2. marker_index'[m] = peak_finding_index BY <2>3, <3>2, <3>5, <4>1
        <4> QED BY <3>1, <3>5, <4>2
      <3>6. CASE rank > 1
        <4>1. rank > Len(maxima') /\ rank > 0 BY <2>1, <3>2, <3>6, PeakAssumption
        <4> QED BY <2>3, <3>3, <4>1
      <3> QED BY <3>4, <3>5, <3>6
    <2> QED BY <2>4, <2>5
  <1>8. MarkersOnPeaks'
    <2> SUFFICES ASSUME NEW m \in tracking', NEW rank,
                        rank = Peak!Cardinality({k \in tracking' : k <= m})
                 PROVE  \/ marker_index'[m] \in Peak!Peaks' /\ (Peak!Rank(marker_index[m]))' = rank
                        \/ Peak!Peaks' = {} /\ rank = 1 /\ (Peak!Highest(marker_index[m]))'
                        \/ rank > (Peak!Cardinality(Peak!Peaks))' /\ marker_index'[m] = 0
      BY DEF MarkersOnPeaks, Peak!MarkersOnPeaks
    <2>1. rank = Cardinality({k \in tracking' : k <= m}) BY SameCardinality
    <2>2. (Peak!Cardinality(Peak!Peaks))' = Cardinality(Peak!Peaks)
      BY <1>6, SameCardinality DEF Peak!Cardinality
    <2>3. /\ (Peak!Rank(marker_index[m]))' = Peak!Rank(marker_index'[m])
          /\ (Peak!Highest(marker_index[m]))' <=> Peak!Highest(marker_index'[m])
      BY <1>1 DEF Peak!Peaks, Peak!Seen, Peak!IsPeak, Peak!Level, Peak!Rank, Peak!Before,
                  Peak!Highest
    <2> QED BY <1>6, <1>7, <2>1, <2>2, <2>3
  <1>9. SearchFindsHighest' BY <1>1 DEF SearchFindsHighest, Peak!SearchFindsHighest
  <1> QED BY <1>3, <1>4, <1>8, <1>9 DEF PeakInv

LEMMA FinishSearchKeeps ==
  ASSUME PeakInv, Peak!FinishSearch
  PROVE  PeakInv'
  <1>1. /\ walk_point = walk.to + 1 /\ walk.search /\ walk_point' = walk_point + 1
        /\ UNCHANGED <<measured, walk>>
    BY DEF Peak!FinishSearch
  <1>2. PICK m \in Peak!Markers :
          marker_index' = [marker_index EXCEPT ![m] = IF maxima = <<>> THEN walk.from ELSE maxima[1]]
    BY DEF Peak!FinishSearch
  <1>3. walk_point \in Int /\ walk.to \in Int /\ walk.from \in Int /\ walk.from <= walk.to
    BY DEF PeakInv, PeakTypes
  <1>4. PeakTypes'
    <2>1. PeakTypes BY DEF PeakInv
    <2>2. walk_point' \in Int /\ walk.from <= walk_point' /\ walk_point' <= walk.to + 2
      BY <1>1, <1>3
    <2>3. DOMAIN marker_index' = Peak!Markers BY <1>2, <2>1 DEF PeakTypes
    <2> QED BY <1>1, <2>1, <2>2, <2>3 DEF PeakTypes
  <1>5. Walking' BY <1>1, <1>3 DEF Walking
  <1>6. MarkersOnPeaks' BY <1>1 DEF MarkersOnPeaks, Peak!MarkersOnPeaks
  <1>d. DOMAIN marker_index = Peak!Markers BY DEF PeakInv, PeakTypes
  <1>7. SearchFindsHighest'
    <2> SUFFICES ASSUME Peak!Peaks' # {}
                 PROVE  \E k \in Peak!Markers :
                          marker_index'[k] \in Peak!Peaks' /\ (Peak!Rank(marker_index[k]))' = 1
      BY DEF SearchFindsHighest, Peak!SearchFindsHighest
    <2>1. Peak!Peaks' = Peak!Peaks
      BY <1>1 DEF Peak!Peaks, Peak!Seen, Peak!IsPeak, Peak!Level
    <2>2. (Peak!Rank(marker_index[m]))' = Peak!Rank(marker_index'[m])
      BY <1>1 DEF Peak!Peaks, Peak!Seen, Peak!IsPeak, Peak!Level, Peak!Rank, Peak!Before
    <2>3. 1 \in 1 .. Len(maxima) /\ maxima # <<>>
      BY <1>1, <2>1, WalkEnds, EmptySeq
    <2>4. maxima[1] \in Peak!Peaks /\ Peak!Rank(maxima[1]) = 1 BY <1>1, <2>3, WalkEnds
    <2>5. marker_index'[m] = maxima[1] BY <1>2, <1>d, <2>3
    <2> QED BY <2>1, <2>2, <2>4, <2>5
  <1> QED BY <1>4, <1>5, <1>6, <1>7 DEF PeakInv

LEMMA PeakStep == PeakInv /\ [Peak!Next]_Peak!peakVars => PeakInv'
  <1> SUFFICES ASSUME PeakInv, [Peak!Next]_Peak!peakVars PROVE PeakInv' OBVIOUS
  <1>1. CASE UNCHANGED Peak!peakVars
    <2>1. UNCHANGED <<measured, walk, walk_point, maxima, temppeakIndex, downslope,
                      peak_finding_index, tracking, marker_index>>
      BY <1>1 DEF Peak!peakVars
    <2>2. PeakTypes' BY <2>1 DEF PeakInv, PeakTypes
    <2>3. Walking' BY <2>1 DEF PeakInv, Walking, Walked, SeenBelow
    <2>4. MarkersOnPeaks' /\ SearchFindsHighest'
      <3>1. /\ Peak!Peaks' = Peak!Peaks
            /\ \A p : (Peak!Rank(p))' = Peak!Rank(p)
            /\ \A p : (Peak!Highest(p))' <=> Peak!Highest(p)
        BY <2>1 DEF Peak!Peaks, Peak!Seen, Peak!IsPeak, Peak!Level, Peak!Rank, Peak!Before,
                    Peak!Highest
      <3>2. MarkersOnPeaks'
        BY <2>1, <3>1 DEF PeakInv, MarkersOnPeaks, Peak!MarkersOnPeaks, Peak!Finished
      <3>3. SearchFindsHighest'
        BY <2>1, <3>1 DEF PeakInv, SearchFindsHighest, Peak!SearchFindsHighest, Peak!Finished
      <3> QED BY <3>2, <3>3
    <2> QED BY <2>2, <2>3, <2>4 DEF PeakInv
  <1>2. CASE Peak!Next
    BY <1>1, <1>2, AddPointKeeps, FinishSweepKeeps, FinishSearchKeeps DEF Peak!Next, Peak!Stays
  <1> QED BY <1>1, <1>2

\* After a sweep the n-th tracking marker is on the n-th highest peak of the trace, or at its
\* left end when there are fewer, and on a highest point when there is none: for all traces,
\* noise and numbers of markers (sa_core.c:3430-3483, 5800-5835).
THEOREM MarkersFollowPeaks == Peak!Spec => []MarkersOnPeaks
  BY PeakInitially, PeakStep, PTL DEF Peak!Spec, PeakInv

\* A search for the maximum ends on the highest peak of its window, if there is one
\* (sa_core.c:2948-3040).
THEOREM SearchEndsHighest == Peak!Spec => []SearchFindsHighest
  BY PeakInitially, PeakStep, PTL DEF Peak!Spec, PeakInv

-----------------------------------------------------------------------------
(* The tuner.                                                                *)

\* Records with the fields of the drivers' state, whatever is in them.
AdfFields == {"R", "old_R", "refDouble", "modulus", "N", "frac", "out_div", "prev_actual_freq", "rfPower"}
Shape(d) ==
  /\ {"adf", "chip", "rx", "old", "real"} \subseteq DOMAIN d
  /\ AdfFields \subseteq DOMAIN d.adf
  /\ {"LO", "RX"} \subseteq DOMAIN d.real

SameOscillator(d, e) ==
  Shape(e) /\ e.adf = d.adf /\ e.chip = d.chip /\ e.real["LO"] = d.real["LO"]

LEMMA SameIsTransitive ==
  ASSUME NEW c, NEW d, NEW e, SameOscillator(c, d), SameOscillator(d, e)
  PROVE  SameOscillator(c, e)
  BY DEF SameOscillator

LEMMA ReceiverOnly ==
  ASSUME NEW d, Shape(d)
  PROVE  /\ SameOscillator(d, d)
         /\ \A x : SameOscillator(d, [d EXCEPT !.rx = x])
         /\ \A x, f : SameOscillator(d, [d EXCEPT !.rx = x, !.real["RX"] = f])
         /\ \A s, f : SameOscillator(d, [d EXCEPT !.old[s] = f])
  <1>1. SameOscillator(d, d) BY DEF SameOscillator
  <1>2. \A x : SameOscillator(d, [d EXCEPT !.rx = x]) BY DEF SameOscillator, Shape
  <1>3. \A x, f : SameOscillator(d, [d EXCEPT !.rx = x, !.real["RX"] = f])
    BY DEF SameOscillator, Shape
  <1>4. \A s, f : SameOscillator(d, [d EXCEPT !.old[s] = f]) BY DEF SameOscillator, Shape
  <1> QED BY <1>1, <1>2, <1>3, <1>4

\* What a step on the receiver's part makes of the drivers.
LEMMA TunesReceiver ==
  ASSUME NEW d, Shape(d), NEW f
  PROVE  SameOscillator(d, Tune!SetFreq(d, "RX", f))
  <1>1. \A e, g : Shape(e) => SameOscillator(e, Tune!SetReceiver(e, g))
    BY ReceiverOnly DEF Tune!SetReceiver
  <1>2. \A e, g : Shape(e) => SameOscillator(e, Tune!SetOffset(e, g))
    BY DEF Tune!SetOffset, Shape, SameOscillator
  <1>3. \A e : Shape(e) => SameOscillator(e, [e EXCEPT !.rx.fast_counter = @ + 1])
    BY DEF Shape, SameOscillator
  <1>4. SameOscillator(d, Tune!TuneReceiver(d, f))
    <2> DEFINE counts == IF setup.fast THEN [d EXCEPT !.rx.fast_counter = @ + 1] ELSE d
    <2>1. SameOscillator(d, counts) BY <1>3, ReceiverOnly
    <2>2. Shape(counts) BY <2>1 DEF SameOscillator
    <2>3. \E g : \/ Tune!TuneReceiver(d, f) = Tune!SetOffset(counts, g)
                 \/ Tune!TuneReceiver(d, f) = Tune!SetReceiver(counts, g)
      BY DEF Tune!TuneReceiver
    <2> HIDE DEF counts
    <2>4. PICK g : \/ Tune!TuneReceiver(d, f) = Tune!SetOffset(counts, g)
                   \/ Tune!TuneReceiver(d, f) = Tune!SetReceiver(counts, g)
      BY <2>3
    <2>5. SameOscillator(counts, Tune!TuneReceiver(d, f)) BY <1>1, <1>2, <2>2, <2>4
    <2> QED BY <2>1, <2>5, SameIsTransitive
  <1>5. SameOscillator(Tune!TuneReceiver(d, f), [Tune!TuneReceiver(d, f) EXCEPT !.old["RX"] = f])
    <2>1. Shape(Tune!TuneReceiver(d, f)) BY <1>4 DEF SameOscillator
    <2> QED BY <2>1, ReceiverOnly
  <1>6. CASE d.old["RX"] = f
    <2>1. Tune!SetFreq(d, "RX", f) = d BY <1>6 DEF Tune!SetFreq
    <2> QED BY <2>1, ReceiverOnly
  <1>7. CASE d.old["RX"] # f
    <2>1. Tune!SetFreq(d, "RX", f) = [Tune!TuneReceiver(d, f) EXCEPT !.old["RX"] = f]
      BY <1>7 DEF Tune!SetFreq
    <2> QED BY <1>4, <1>5, <2>1, SameIsTransitive
  <1> QED BY <1>6, <1>7

\* Modulation and the path of an output change the receiver only.
LEMMA PathsAndModulation ==
  ASSUME NEW d, Shape(d), NEW m
  PROVE  /\ SameOscillator(d, Tune!Modulated(d, m))
         /\ SameOscillator(d, Tune!OnPath(Tune!Modulated(d, m)))
  <1>1. \A e : Shape(e) => SameOscillator(e, Tune!OnPath(e))
    BY DEF Tune!OnPath, Shape, SameOscillator
  <1>2. SameOscillator(d, Tune!Modulated(d, m)) BY DEF Tune!Modulated, Shape, SameOscillator
  <1>3. Shape(Tune!Modulated(d, m)) BY <1>2 DEF SameOscillator
  <1>4. SameOscillator(Tune!Modulated(d, m), Tune!OnPath(Tune!Modulated(d, m))) BY <1>1, <1>3
  <1> QED BY <1>2, <1>4, SameIsTransitive

\* The modulus and the R that the driver knows.
SameDivider(d, e) == e.adf.old_R = d.adf.old_R /\ e.adf.modulus = d.adf.modulus

\* The oscillator runs at the frequency that the caches have, if they have one.
Known(d) ==
  /\ d.real["LO"] = d.adf.prev_actual_freq
  /\ d.real["LO"] # 0 => /\ Tune!Output(d.adf, config_30mhz) = d.real["LO"]
                         /\ Tune!Output(d.chip, config_30mhz) = d.real["LO"]

LEMMA SameIsKnown ==
  ASSUME NEW d, NEW e, SameOscillator(d, e)
  PROVE  Shape(e) /\ SameDivider(d, e) /\ (Known(d) => Known(e))
  BY DEF SameOscillator, SameDivider, Known

\* Without caches nothing is known.
LEMMA ClearsCaches ==
  ASSUME NEW d, Shape(d)
  PROVE  /\ Shape(Tune!ClearCache(d)) /\ SameDivider(d, Tune!ClearCache(d))
         /\ Tune!ClearCache(d).real["LO"] = 0 /\ Known(Tune!ClearCache(d))
         /\ Shape(Tune!Reset(d)) /\ SameDivider(d, Tune!Reset(d)) /\ Known(Tune!Reset(d))
  <1> DEFINE c == Tune!ClearCache(d)
  <1>1. Shape(c) /\ SameDivider(d, c) /\ c.real["LO"] = 0 /\ c.adf.prev_actual_freq = 0
    BY DEF Tune!ClearCache, Tune!Synthesizers, Shape, SameDivider, AdfFields
  <1> HIDE DEF c
  <1>2. Known(c) BY <1>1 DEF Known
  <1>3. SameOscillator(c, [c EXCEPT !.rx.base = 0, !.rx.offset = 0, !.rx.transmits = FALSE])
    BY <1>1 DEF Shape, SameOscillator
  <1>4. Tune!Reset(d) = [c EXCEPT !.rx.base = 0, !.rx.offset = 0, !.rx.transmits = FALSE]
    BY DEF Tune!Reset, c
  <1>5. Shape(Tune!Reset(d)) /\ SameDivider(c, Tune!Reset(d)) /\ Known(Tune!Reset(d))
    BY <1>2, <1>3, <1>4, SameIsKnown
  <1> QED BY <1>1, <1>2, <1>5 DEF SameDivider, c

LEMMA OutputOfRegisters == \A a, x : Tune!Output(Tune!Registers(a), x) = Tune!Output(a, x)
  BY DEF Tune!Output, Tune!Reference, Tune!Registers

\* What is sent is what the driver has.
LEMMA Sends ==
  ASSUME NEW d, Shape(d)
  PROVE  /\ Shape(Tune!SendConfig(d)) /\ SameDivider(d, Tune!SendConfig(d))
         /\ d.real["LO"] = d.adf.prev_actual_freq
              /\ (d.real["LO"] # 0 => Tune!Output(d.adf, config_30mhz) = d.real["LO"])
            => Known(Tune!SendConfig(d))
  <1> DEFINE e == Tune!SendConfig(d)
  <1>1. /\ Shape(e) /\ e.adf = d.adf /\ e.real["LO"] = d.real["LO"]
        /\ e.chip = Tune!Registers(d.adf)
    BY DEF Tune!SendConfig, Shape
  <1> HIDE DEF e
  <1>2. Tune!Output(e.chip, config_30mhz) = Tune!Output(d.adf, config_30mhz)
    BY <1>1, OutputOfRegisters
  <1> QED BY <1>1, <1>2 DEF Known, SameDivider, e

LEMMA DrivesMixer ==
  ASSUME NEW d, Shape(d), NEW p
  PROVE  /\ Shape(Tune!Drive(d, p)) /\ SameDivider(d, Tune!Drive(d, p))
         /\ Known(d) => Known(Tune!Drive(d, p))
  <1> DEFINE e == [d EXCEPT !.adf.rfPower = p]
  <1>1. /\ Shape(e) /\ SameDivider(d, e) /\ e.real["LO"] = d.real["LO"]
        /\ e.adf.prev_actual_freq = d.adf.prev_actual_freq
    BY DEF Shape, SameDivider, AdfFields
  <1>2. Tune!Output(e.adf, config_30mhz) = Tune!Output(d.adf, config_30mhz)
    BY DEF Tune!Output, Tune!Reference, Shape, AdfFields
  <1>3. Tune!Drive(d, p) = d \/ Tune!Drive(d, p) = Tune!SendConfig(e) BY DEF Tune!Drive
  <1> HIDE DEF e
  <1>4. /\ Shape(Tune!SendConfig(e)) /\ SameDivider(e, Tune!SendConfig(e))
        /\ Known(d) => Known(Tune!SendConfig(e))
    BY <1>1, <1>2, Sends DEF Known
  <1> QED BY <1>1, <1>3, <1>4 DEF SameDivider

\* ADF4351_set_frequency, behind set_freq.
LEMMA TunesOscillator ==
  ASSUME NEW d, Shape(d), NEW f
  PROVE  /\ Shape(Tune!SetFreq(d, "LO", f)) /\ SameDivider(d, Tune!SetFreq(d, "LO", f))
         /\ Known(d) => Known(Tune!SetFreq(d, "LO", f))
  <1> DEFINE div == Tune!OutDivider(f)
             steps == ((f * Tune!TwoTo[div] * 2 * d.adf.modulus)
                         \div Tune!Reference(d.adf, config_30mhz) + 1) \div 2
             a == [d.adf EXCEPT !.out_div = div, !.N = steps \div d.adf.modulus,
                                !.frac = steps % d.adf.modulus]
             actual == Tune!Output(a, config_30mhz)
             b == [a EXCEPT !.prev_actual_freq = actual]
             next == [d EXCEPT !.adf = a, !.adf.prev_actual_freq = actual, !.real["LO"] = actual]
             new == Tune!SetOscillator(d, f)
  <1>1. new = IF actual = d.adf.prev_actual_freq THEN next ELSE Tune!SendConfig(next)
    BY DEF Tune!SetOscillator
  <1> HIDE DEF div, steps
  <1>2. AdfFields \subseteq DOMAIN a /\ a.old_R = d.adf.old_R /\ a.modulus = d.adf.modulus
    BY DEF Shape, AdfFields
  <1> HIDE DEF a
  <1>3. actual = Tune!Output(a, config_30mhz) OBVIOUS
  <1> HIDE DEF actual
  <1>4. next = [d EXCEPT !.adf = a, !.adf.prev_actual_freq = actual, !.real["LO"] = actual]
    OBVIOUS
  <1> HIDE DEF new, next
  <1>5. /\ AdfFields \subseteq DOMAIN b /\ b.old_R = d.adf.old_R /\ b.modulus = d.adf.modulus
        /\ b.prev_actual_freq = actual
    BY <1>2 DEF AdfFields
  <1>6. Tune!Output(b, config_30mhz) = actual
    BY <1>2, <1>3 DEF Tune!Output, Tune!Reference, AdfFields
  <1>7. /\ Shape(next) /\ next.adf = b /\ next.chip = d.chip /\ next.real["LO"] = actual
    BY <1>4, <1>5 DEF Shape
  <1> HIDE DEF b
  <1>8. SameDivider(d, next) BY <1>5, <1>7 DEF SameDivider
  <1>9. Shape(new) /\ SameDivider(d, new) /\ (Known(d) => Known(new))
    <2>1. CASE actual = d.adf.prev_actual_freq
      <3>1. new = next BY <1>1, <2>1
      <3>2. Known(d) => Known(next) BY <1>5, <1>6, <1>7, <2>1 DEF Known
      <3> QED BY <1>7, <1>8, <3>1, <3>2
    <2>2. CASE actual # d.adf.prev_actual_freq
      <3>1. new = Tune!SendConfig(next) BY <1>1, <2>2
      <3>2. Known(Tune!SendConfig(next)) BY <1>5, <1>6, <1>7, Sends
      <3>3. Shape(Tune!SendConfig(next)) /\ SameDivider(next, Tune!SendConfig(next))
        BY <1>7, Sends
      <3> QED BY <1>8, <3>1, <3>2, <3>3 DEF SameDivider
    <2> QED BY <2>1, <2>2
  <1>10. SameOscillator(new, [new EXCEPT !.old["LO"] = f]) BY <1>9, ReceiverOnly
  <1>11. \/ Tune!SetFreq(d, "LO", f) = d
         \/ Tune!SetFreq(d, "LO", f) = [new EXCEPT !.old["LO"] = f]
    BY DEF Tune!SetFreq, new
  <1>12. LET e == [new EXCEPT !.old["LO"] = f]
         IN Shape(e) /\ SameDivider(new, e) /\ (Known(new) => Known(e))
    BY <1>10, SameIsKnown
  <1> QED BY <1>9, <1>11, <1>12 DEF SameDivider

\* Another R empties the caches, the same one changes nothing.
LEMMA CountsR ==
  ASSUME NEW d, Shape(d), NEW f
  PROVE  /\ Shape(Tune!RCounter(d, f))
         /\ f = d.adf.old_R => Tune!RCounter(d, f) = d
         /\ f \in Int /\ f # 0 /\ f # d.adf.old_R =>
              /\ Known(Tune!RCounter(d, f))
              /\ Tune!RCounter(d, f).adf.old_R = f
              /\ Tune!RCounter(d, f).adf.modulus = d.adf.modulus
  <1> DEFINE abs == IF f < 0 THEN -f ELSE f
             refs == [d EXCEPT !.adf.old_R = f, !.adf.refDouble = (f < 0)]
             new == [refs EXCEPT !.adf.R = abs]
  <1>1. /\ Shape(refs) /\ refs.adf.old_R = f /\ refs.adf.modulus = d.adf.modulus
    BY DEF Shape, AdfFields
  <1>2. f = d.adf.old_R => Tune!RCounter(d, f) = d BY DEF Tune!RCounter
  <1>3. f # d.adf.old_R => Tune!RCounter(d, f) = IF abs < 1 THEN refs ELSE Tune!ClearCache(new)
    BY DEF Tune!RCounter
  <1>4. f \in Int /\ f # 0 => ~(abs < 1) OBVIOUS
  <1> HIDE DEF abs, refs
  <1>5. Shape(new) /\ new.adf.old_R = f /\ new.adf.modulus = d.adf.modulus
    BY <1>1 DEF Shape, AdfFields
  <1> HIDE DEF new
  <1>6. /\ Shape(Tune!ClearCache(new)) /\ SameDivider(new, Tune!ClearCache(new))
        /\ Known(Tune!ClearCache(new))
    BY <1>5, ClearsCaches
  <1> QED BY <1>1, <1>2, <1>3, <1>4, <1>5, <1>6 DEF SameDivider

\* R and modulus of a point: what is known stays known when the same R brings the same
\* modulus.
LEMMA Divides ==
  ASSUME NEW d, Shape(d), NEW r
  PROVE  /\ Shape(Tune!Divide(d, r))
         /\ r.R \in Int /\ r.R # 0 =>
              /\ Tune!Divide(d, r).adf.old_R = r.R
              /\ Tune!Divide(d, r).adf.modulus = IF r.modulus = 0 THEN d.adf.modulus ELSE r.modulus
              /\ Known(d) /\ (d.real["LO"] # 0 /\ r.R = d.adf.old_R =>
                                r.modulus \in {0, d.adf.modulus})
                   => Known(Tune!Divide(d, r))
  <1> DEFINE m == IF r.modulus = 0 THEN d.adf.modulus ELSE r.modulus
             e == IF r.modulus = 0 THEN d ELSE Tune!Modulo(d, r.modulus)
  <1>1. /\ Shape(e) /\ e.adf.modulus = m /\ e.adf.old_R = d.adf.old_R
        /\ e.adf.prev_actual_freq = d.adf.prev_actual_freq
        /\ e.real["LO"] = d.real["LO"] /\ e.chip = d.chip
    BY DEF Tune!Modulo, Shape, AdfFields
  <1>2. m = d.adf.modulus => Tune!Output(e.adf, config_30mhz) = Tune!Output(d.adf, config_30mhz)
    BY DEF Tune!Modulo, Tune!Output, Tune!Reference, Shape, AdfFields
  <1>3. Tune!Divide(d, r) = Tune!RCounter(e, r.R) BY DEF Tune!Divide
  <1>4. r.modulus \in {0, d.adf.modulus} => m = d.adf.modulus OBVIOUS
  <1> HIDE DEF m, e
  <1>5. /\ Shape(Tune!RCounter(e, r.R))
        /\ r.R = e.adf.old_R => Tune!RCounter(e, r.R) = e
        /\ r.R \in Int /\ r.R # 0 /\ r.R # e.adf.old_R =>
             /\ Known(Tune!RCounter(e, r.R))
             /\ Tune!RCounter(e, r.R).adf.old_R = r.R
             /\ Tune!RCounter(e, r.R).adf.modulus = e.adf.modulus
    BY <1>1, CountsR
  <1>6. ASSUME r.R \in Int, r.R # 0
        PROVE  /\ Tune!RCounter(e, r.R).adf.old_R = r.R
               /\ Tune!RCounter(e, r.R).adf.modulus = m
    <2>1. CASE r.R = e.adf.old_R BY <1>1, <1>5, <2>1
    <2>2. CASE r.R # e.adf.old_R BY <1>1, <1>5, <1>6, <2>2
    <2> QED BY <2>1, <2>2
  <1>7. ASSUME r.R \in Int, r.R # 0, Known(d),
               d.real["LO"] # 0 /\ r.R = d.adf.old_R => r.modulus \in {0, d.adf.modulus}
        PROVE  Known(Tune!RCounter(e, r.R))
    <2>1. CASE r.R = e.adf.old_R
      <3>1. Tune!RCounter(e, r.R) = e BY <1>5, <2>1
      <3>2. Known(e) BY <1>1, <1>2, <1>4, <1>7, <2>1 DEF Known
      <3> QED BY <3>1, <3>2
    <2>2. CASE r.R # e.adf.old_R BY <1>5, <1>7, <2>2
    <2> QED BY <2>1, <2>2
  <1> QED BY <1>3, <1>5, <1>6, <1>7 DEF m

\* A point through the mixer.
LEMMA TunesMixed ==
  ASSUME NEW d, Shape(d), NEW f, NEW if, NEW below, NEW r
  PROVE  /\ Shape(Tune!Mixed(d, f, if, below, r))
         /\ r.R \in Int /\ r.R # 0 =>
              /\ Tune!Mixed(d, f, if, below, r).adf.old_R = r.R
              /\ Tune!Mixed(d, f, if, below, r).adf.modulus
                   = IF r.modulus = 0 THEN d.adf.modulus ELSE r.modulus
              /\ Known(d) /\ (d.real["LO"] # 0 /\ r.R = d.adf.old_R =>
                                r.modulus \in {0, d.adf.modulus})
                   => Known(Tune!Mixed(d, f, if, below, r))
  <1> DEFINE target == Tune!Target(f, if, below) \div Tune!HarmonicOf(f)
             divided == Tune!Divide(d, r)
             driven == Tune!Drive(divided, Tune!ActualDrive(f))
             set == Tune!SetOscillatorIfFar(driven, target)
             wanted == if + Tune!Compensation(set, target, Tune!Inverted(f, if, below),
                                              Tune!HarmonicOf(f))
             tuned == Tune!SetFreq(set, "RX", wanted)
  <1>1. Tune!Mixed(d, f, if, below, r) = tuned BY DEF Tune!Mixed
  <1> HIDE DEF wanted, target
  <1>2. /\ Shape(divided)
        /\ r.R \in Int /\ r.R # 0 =>
             /\ divided.adf.old_R = r.R
             /\ divided.adf.modulus = IF r.modulus = 0 THEN d.adf.modulus ELSE r.modulus
             /\ Known(d) /\ (d.real["LO"] # 0 /\ r.R = d.adf.old_R =>
                               r.modulus \in {0, d.adf.modulus})
                  => Known(divided)
    BY Divides
  <1> HIDE DEF divided
  <1>3. Shape(driven) /\ SameDivider(divided, driven) /\ (Known(divided) => Known(driven))
    BY <1>2, DrivesMixer
  <1> HIDE DEF driven
  <1>4. Shape(set) /\ SameDivider(driven, set) /\ (Known(driven) => Known(set))
    <2>1. set = driven \/ set = Tune!SetFreq(driven, "LO", target)
      BY DEF Tune!SetOscillatorIfFar
    <2> HIDE DEF set
    <2>2. SameDivider(driven, driven) BY DEF SameDivider
    <2> QED BY <1>3, <2>1, <2>2, TunesOscillator
  <1> HIDE DEF set
  <1>5. Shape(tuned) /\ SameDivider(set, tuned) /\ (Known(set) => Known(tuned))
    BY <1>4, TunesReceiver, SameIsKnown
  <1> HIDE DEF tuned
  <1>6. SameDivider(divided, tuned) /\ (Known(divided) => Known(tuned))
    BY <1>3, <1>4, <1>5 DEF SameDivider
  <1> QED BY <1>1, <1>2, <1>5, <1>6 DEF SameDivider

-----------------------------------------------------------------------------
(* The order of the points.                                                  *)

\* The points of the sweep that go through the mixer.
MixedIn(f) ==
  /\ f \in TunedPoints /\ f >= setup.from /\ f <= setup.to
  /\ f \notin Tune!DirectPoints \union Tune!LeakedPoints

\* No point of the sweep changes the modulus of a without R.
Settled(a) ==
  \A f : MixedIn(f) => \A r \in Tune!Dividers(f) :
                         r.R = a.old_R => r.modulus \in {0, a.modulus}

\* R belongs to one modulus, while the settings stay.
LEMMA DividersAgree ==
  ASSUME setting_R \in Int
  PROVE  /\ \A f : \A r \in Tune!Dividers(f) : r.R \in Int /\ r.R # 0
         /\ \A f, g : \A r \in Tune!Dividers(f), s \in Tune!Dividers(g) :
              r.R = s.R => r.modulus = s.modulus
  <1>1. CASE setting_R # 0 BY <1>1 DEF Tune!Dividers
  <1>2. CASE setting_R = 0 /\ setup.mode = "output" BY <1>2 DEF Tune!Dividers, Tune!AutoDivider
  <1>3. CASE setting_R = 0 /\ setup.mode # "output"
    <2> DEFINE own == IF local_modulo = 0 THEN ModuloInput ELSE 0
    <2>1. \A f : \A r \in Tune!Dividers(f) :
            \/ max2871 /\ r.R = -1 /\ r.modulus = ModuloBottom
            \/ max2871 /\ r.R \in {1, 3, 4} /\ r.modulus = own
            \/ ~max2871 /\ r.R \in {-4, -3, 1, 3, 4} /\ r.modulus = own
      BY <1>3 DEF Tune!Dividers, Tune!AutoDivider
    <2> HIDE DEF own
    <2> QED BY <2>1
  <1> QED BY <1>1, <1>2, <1>3

\* A point through the mixer settles R and modulus.
LEMMA Settles ==
  ASSUME setting_R \in Int, NEW f, NEW r \in Tune!Dividers(f), NEW a, NEW m,
         a.old_R = r.R, a.modulus = IF r.modulus = 0 THEN m ELSE r.modulus
  PROVE  Settled(a)
  BY DividersAgree DEF Settled

\* The points below the next one have been tuned in this sweep.
LEMMA PointsInOrder ==
  ASSUME NEW f, Tune!Turn(f), ~dirty => last.lf \in TunedPoints
  PROVE  /\ f \in TunedPoints /\ f >= setup.from /\ f <= setup.to
         /\ \A g : MixedIn(g) /\ g < f => ~dirty /\ g <= last.lf
  <1>0. TunedPoints \subseteq Int BY TunerAssumption
  <1>1. f \in TunedPoints /\ f >= setup.from /\ f <= setup.to BY DEF Tune!Turn
  <1>2. ASSUME NEW g, MixedIn(g), g < f PROVE ~dirty /\ g <= last.lf
    <2>1. g \in TunedPoints /\ g >= setup.from BY <1>2 DEF MixedIn
    <2>2. g \in Int /\ f \in Int /\ ~(g >= f) BY <1>0, <1>1, <1>2, <2>1
    <2>3. ~dirty /\ \A h \in TunedPoints : h > last.lf => h >= f
      BY <2>1, <2>2 DEF Tune!Turn
    <2>4. ~(g > last.lf) BY <2>1, <2>2, <2>3
    <2>5. last.lf \in Int BY <1>0, <2>3
    <2> QED BY <2>2, <2>3, <2>4, <2>5
  <1> QED BY <1>1, <1>2

-----------------------------------------------------------------------------
(* Steps of the tuner.                                                       *)

\* In a sweep without tracking output, what the driver has is known, its modulus is settled
\* once a point went through the mixer, and before that the oscillator has no frequency,
\* unless no point of the sweep goes through the mixer.
Ready(d, lf) ==
  /\ Known(d)
  /\ \A g : MixedIn(g) /\ g <= lf => Settled(d.adf)
  /\ d.real["LO"] # 0 => Settled(d.adf) \/ \A g : ~MixedIn(g)

TuneInv ==
  /\ Shape(Tune!Drivers) /\ setting_R \in Int
  /\ ~dirty => last.lf \in TunedPoints
  /\ ~dirty /\ ~setup.tracking => Ready(Tune!Drivers, last.lf)

LEMMA ChangeKeepsInv ==
  ASSUME NEW d, Shape(d), Tune!Changed(d), setting_R' \in Int
  PROVE  TuneInv'
  <1>1. dirty' = TRUE BY DEF Tune!Changed
  <1>2. Shape(Tune!Drivers)' BY DEF Tune!Changed, Tune!Becomes, Tune!Drivers, Shape
  <1> QED BY <1>1, <1>2 DEF TuneInv

LEMMA PointKeepsInv ==
  ASSUME TuneInv, NEW d, Shape(d), NEW how, how.lf \in TunedPoints, Tune!Tuned(d, how),
         ~setup.tracking => Ready(d, how.lf)
  PROVE  TuneInv'
  <1>1. /\ UNCHANGED <<max2871, config_30mhz, setting_R, local_modulo, setup>>
        /\ adf' = d.adf /\ chip' = d.chip /\ real_old_freq' = d.real /\ last' = how
    BY DEF Tune!Tuned, Tune!Becomes
  <1>2. Shape(Tune!Drivers)'
    BY DEF Tune!Tuned, Tune!Becomes, Tune!Drivers, Shape
  <1>3. Tune!Drivers'.adf = d.adf /\ Tune!Drivers'.chip = d.chip /\ Tune!Drivers'.real = d.real
    BY <1>1 DEF Tune!Drivers
  <1>4. Known(d) => Known(Tune!Drivers)'
    BY <1>1, <1>3 DEF Known, Tune!Output, Tune!Reference
  <1>5. \A g : MixedIn(g)' <=> MixedIn(g)
    BY <1>1 DEF MixedIn, Tune!DirectPoints, Tune!LeakedPoints
  <1>6. \A f : Tune!Dividers(f)' = Tune!Dividers(f)
    BY <1>1 DEF Tune!Dividers, Tune!AutoDivider
  <1>7. Settled(d.adf) => Settled(Tune!Drivers.adf)' BY <1>3, <1>5, <1>6 DEF Settled
  <1>8. ~setup.tracking => Ready(Tune!Drivers, last.lf)'
    BY <1>1, <1>3, <1>4, <1>5, <1>7 DEF Ready
  <1> QED BY <1>1, <1>2, <1>8 DEF TuneInv

LEMMA Begins ==
  ASSUME TuneInv
  PROVE  /\ Shape(Tune!Begun) /\ SameDivider(Tune!Drivers, Tune!Begun)
         /\ ~setup.tracking => Known(Tune!Begun)
         /\ Tune!Begun.real["LO"] # 0 => ~dirty /\ Tune!Begun.real = Tune!Drivers.real
  <1>1. Shape(Tune!Drivers) BY DEF TuneInv
  <1>2. CASE ~dirty
    <2>1. Tune!Begun = Tune!Drivers BY <1>2 DEF Tune!Begun
    <2> QED BY <1>1, <1>2, <2>1 DEF TuneInv, Ready, SameDivider
  <1>3. CASE dirty
    <2> DEFINE c == Tune!ClearCache(Tune!Drivers)
    <2>1. /\ Shape(c) /\ SameDivider(Tune!Drivers, c) /\ c.real["LO"] = 0 /\ Known(c)
      BY <1>1, ClearsCaches
    <2>2. Tune!Begun = [c EXCEPT !.rx.transmits = (@ /\ setup.mode = "output")]
      BY <1>3 DEF Tune!Begun
    <2> HIDE DEF c
    <2>3. SameOscillator(c, Tune!Begun) BY <2>1, <2>2 DEF SameOscillator, Shape
    <2>4. Shape(Tune!Begun) /\ SameDivider(c, Tune!Begun) /\ Known(Tune!Begun)
      BY <2>1, <2>3, SameIsKnown
    <2> QED BY <2>1, <2>3, <2>4 DEF SameDivider, SameOscillator
  <1> QED BY <1>2, <1>3

LEMMA TracksPoint ==
  ASSUME TuneInv, ~setup.tracking, NEW f, Tune!Turn(f),
         NEW g, MixedIn(g), g < f
  PROVE  Settled(adf)
  <1>1. ~dirty /\ g <= last.lf BY PointsInOrder DEF TuneInv
  <1>2. Tune!Drivers.adf = adf BY DEF Tune!Drivers
  <1> QED BY <1>1, <1>2 DEF TuneInv, Ready

LEMMA MixedKeepsInv ==
  ASSUME TuneInv, NEW f, NEW if, NEW below, Tune!MixedPoint(f, if, below)
  PROVE  TuneInv'
  <1>1. PICK r \in Tune!Dividers(f), m \in {-1, 1} :
          Tune!Tuned(Tune!Mixed(Tune!OnPath(Tune!Modulated(Tune!Begun, m)), f, if, below, r),
                     [path |-> "mixed", lf |-> f, below |-> below,
                      inverted |-> Tune!Inverted(f, if, below)])
    BY DEF Tune!MixedPoint
  <1> DEFINE begun == Tune!Begun
             sent == Tune!OnPath(Tune!Modulated(begun, m))
             new == Tune!Mixed(sent, f, if, below, r)
             how == [path |-> "mixed", lf |-> f, below |-> below,
                     inverted |-> Tune!Inverted(f, if, below)]
  <1>2. Tune!Turn(f) /\ f \notin Tune!DirectPoints \union Tune!LeakedPoints
    BY DEF Tune!MixedPoint
  <1>3. MixedIn(f) BY <1>2 DEF MixedIn, Tune!Turn
  <1>4. how.lf = f OBVIOUS
  <1>5. Tune!Tuned(new, how) BY <1>1
  <1>6. r.R \in Int /\ r.R # 0 BY DividersAgree DEF TuneInv
  <1>7. /\ Shape(begun) /\ SameDivider(Tune!Drivers, begun)
        /\ ~setup.tracking => Known(begun)
        /\ begun.real["LO"] # 0 => ~dirty /\ begun.real = Tune!Drivers.real
    BY Begins
  <1> HIDE DEF begun, how
  <1>8. SameOscillator(begun, sent) BY <1>7, PathsAndModulation
  <1> HIDE DEF sent
  <1>9. /\ Shape(sent) /\ SameDivider(Tune!Drivers, sent)
        /\ ~setup.tracking => Known(sent)
        /\ sent.real["LO"] # 0 => ~dirty /\ sent.real["LO"] = Tune!Drivers.real["LO"]
    BY <1>7, <1>8, SameIsKnown DEF SameDivider, SameOscillator
  <1>10. ASSUME ~setup.tracking, sent.real["LO"] # 0, r.R = sent.adf.old_R
         PROVE  r.modulus \in {0, sent.adf.modulus}
    <2>1. Settled(Tune!Drivers.adf) BY <1>3, <1>9, <1>10 DEF TuneInv, Ready
    <2> QED BY <1>3, <1>9, <1>10, <2>1 DEF Settled, SameDivider
  <1>11. /\ Shape(new) /\ new.adf.old_R = r.R
         /\ new.adf.modulus = IF r.modulus = 0 THEN sent.adf.modulus ELSE r.modulus
         /\ ~setup.tracking => Known(new)
    BY <1>6, <1>9, <1>10, TunesMixed
  <1> HIDE DEF new
  <1>12. Settled(new.adf) BY <1>11, Settles DEF TuneInv
  <1>13. ~setup.tracking => Ready(new, how.lf) BY <1>11, <1>12 DEF Ready
  <1>14. how.lf \in TunedPoints BY <1>3, <1>4 DEF MixedIn
  <1> QED BY <1>5, <1>11, <1>13, <1>14, PointKeepsInv

LEMMA DirectKeepsInv ==
  ASSUME TuneInv, NEW f, Tune!DirectPoint(f)
  PROVE  TuneInv'
  <1>1. PICK m \in {-1, 1} :
          LET received == Tune!SetFreq(Tune!OnPath(Tune!Modulated(Tune!Begun, m)), "RX", f)
          IN Tune!Tuned(IF setup.tracking THEN Tune!SetFreq(received, "LO", f) ELSE received,
                        [path |-> "direct", lf |-> f])
    BY DEF Tune!DirectPoint
  <1> DEFINE begun == Tune!Begun
             sent == Tune!OnPath(Tune!Modulated(begun, m))
             received == Tune!SetFreq(sent, "RX", f)
             new == IF setup.tracking THEN Tune!SetFreq(received, "LO", f) ELSE received
             how == [path |-> "direct", lf |-> f]
  <1>2. Tune!Turn(f) /\ f \in Tune!DirectPoints BY DEF Tune!DirectPoint
  <1>3. how.lf = f /\ f \in TunedPoints BY <1>2 DEF Tune!Turn
  <1>4. Tune!Tuned(new, how) BY <1>1
  <1>5. /\ Shape(begun) /\ SameDivider(Tune!Drivers, begun)
        /\ ~setup.tracking => Known(begun)
        /\ begun.real["LO"] # 0 => ~dirty /\ begun.real = Tune!Drivers.real
    BY Begins
  <1> HIDE DEF begun, how
  <1>6. SameOscillator(begun, sent) BY <1>5, PathsAndModulation
  <1> HIDE DEF sent
  <1>7. SameOscillator(sent, received) BY <1>6, TunesReceiver DEF SameOscillator
  <1>8. SameOscillator(begun, received) BY <1>6, <1>7, SameIsTransitive
  <1> HIDE DEF received
  <1>9. /\ Shape(received) /\ SameDivider(Tune!Drivers, received)
        /\ ~setup.tracking => Known(received)
        /\ received.real["LO"] # 0 => ~dirty /\ received.real["LO"] = Tune!Drivers.real["LO"]
    BY <1>5, <1>8, SameIsKnown DEF SameDivider, SameOscillator
  <1>10. Shape(new) BY <1>9, TunesOscillator
  <1>11. ASSUME ~setup.tracking PROVE Ready(new, f)
    <2>1. new = received BY <1>11
    <2>2. ASSUME NEW g, MixedIn(g), g <= f PROVE Settled(adf)
      <3>1. g # f /\ g \in TunedPoints BY <1>2, <2>2 DEF MixedIn
      <3>2. g < f BY <1>3, <2>2, <3>1, TunerAssumption
      <3> QED BY <1>2, <1>11, <2>2, <3>2, TracksPoint
    <2>3. Settled(adf) => Settled(received.adf)
      BY <1>9 DEF Settled, SameDivider, Tune!Drivers
    <2>4. received.real["LO"] # 0 => Settled(adf) \/ \A g : ~MixedIn(g)
      BY <1>9, <1>11 DEF TuneInv, Ready, Tune!Drivers
    <2> QED BY <1>9, <1>11, <2>1, <2>2, <2>3, <2>4 DEF Ready
  <1> HIDE DEF new
  <1> QED BY <1>3, <1>4, <1>10, <1>11, PointKeepsInv

LEMMA LeakedKeepsInv ==
  ASSUME TuneInv, NEW f, Tune!LeakedPoint(f)
  PROVE  TuneInv'
  <1>1. PICK m \in {-1, 1} :
          Tune!Tuned(Tune!SetFreq(Tune!PastReceiver(Tune!Modulated(Tune!Begun, m)), "LO",
                                  f \div Tune!HarmonicOf(f)),
                     [path |-> "leaked", lf |-> f])
    BY DEF Tune!LeakedPoint
  <1> DEFINE begun == Tune!Begun
             modulated == Tune!Modulated(begun, m)
             past == Tune!PastReceiver(modulated)
             new == Tune!SetFreq(past, "LO", f \div Tune!HarmonicOf(f))
             how == [path |-> "leaked", lf |-> f]
  <1>2. Tune!Turn(f) /\ f \in Tune!LeakedPoints BY DEF Tune!LeakedPoint
  <1>3. how.lf = f /\ f \in TunedPoints BY <1>2 DEF Tune!Turn
  <1>4. Tune!Tuned(new, how) BY <1>1
  <1>5. /\ Shape(begun) /\ SameDivider(Tune!Drivers, begun) /\ (~setup.tracking => Known(begun))
    BY Begins
  <1> HIDE DEF begun, how
  <1>6. SameOscillator(begun, modulated) BY <1>5, PathsAndModulation
  <1>7. /\ Shape(modulated) /\ SameDivider(begun, modulated)
        /\ ~setup.tracking => Known(modulated)
    BY <1>5, <1>6, SameIsKnown
  <1> HIDE DEF modulated
  <1>8. past = modulated \/ past = Tune!Reset(modulated) BY DEF Tune!PastReceiver
  <1> HIDE DEF past
  <1>9. SameDivider(modulated, modulated) BY DEF SameDivider
  <1>10. /\ Shape(past) /\ SameDivider(modulated, past) /\ (~setup.tracking => Known(past))
    BY <1>7, <1>8, <1>9, ClearsCaches
  <1>11. /\ Shape(new) /\ SameDivider(past, new) /\ (~setup.tracking => Known(new))
    BY <1>10, TunesOscillator
  <1> HIDE DEF new
  <1>12. SameDivider(Tune!Drivers, new) BY <1>5, <1>7, <1>10, <1>11 DEF SameDivider
  <1>13. ASSUME ~setup.tracking PROVE Ready(new, f)
    <2>1. ASSUME NEW g, MixedIn(g) PROVE Settled(adf)
      <3>1. g \in TunedPoints /\ g \notin Tune!LeakedPoints BY <2>1 DEF MixedIn
      <3>2. f \in LeakedOutput /\ g \notin LeakedOutput
        BY <1>2, <3>1 DEF Tune!LeakedPoints
      <3>3. ~(g > f) BY <3>1, <3>2, TunerAssumption
      <3>4. g # f BY <3>2
      <3>5. g < f BY <1>3, <3>1, <3>3, <3>4, TunerAssumption
      <3> QED BY <1>2, <1>13, <2>1, <3>5, TracksPoint
    <2>2. Settled(adf) => Settled(new.adf) BY <1>12 DEF Settled, SameDivider, Tune!Drivers
    <2> QED BY <1>11, <1>13, <2>1, <2>2 DEF Ready
  <1> QED BY <1>3, <1>4, <1>11, <1>13, PointKeepsInv

LEMMA TunerInit == ASSUME Tune!Init PROVE TuneInv
  <1>1. Shape(Tune!Drivers)
    BY DEF Tune!Init, Tune!Boot, Tune!Registers, Tune!Synthesizers, Tune!Drivers, Shape, AdfFields
  <1> QED BY <1>1 DEF Tune!Init, TuneInv

LEMMA TunerStep ==
  ASSUME TuneInv, [Tune!Next]_(Tune!tunerVars)
  PROVE  TuneInv'
  <1>1. Shape(Tune!Drivers) /\ setting_R \in Int BY DEF TuneInv
  <1>2. ASSUME NEW f \in AskedR, Tune!SetR(f) PROVE TuneInv'
    <2>1. Shape(Tune!RCounter(Tune!Drivers, f)) BY <1>1, CountsR
    <2>2. setting_R' \in Int BY <1>2, TunerAssumption DEF Tune!SetR
    <2> QED BY <1>2, <2>1, <2>2, ChangeKeepsInv DEF Tune!SetR
  <1>3. ASSUME NEW f, Tune!SetModulo(f) PROVE TuneInv'
    <2>1. Shape(Tune!Modulo(Tune!Drivers, f)) BY <1>1 DEF Tune!Modulo, Shape, AdfFields
    <2>2. Shape(Tune!ClearCache(Tune!Modulo(Tune!Drivers, f))) BY <2>1, ClearsCaches
    <2>3. setting_R' \in Int BY <1>1, <1>3 DEF Tune!SetModulo
    <2> QED BY <1>3, <2>2, <2>3, ChangeKeepsInv DEF Tune!SetModulo
  <1>4. ASSUME NEW f, Tune!SetActualFreq(f) PROVE TuneInv'
    <2>1. \A d : Shape(d) => Shape([d EXCEPT !.adf.old_R = -1]) BY DEF Shape, AdfFields
    <2>2. Shape(Tune!RecalculatePFD(Tune!Drivers))
      BY <1>1, <2>1, CountsR, Sends DEF Tune!RecalculatePFD
    <2>3. setting_R' \in Int BY <1>1, <1>4 DEF Tune!SetActualFreq
    <2> QED BY <1>4, <2>2, <2>3, ChangeKeepsInv DEF Tune!SetActualFreq
  <1>5. ASSUME NEW s, Tune!Choose(s) PROVE TuneInv'
    <2>1. setting_R' \in Int BY <1>1, <1>5 DEF Tune!Choose
    <2> QED BY <1>1, <1>5, <2>1, ChangeKeepsInv DEF Tune!Choose
  <1>6. CASE UNCHANGED Tune!tunerVars
    BY <1>6 DEF Tune!tunerVars, TuneInv, Ready, Known, Settled, MixedIn, Shape, Tune!Drivers,
                Tune!Output, Tune!Reference, Tune!Dividers, Tune!AutoDivider,
                Tune!DirectPoints, Tune!LeakedPoints
  <1>7. CASE Tune!Next
    BY <1>2, <1>3, <1>4, <1>5, <1>7, MixedKeepsInv, DirectKeepsInv, LeakedKeepsInv
    DEF Tune!Next
  <1> QED BY <1>6, <1>7

\* OscillatorKnown: through every order of points and of changes to R, to the modulus and to
\* the crystal, the oscillator runs at the frequency that perform compensates from
\* (si4468.c:520-583, sa_core.c:4400-4660), unless it is a tracking output too.
THEOREM OscillatorStaysKnown == Tune!Spec => []OscillatorKnown
  <1>1. Tune!Init => TuneInv BY TunerInit
  <1>2. TuneInv /\ [Tune!Next]_(Tune!tunerVars) => TuneInv' BY TunerStep
  <1>3. TuneInv => OscillatorKnown
    BY DEF TuneInv, Ready, Known, OscillatorKnown, Tune!OscillatorKnown, Tune!Oscillator,
           Tune!Drivers
  <1> QED BY <1>1, <1>2, <1>3, PTL DEF Tune!Spec

-----------------------------------------------------------------------------
(* What the oscillator makes of a frequency.                                 *)

\* Division rounds down: bounds of a product are bounds of a quotient.
LEMMA QuotientBetween ==
  ASSUME NEW c \in Nat \ {0}, NEW n \in Int, NEW low \in Int, NEW high \in Int,
         c * low <= n, n <= c * high
  PROVE  n \div c \in low .. high
  <1> DEFINE q == n \div c
  <1>1. q \in Int /\ c * q <= n /\ n < c * (q + 1) OBVIOUS
  <1> HIDE DEF q
  <1>2. ASSUME q < low PROVE FALSE
    <2>1. q + 1 <= low BY <1>1, <1>2
    <2>2. c * (q + 1) <= c * low BY <1>1, <2>1
    <2> QED BY <1>1, <2>2
  <1>3. ASSUME q > high PROVE FALSE
    <2>1. high + 1 <= q BY <1>1, <1>3
    <2>2. c * (high + 1) <= c * q BY <1>1, <2>1
    <2>3. c * high < c * (high + 1) OBVIOUS
    <2> QED BY <1>1, <2>2, <2>3
  <1>4. q \in low .. high BY <1>1, <1>2, <1>3
  <1> QED BY <1>4 DEF q

\* The nearest multiple of the reference: half of it away, at most.
LEMMA NearestMultiple ==
  ASSUME NEW ref \in Nat \ {0}, NEW y \in Nat, NEW x \in Nat, ref <= 2 * x
  PROVE  LET steps == ((y * 2) \div ref + 1) \div 2
         IN /\ steps \in Nat
            /\ ref * steps \in y - x .. y + x
  <1> DEFINE q == (y * 2) \div ref
             steps == (q + 1) \div 2
  <1>1. q \in Nat /\ ref * q <= y * 2 /\ y * 2 < ref * (q + 1) OBVIOUS
  <1> HIDE DEF q
  <1>2. steps \in Nat /\ (steps + steps = q \/ steps + steps = q + 1) BY <1>1
  <1> HIDE DEF steps
  <1> DEFINE p == ref * steps
  <1>3. p \in Nat BY <1>2
  <1>4. ref * (steps + steps) = p + p BY <1>2
  <1>5. ref * (q + 1) = ref * q + ref BY <1>1
  <1>6. CASE steps + steps = q
    <2>1. p + p = ref * q BY <1>4, <1>6
    <2> HIDE DEF p
    <2> DEFINE t == ref * q
    <2>2. t \in Nat BY <1>1
    <2> HIDE DEF t
    <2>3. p + p <= y * 2 /\ y * 2 < p + p + ref BY <1>1, <1>5, <2>1
    <2>4. p \in y - x .. y + x BY <1>3, <2>3
    <2> QED BY <1>2, <2>4 DEF p, steps, q
  <1>7. CASE steps + steps = q + 1
    <2>1. p + p = ref * (q + 1) BY <1>4, <1>7
    <2> HIDE DEF p
    <2>2. y * 2 < p + p /\ p + p <= y * 2 + ref BY <1>1, <1>5, <2>1
    <2>3. p \in y - x .. y + x BY <1>3, <2>2
    <2> QED BY <1>2, <2>3 DEF p, steps, q
  <1> QED BY <1>2, <1>6, <1>7

\* Divided by the output divider and by the modulus, the error stays below a crystal.
LEMMA ErrorBelowCrystal ==
  ASSUME NEW ref \in Nat \ {0}, NEW x \in Nat, ref <= 2 * x, NEW f \in Nat,
         NEW p \in Nat \ {0}, NEW m \in Nat \ {0}
  PROVE  LET steps == ((f * p * 2 * m) \div ref + 1) \div 2
         IN /\ steps \in Nat
            /\ ((ref * steps) \div p) \div m \in f - x .. f + x
  <1> DEFINE y == f * p * m
             steps == ((f * p * 2 * m) \div ref + 1) \div 2
             n == ref * steps
             a == n \div p
  <1>1. y \in Nat OBVIOUS
  <1>2. f * p * 2 * m = y * 2 OBVIOUS
  <1> HIDE DEF y
  <1>3. steps \in Nat /\ n \in y - x .. y + x BY <1>1, <1>2, NearestMultiple
  <1>4. n \in Nat BY <1>3
  <1> HIDE DEF steps, n
  <1> DEFINE fm == f * m
  <1>5. fm \in Nat OBVIOUS
  <1>6. y = p * fm BY DEF y
  <1> HIDE DEF fm
  <1>7. p * (fm - x) <= n /\ n <= p * (fm + x)
    <2> DEFINE px == p * x
               pf == p * fm
    <2>1. px \in Nat /\ pf \in Nat BY <1>5
    <2>2. x <= px OBVIOUS
    <2>3. p * (fm - x) = pf - px /\ p * (fm + x) = pf + px BY <1>5
    <2> HIDE DEF px, pf
    <2> QED BY <1>1, <1>3, <1>6, <2>1, <2>2, <2>3 DEF pf
  <1>8. a \in fm - x .. fm + x
    <2>1. fm - x \in Int /\ fm + x \in Int /\ n \in Int BY <1>4, <1>5
    <2> QED BY <1>7, <2>1, QuotientBetween
  <1>9. a \in Int BY <1>5, <1>8
  <1> HIDE DEF a
  <1>10. m * (f - x) <= a /\ a <= m * (f + x)
    <2> DEFINE mx == m * x
    <2>1. mx \in Nat /\ x <= mx OBVIOUS
    <2>2. m * (f - x) = fm - mx /\ m * (f + x) = fm + mx BY DEF fm
    <2> HIDE DEF mx
    <2> QED BY <1>5, <1>8, <1>9, <2>1, <2>2
  <1>11. a \div m \in f - x .. f + x BY <1>9, <1>10, QuotientBetween
  <1> QED BY <1>3, <1>11 DEF a, n, steps

\* Every power of two is a positive number.
LEMMA PowersOfTwo == \A k \in 0 .. MaxDivider : Tune!TwoTo[k] \in Nat \ {0}
  <1> DEFINE X == Nat \ {0}
             n == MaxDivider
             G(g, k) == IF k = 0 THEN 1 ELSE 2 * g[k - 1]
             table == CHOOSE g : g = [k \in 0 .. n |-> G(g, k)]
             step == [i \in 1 .. n |-> [x \in X |-> 2 * x]]
             base == 1
  <1>1. n \in Nat BY TunerAssumption
  <1>2. base \in X /\ step \in StepTables(X, n) BY DEF StepTables
  <1>3. \A i \in 1 .. n, x \in X : step[i][x] = 2 * x OBVIOUS
  <1> HIDE DEF X, n, base, step
  <1>4. PICK g \in [0 .. n -> X] : g[0] = base /\ \A i \in 1 .. n : g[i] = step[i][g[i - 1]]
    BY <1>1, <1>2, Recursion
  <1>5. \A k \in 0 .. n : g[k] = G(g, k)
    <2> SUFFICES ASSUME NEW k \in 0 .. n PROVE g[k] = G(g, k) OBVIOUS
    <2>1. CASE k = 0 BY <1>4, <2>1 DEF base
    <2>2. CASE k # 0
      <3>1. k \in 1 .. n /\ k - 1 \in 0 .. n BY <1>1, <2>2
      <3> QED BY <1>3, <1>4, <2>2, <3>1
    <2> QED BY <2>1, <2>2
  <1> HIDE DEF G
  <1>6. g = [k \in 0 .. n |-> G(g, k)] BY <1>4, <1>5
  <1>7. table = [k \in 0 .. n |-> G(table, k)] BY <1>6
  <1> HIDE DEF table
  <1>8. \A k \in 0 .. n : table[k] = G(table, k) BY <1>7
  <1> DEFINE S == {k \in 0 .. n : table[k] \in X}
  <1>9. 0 \in S BY <1>1, <1>8 DEF G, X
  <1>10. \A i \in 1 .. n : i - 1 \in S => i \in S
    <2> SUFFICES ASSUME NEW i \in 1 .. n, i - 1 \in S PROVE i \in S OBVIOUS
    <2>1. i \in 0 .. n /\ i # 0 /\ table[i - 1] \in X BY <1>1
    <2>2. table[i] = 2 * table[i - 1] BY <1>8, <2>1 DEF G
    <2> QED BY <2>1, <2>2 DEF X
  <1> HIDE DEF S
  <1>11. \A i \in 0 .. n : i \in S BY <1>1, <1>9, <1>10, Induction
  <1>12. Tune!TwoTo = table BY DEF Tune!TwoTo, table, G, n
  <1> QED BY <1>11, <1>12 DEF S, X, n

\* An output divider is found for every frequency.
LEMMA DividerFound == \A f \in Int : Tune!OutDivider(f) \in 0 .. MaxDivider
  <1> SUFFICES ASSUME NEW f \in Int PROVE Tune!OutDivider(f) \in 0 .. MaxDivider OBVIOUS
  <1> DEFINE Fits(k) == f * Tune!TwoTo[k] > TopFrequency
             S == {k \in 0 .. MaxDivider : k = MaxDivider \/ Fits(k)}
  <1> HIDE DEF Fits
  <1>1. MaxDivider \in Nat /\ MaxDivider \in Int BY TunerAssumption
  <1>2. S \in SUBSET (0 .. MaxDivider) /\ S # {}
    <2>1. MaxDivider \in S BY <1>1
    <2> QED BY <2>1
  <1> HIDE DEF S
  <1>3. Min(S) \in S /\ \A y \in S : Min(S) <= y BY <1>1, <1>2, LeastNumber
  <1> DEFINE k == Min(S)
  <1>4. k \in 0 .. MaxDivider /\ (k = MaxDivider \/ Fits(k)) BY <1>3 DEF S
  <1>5. \A j \in 0 .. k - 1 : ~Fits(j)
    <2> SUFFICES ASSUME NEW j \in 0 .. k - 1, Fits(j) PROVE FALSE OBVIOUS
    <2>1. j \in 0 .. MaxDivider /\ ~(k <= j) BY <1>1, <1>4
    <2>2. j \in S BY <2>1 DEF S
    <2> QED BY <1>3, <2>1, <2>2
  <1> HIDE DEF k
  <1>6. \A j \in 0 .. k - 1 : f * Tune!TwoTo[j] <= TopFrequency
    <2> SUFFICES ASSUME NEW j \in 0 .. k - 1 PROVE f * Tune!TwoTo[j] <= TopFrequency OBVIOUS
    <2>1. j \in 0 .. MaxDivider BY <1>1, <1>4
    <2>2. f * Tune!TwoTo[j] \in Int /\ TopFrequency \in Int
      BY <2>1, PowersOfTwo, TunerAssumption
    <2> QED BY <1>5, <2>2 DEF Fits
  <1> QED BY <1>4, <1>6 DEF Tune!OutDivider, Fits

-----------------------------------------------------------------------------
(* What the drivers keep.                                                    *)

RxFields == {"base", "offset", "active", "value", "old_delta", "fast_counter", "transmits"}
Full(d) ==
  /\ Shape(d)
  /\ RxFields \subseteq DOMAIN d.rx /\ {"LO", "RX"} \subseteq DOMAIN d.old

\* What R can be asked to be.
AskableR(f) == f \in Int /\ \A x \in Crystals : f \in -x .. x

\* At all times R can divide the crystal, and an offset that is not in use is 0.
Sound(d) ==
  /\ Full(d)
  /\ d.adf.R \in Nat \ {0} /\ \A x \in Crystals : d.adf.R <= x
  /\ AskableR(d.adf.old_R) /\ d.adf.modulus \in Nat
  /\ d.rx.active \/ d.rx.offset = 0

\* The oscillator is less than a crystal away from what set_freq was asked for last.
Near(d) ==
  /\ d.real["LO"] \in Int /\ d.old["LO"] \in Int
  /\ d.old["LO"] # 0 => d.real["LO"] \in d.old["LO"] - config_30mhz .. d.old["LO"] + config_30mhz

\* The receiver is where set_freq was asked to put it.
Placed(d) == Tune!Quiet /\ d.old["RX"] # 0 => d.rx.base = d.old["RX"] /\ d.rx.offset = 0

Kept(d, e) == Sound(e) /\ (Near(d) => Near(e)) /\ (Placed(d) => Placed(e))

LEMMA KeptIsTransitive ==
  ASSUME NEW c, NEW d, NEW e, Kept(c, d), Kept(d, e)
  PROVE  Kept(c, e)
  BY DEF Kept

\* What the driver of the oscillator keeps to itself.
LEMMA LikeIsKept ==
  ASSUME NEW d, Sound(d), NEW e, Full(e), e.adf.R = d.adf.R,
         AskableR(e.adf.old_R), e.adf.modulus \in Nat,
         e.rx = d.rx, e.old = d.old, e.real = d.real
  PROVE  Kept(d, e)
  BY DEF Kept, Sound, Near, Placed

LEMMA SendsKept ==
  ASSUME NEW d, Sound(d)
  PROVE  Kept(d, Tune!SendConfig(d))
  <1> DEFINE e == Tune!SendConfig(d)
  <1>1. Full(e) /\ e.adf = d.adf /\ e.rx = d.rx /\ e.old = d.old /\ e.real = d.real
    BY DEF Tune!SendConfig, Sound, Full, Shape
  <1> HIDE DEF e
  <1>2. e.adf.R = d.adf.R /\ AskableR(e.adf.old_R) /\ e.adf.modulus \in Nat
    BY <1>1 DEF Sound
  <1> QED BY <1>1, <1>2, LikeIsKept DEF e

LEMMA DriveKept ==
  ASSUME NEW d, Sound(d), NEW p
  PROVE  Kept(d, Tune!Drive(d, p))
  <1> DEFINE e == [d EXCEPT !.adf.rfPower = p]
  <1>1. /\ Full(e) /\ e.rx = d.rx /\ e.old = d.old /\ e.real = d.real
        /\ e.adf.R = d.adf.R /\ e.adf.modulus = d.adf.modulus
        /\ e.adf.old_R = d.adf.old_R
    BY DEF Sound, Full, Shape, AdfFields
  <1>2. Tune!Drive(d, p) = d \/ Tune!Drive(d, p) = Tune!SendConfig(e) BY DEF Tune!Drive
  <1> HIDE DEF e
  <1>3. Kept(d, e) BY <1>1, LikeIsKept DEF Sound
  <1>4. Sound(e) BY <1>3 DEF Kept
  <1>5. Kept(d, Tune!SendConfig(e)) BY <1>3, <1>4, SendsKept, KeptIsTransitive
  <1>6. Kept(d, d) BY DEF Kept
  <1> QED BY <1>2, <1>5, <1>6

LEMMA ModuloKept ==
  ASSUME NEW d, Sound(d), NEW m \in Nat
  PROVE  Kept(d, Tune!Modulo(d, m)) /\ Tune!Modulo(d, m).adf.modulus = m
  <1> DEFINE e == Tune!Modulo(d, m)
  <1>1. /\ Full(e) /\ e.rx = d.rx /\ e.old = d.old /\ e.real = d.real
        /\ e.adf.R = d.adf.R /\ e.adf.modulus = m /\ e.adf.old_R = d.adf.old_R
    BY DEF Tune!Modulo, Sound, Full, Shape, AdfFields
  <1> HIDE DEF e
  <1> QED BY <1>1, LikeIsKept DEF Sound, e

\* Without caches nothing is remembered that could be wrong.
LEMMA ClearedKept ==
  ASSUME NEW d, Sound(d)
  PROVE  /\ Kept(d, Tune!ClearCache(d)) /\ Near(Tune!ClearCache(d)) /\ Placed(Tune!ClearCache(d))
         /\ Kept(d, Tune!Reset(d)) /\ Near(Tune!Reset(d)) /\ Placed(Tune!Reset(d))
         /\ Tune!Reset(d).adf.modulus = d.adf.modulus
         /\ Tune!ClearCache(d).adf.modulus = d.adf.modulus
  <1> DEFINE c == Tune!ClearCache(d)
             r == [c EXCEPT !.rx.base = 0, !.rx.offset = 0, !.rx.transmits = FALSE]
  <1>1. /\ Full(c) /\ c.rx = d.rx /\ c.adf.R = d.adf.R /\ c.adf.modulus = d.adf.modulus
        /\ c.adf.old_R = d.adf.old_R
        /\ c.old["LO"] = 0 /\ c.old["RX"] = 0 /\ c.real["LO"] = 0
    BY DEF Tune!ClearCache, Tune!Synthesizers, Sound, Full, Shape, AdfFields
  <1>2. r = Tune!Reset(d) BY DEF Tune!Reset, c
  <1> HIDE DEF c
  <1>3. Sound(c) /\ Near(c) /\ Placed(c) BY <1>1 DEF Sound, Near, Placed
  <1>4. /\ Full(r) /\ r.rx.offset = 0 /\ r.adf = c.adf /\ r.old = c.old /\ r.real = c.real
    BY <1>1 DEF Full, Shape, RxFields
  <1> HIDE DEF r
  <1>5. Sound(r) /\ Near(r) /\ Placed(r) BY <1>1, <1>3, <1>4 DEF Sound, Near, Placed
  <1> QED BY <1>1, <1>2, <1>3, <1>4, <1>5 DEF Kept, c

LEMMA RKept ==
  ASSUME NEW d, Sound(d), NEW f, AskableR(f)
  PROVE  Kept(d, Tune!RCounter(d, f)) /\ Tune!RCounter(d, f).adf.modulus = d.adf.modulus
  <1> DEFINE abs == IF f < 0 THEN -f ELSE f
             refs == [d EXCEPT !.adf.old_R = f, !.adf.refDouble = (f < 0)]
             new == [refs EXCEPT !.adf.R = abs]
  <1>1. /\ Full(refs) /\ refs.rx = d.rx /\ refs.old = d.old /\ refs.real = d.real
        /\ refs.adf.R = d.adf.R /\ refs.adf.modulus = d.adf.modulus /\ refs.adf.old_R = f
    BY DEF Sound, Full, Shape, AdfFields
  <1>2. f = d.adf.old_R => Tune!RCounter(d, f) = d BY DEF Tune!RCounter
  <1>3. f # d.adf.old_R => Tune!RCounter(d, f) = IF abs < 1 THEN refs ELSE Tune!ClearCache(new)
    BY DEF Tune!RCounter
  <1>4. ~(abs < 1) => abs \in Nat \ {0} /\ \A x \in Crystals : abs <= x
    BY TunerAssumption DEF AskableR
  <1> HIDE DEF abs, refs
  <1>5. Kept(d, refs) BY <1>1, LikeIsKept DEF Sound
  <1>6. /\ Full(new) /\ new.rx = d.rx /\ new.adf.R = abs /\ new.adf.modulus = d.adf.modulus
        /\ new.adf.old_R = f
    BY <1>1 DEF Full, Shape, AdfFields
  <1> HIDE DEF new
  <1>7. ASSUME ~(abs < 1)
        PROVE  /\ Kept(d, Tune!ClearCache(new))
               /\ Tune!ClearCache(new).adf.modulus = d.adf.modulus
    <2>1. Sound(new) BY <1>4, <1>6, <1>7 DEF Sound
    <2> QED BY <1>6, <2>1, ClearedKept DEF Kept
  <1>8. Kept(d, d) BY DEF Kept
  <1> QED BY <1>1, <1>2, <1>3, <1>5, <1>7, <1>8

\* What the oscillator makes of a frequency is less than a crystal away from it.
LEMMA OscillatorNear ==
  ASSUME NEW a, a.R \in Nat \ {0}, a.R <= config_30mhz, a.modulus \in Nat \ {0},
         config_30mhz \in Crystals, NEW f \in Nat
  PROVE  LET div == Tune!OutDivider(f)
             steps == ((f * Tune!TwoTo[div] * 2 * a.modulus)
                         \div Tune!Reference(a, config_30mhz) + 1) \div 2
         IN /\ steps \in Nat
            /\ ((Tune!Reference(a, config_30mhz) * steps) \div Tune!TwoTo[div]) \div a.modulus
                 \in f - config_30mhz .. f + config_30mhz
  <1> DEFINE x == config_30mhz
             ref == Tune!Reference(a, config_30mhz)
             p == Tune!TwoTo[Tune!OutDivider(f)]
             R == a.R
             m == a.modulus
  <1>1. x \in Nat /\ x >= 4 BY TunerAssumption
  <1>2. p \in Nat \ {0} BY DividerFound, PowersOfTwo
  <1>3. ref \in Nat \ {0} /\ ref <= 2 * x
    <2>1. ref = (IF a.refDouble THEN 2 * x ELSE x) \div R BY DEF Tune!Reference
    <2>2. R \in Nat \ {0} /\ R <= x OBVIOUS
    <2> HIDE DEF x, ref, R
    <2>3. \A y \in Nat : R <= y => y \div R \in 1 .. y
      <3> SUFFICES ASSUME NEW y \in Nat, R <= y PROVE y \div R \in 1 .. y OBVIOUS
      <3>1. R * 1 <= y /\ y <= R * y BY <2>2
      <3> QED BY <2>2, <3>1, QuotientBetween
    <2>4. x \div R \in 1 .. x /\ (2 * x) \div R \in 1 .. 2 * x BY <1>1, <2>2, <2>3
    <2>5. CASE a.refDouble BY <1>1, <2>1, <2>4, <2>5
    <2>6. CASE ~a.refDouble BY <1>1, <2>1, <2>4, <2>6
    <2> QED BY <2>5, <2>6
  <1> HIDE DEF ref, p
  <1>4. m \in Nat \ {0} OBVIOUS
  <1> HIDE DEF m
  <1>5. LET steps == ((f * p * 2 * m) \div ref + 1) \div 2
        IN steps \in Nat /\ ((ref * steps) \div p) \div m \in f - x .. f + x
    BY <1>1, <1>2, <1>3, <1>4, ErrorBelowCrystal
  <1> QED BY <1>5 DEF ref, p, m

\* N and the fraction are the steps again.
LEMMA StepsSplit ==
  ASSUME NEW steps \in Nat, NEW m \in Nat \ {0}
  PROVE  (steps \div m) * m + (steps % m) = steps
  <1> DEFINE q == steps \div m
             r == steps % m
  <1>1. m \in Nat /\ m >= 1 OBVIOUS
  <1>2. steps = (m * q) + r /\ q \in Int /\ r \in Int BY <1>1, DivMod
  <1> HIDE DEF q, r
  <1>3. q * m = m * q BY <1>2
  <1>4. (q * m) + r = steps BY <1>2, <1>3
  <1> QED BY <1>4 DEF q, r

\* set_freq for the oscillator.
LEMMA OscillatorKept ==
  ASSUME NEW d, Sound(d), config_30mhz \in Crystals, d.adf.modulus # 0, NEW f \in Nat
  PROVE  /\ Kept(d, Tune!SetFreq(d, "LO", f))
         /\ Tune!SetFreq(d, "LO", f).old["LO"] = f
  <1> DEFINE div == Tune!OutDivider(f)
             m == d.adf.modulus
             ref == Tune!Reference(d.adf, config_30mhz)
             steps == ((f * Tune!TwoTo[div] * 2 * m) \div ref + 1) \div 2
             a == [d.adf EXCEPT !.out_div = div, !.N = steps \div m, !.frac = steps % m]
             actual == Tune!Output(a, config_30mhz)
             next == [d EXCEPT !.adf = a, !.adf.prev_actual_freq = actual, !.real["LO"] = actual]
             new == Tune!SetOscillator(d, f)
             told == [new EXCEPT !.old["LO"] = f]
  <1>1. m \in Nat \ {0} /\ d.adf.R \in Nat \ {0} /\ d.adf.R <= config_30mhz BY DEF Sound
  <1>2. /\ steps \in Nat
        /\ ((ref * steps) \div Tune!TwoTo[div]) \div m \in f - config_30mhz .. f + config_30mhz
    BY <1>1, OscillatorNear
  <1>3. new = IF actual = d.adf.prev_actual_freq THEN next ELSE Tune!SendConfig(next)
    BY DEF Tune!SetOscillator
  <1> HIDE DEF div, steps
  <1>4. AdfFields \subseteq DOMAIN d.adf BY DEF Sound, Full, Shape
  <1>5. /\ AdfFields \subseteq DOMAIN a /\ a.R = d.adf.R /\ a.modulus = m
        /\ a.refDouble = d.adf.refDouble /\ a.old_R = d.adf.old_R
        /\ a.N = steps \div m /\ a.frac = steps % m /\ a.out_div = div
    BY <1>4 DEF AdfFields
  <1> HIDE DEF a
  <1>6. actual \in f - config_30mhz .. f + config_30mhz
    <2>1. Tune!Reference(a, config_30mhz) = ref BY <1>5 DEF Tune!Reference
    <2> HIDE DEF ref, m
    <2>2. a.N * a.modulus + a.frac = steps BY <1>1, <1>2, <1>5, StepsSplit
    <2>3. actual = ((ref * steps) \div Tune!TwoTo[div]) \div m
      BY <1>5, <2>1, <2>2 DEF Tune!Output
    <2> QED BY <1>2, <2>3
  <1> HIDE DEF actual, ref, m
  <1>7. /\ Full(next) /\ next.adf.R = d.adf.R /\ next.adf.modulus = d.adf.modulus
        /\ next.adf.old_R = d.adf.old_R
        /\ next.rx = d.rx /\ next.old = d.old /\ next.real["LO"] = actual
    BY <1>5 DEF Sound, Full, Shape, AdfFields, m
  <1> HIDE DEF next
  <1>8. Sound(next) BY <1>7 DEF Sound
  <1>9. /\ Full(new) /\ new.adf.R = d.adf.R /\ new.adf.modulus = d.adf.modulus
        /\ new.adf.old_R = d.adf.old_R
        /\ new.rx = d.rx /\ new.old = d.old /\ new.real["LO"] = actual
    <2> DEFINE e == Tune!SendConfig(next)
    <2>1. Full(e) /\ e.adf = next.adf /\ e.rx = next.rx /\ e.old = next.old /\ e.real = next.real
      BY <1>7 DEF Tune!SendConfig, Full, Shape
    <2> HIDE DEF e
    <2> QED BY <1>3, <1>7, <2>1 DEF e
  <1> HIDE DEF new
  <1>10. /\ Full(told) /\ told.adf = new.adf /\ told.rx = d.rx /\ told.real["LO"] = actual
         /\ told.old["LO"] = f /\ told.old["RX"] = d.old["RX"]
    BY <1>9 DEF Full, Shape
  <1> HIDE DEF told
  <1>11. Sound(told) BY <1>9, <1>10 DEF Sound
  <1>12. Near(told)
    <2>1. config_30mhz \in Nat BY TunerAssumption
    <2> QED BY <1>6, <1>10, <2>1 DEF Near
  <1>13. Placed(d) => Placed(told) BY <1>10 DEF Placed
  <1>14. Kept(d, d) BY DEF Kept
  <1>15. Tune!SetFreq(d, "LO", f) = IF d.old["LO"] = f THEN d ELSE told
    BY DEF Tune!SetFreq, told, new
  <1> QED BY <1>10, <1>11, <1>12, <1>13, <1>14, <1>15 DEF Kept

\* What a step on the receiver leaves alone.
SameBut(d, e) ==
  /\ Full(e) /\ (e.rx.active \/ e.rx.offset = 0)
  /\ e.adf = d.adf /\ e.old = d.old /\ e.real["LO"] = d.real["LO"]

LEMMA ReceiverSet ==
  ASSUME NEW d, Full(d), d.rx.active \/ d.rx.offset = 0, NEW f
  PROVE  LET e == Tune!SetReceiver(d, f)
         IN SameBut(d, e) /\ e.rx.base = f /\ e.rx.offset = 0
  <1> DEFINE off == [d.rx EXCEPT !.offset = 0, !.value = 0, !.active = FALSE]
             cleared == IF d.rx.active THEN off ELSE d.rx
             moved == [cleared EXCEPT !.base = f, !.fast_counter = 0]
             e == [d EXCEPT !.rx = moved, !.real["RX"] = f]
  <1>1. RxFields \subseteq DOMAIN off /\ off.offset = 0 BY DEF Full, RxFields
  <1> HIDE DEF off
  <1>2. RxFields \subseteq DOMAIN cleared /\ cleared.offset = 0 BY <1>1 DEF Full
  <1> HIDE DEF cleared
  <1>3. RxFields \subseteq DOMAIN moved /\ moved.base = f /\ moved.offset = 0
    BY <1>2 DEF RxFields
  <1> HIDE DEF moved
  <1>4. /\ Full(e) /\ e.rx = moved /\ e.adf = d.adf /\ e.old = d.old
        /\ e.real["LO"] = d.real["LO"]
    BY <1>3 DEF Full, Shape
  <1>5. e = Tune!SetReceiver(d, f) BY DEF Tune!SetReceiver, moved, cleared, off
  <1> HIDE DEF e
  <1> QED BY <1>3, <1>4, <1>5 DEF SameBut

LEMMA OffsetSet ==
  ASSUME NEW d, Full(d), d.rx.active \/ d.rx.offset = 0, NEW f
  PROVE  SameBut(d, Tune!SetOffset(d, f))
  <1>1. CASE f = d.rx.old_delta
    <2>1. Tune!SetOffset(d, f) = d BY <1>1 DEF Tune!SetOffset
    <2> QED BY <2>1 DEF SameBut
  <1>2. CASE f # d.rx.old_delta
    <2> DEFINE used == f # 0
               e == [d EXCEPT !.rx.offset = f, !.rx.value = f, !.rx.active = used,
                              !.rx.old_delta = f]
    <2>1. e = Tune!SetOffset(d, f) BY <1>2 DEF Tune!SetOffset
    <2>2. used \/ f = 0 OBVIOUS
    <2> HIDE DEF used
    <2>3. /\ Full(e) /\ e.rx.offset = f /\ e.rx.active = used
          /\ e.adf = d.adf /\ e.old = d.old /\ e.real = d.real
      BY DEF Full, Shape, RxFields
    <2> HIDE DEF e
    <2>4. e.rx.active \/ e.rx.offset = 0 BY <2>2, <2>3, Zenon
    <2> QED BY <2>1, <2>3, <2>4 DEF SameBut
  <1> QED BY <1>1, <1>2

\* set_freq for the receiver.
LEMMA ReceiverKept ==
  ASSUME NEW d, Sound(d), NEW f
  PROVE  /\ Kept(d, Tune!SetFreq(d, "RX", f))
         /\ Tune!SetFreq(d, "RX", f).old["RX"] = f
  <1> DEFINE counts == IF setup.fast THEN [d EXCEPT !.rx.fast_counter = @ + 1] ELSE d
             tuned == Tune!TuneReceiver(d, f)
             told == [tuned EXCEPT !.old["RX"] = f]
  <1>1. SameBut(d, counts)
    <2> DEFINE e == [d EXCEPT !.rx.fast_counter = @ + 1]
    <2>1. SameBut(d, d) BY DEF SameBut, Sound
    <2>2. /\ Full(e) /\ e.rx.active = d.rx.active /\ e.rx.offset = d.rx.offset
          /\ e.adf = d.adf /\ e.old = d.old /\ e.real = d.real
      BY DEF Sound, Full, Shape, RxFields
    <2> HIDE DEF e
    <2>3. SameBut(d, e) BY <2>2 DEF SameBut, Sound
    <2> QED BY <2>1, <2>3 DEF e
  <1>2. /\ \/ \E g : tuned = Tune!SetOffset(counts, g)
           \/ tuned = Tune!SetReceiver(counts, f)
        /\ Tune!Quiet => tuned = Tune!SetReceiver(counts, f)
    BY DEF Tune!TuneReceiver, Tune!Quiet
  <1> HIDE DEF counts, tuned
  <1>3. /\ SameBut(counts, tuned)
        /\ Tune!Quiet => tuned.rx.base = f /\ tuned.rx.offset = 0
    <2>1. Full(counts) /\ (counts.rx.active \/ counts.rx.offset = 0) BY <1>1 DEF SameBut
    <2> QED BY <1>2, <2>1, ReceiverSet, OffsetSet
  <1>4. SameBut(d, tuned) BY <1>1, <1>3 DEF SameBut
  <1>5. /\ Full(told) /\ told.rx = tuned.rx /\ told.adf = d.adf
        /\ told.real["LO"] = d.real["LO"]
        /\ told.old["RX"] = f /\ told.old["LO"] = d.old["LO"]
    BY <1>4 DEF SameBut, Full, Shape
  <1> HIDE DEF told
  <1>6. Sound(told) BY <1>4, <1>5 DEF Sound, SameBut
  <1>7. (Near(d) => Near(told)) /\ Placed(told) BY <1>3, <1>5 DEF Near, Placed
  <1>8. Kept(d, d) BY DEF Kept
  <1>9. Tune!SetFreq(d, "RX", f) = IF d.old["RX"] = f THEN d ELSE told
    BY DEF Tune!SetFreq, told, tuned
  <1> QED BY <1>5, <1>6, <1>7, <1>8, <1>9 DEF Kept

\* Modulation moves the receiver, the path of an output does not.
LEMMA PathKept ==
  ASSUME NEW d, Sound(d), NEW m
  PROVE  /\ Kept(d, Tune!Modulated(d, m))
         /\ Kept(d, Tune!OnPath(Tune!Modulated(d, m)))
         /\ Kept(d, Tune!PastReceiver(Tune!Modulated(d, m)))
  <1>1. Kept(d, Tune!Modulated(d, m))
    <2>1. CASE setup.mode = "output" /\ setup.fm
      <3> DEFINE moved == d.rx.value + m
                 used == moved # 0
                 e == [d EXCEPT !.rx.offset = moved, !.rx.active = used]
      <3>1. e = Tune!Modulated(d, m) BY <2>1 DEF Tune!Modulated
      <3>2. used \/ moved = 0 OBVIOUS
      <3> HIDE DEF used, moved
      <3>3. /\ Full(e) /\ e.rx.offset = moved /\ e.rx.active = used
            /\ e.adf = d.adf /\ e.old = d.old /\ e.real = d.real
        BY DEF Sound, Full, Shape, RxFields
      <3> HIDE DEF e
      <3>4. e.rx.active \/ e.rx.offset = 0 BY <3>2, <3>3, Zenon
      <3>5. ~Tune!Quiet BY <2>1 DEF Tune!Quiet
      <3> QED BY <3>1, <3>3, <3>4, <3>5 DEF Kept, Sound, Near, Placed
    <2>2. CASE ~(setup.mode = "output" /\ setup.fm)
      <3>1. Tune!Modulated(d, m) = d BY <2>2 DEF Tune!Modulated
      <3> QED BY <3>1 DEF Kept
    <2> QED BY <2>1, <2>2
  <1>2. \A e : Sound(e) => Kept(e, Tune!OnPath(e))
    <2> SUFFICES ASSUME NEW e, Sound(e) PROVE Kept(e, Tune!OnPath(e)) OBVIOUS
    <2> DEFINE c == [e EXCEPT !.rx.transmits = TRUE]
    <2>1. /\ Full(c) /\ c.rx.offset = e.rx.offset /\ c.rx.active = e.rx.active
          /\ c.rx.base = e.rx.base /\ c.adf = e.adf /\ c.old = e.old /\ c.real = e.real
      BY DEF Sound, Full, Shape, RxFields
    <2>2. Tune!OnPath(e) = IF setup.mode = "output" THEN c ELSE e BY DEF Tune!OnPath
    <2> HIDE DEF c
    <2>3. Kept(e, c) /\ Kept(e, e) BY <2>1 DEF Kept, Sound, Near, Placed
    <2> QED BY <2>2, <2>3
  <1>3. \A e : Sound(e) => Kept(e, Tune!PastReceiver(e))
    BY ClearedKept DEF Tune!PastReceiver, Kept
  <1>4. Sound(Tune!Modulated(d, m)) BY <1>1 DEF Kept
  <1> QED BY <1>1, <1>2, <1>3, <1>4, KeptIsTransitive

-----------------------------------------------------------------------------
(* What the receiver makes up for.                                           *)

LEMMA HarmonicCounts ==
  \A f : Tune!HarmonicOf(f) \in Nat \ {0} /\ Tune!HarmonicOf(f) <= Harmonic
  BY TunerAssumption DEF Tune!HarmonicOf

\* What an oscillator at o brings to a receiver at rc, or back.
Heard(f, o, rc, below, inverted) ==
  IF ~below THEN Tune!HarmonicOf(f) * o - rc
  ELSE IF inverted THEN Tune!HarmonicOf(f) * o + rc
  ELSE rc - Tune!HarmonicOf(f) * o

\* An oscillator that misses its target is made up for, on either side of the point.
LEMMA ErrorMadeUp ==
  ASSUME NEW f \in Nat, NEW if \in Nat, NEW below \in BOOLEAN,
         NEW d, NEW o \in Int, d.real["LO"] = o, setup.narrow
  PROVE  LET target == Tune!Target(f, if, below) \div Tune!HarmonicOf(f)
             rc == if + Tune!Compensation(d, target, Tune!Inverted(f, if, below),
                                          Tune!HarmonicOf(f))
         IN Tune!Within(Heard(f, o, rc, below, Tune!Inverted(f, if, below)) - f)
  <1> DEFINE h == Tune!HarmonicOf(f)
             aim == Tune!Target(f, if, below)
             target == aim \div h
             inverted == Tune!Inverted(f, if, below)
             comp == Tune!Compensation(d, target, inverted, h)
             miss == (o - target) * h
             ho == h * o
             ht == h * target
  <1>1. h \in Nat \ {0} /\ h <= Harmonic /\ Harmonic \in Nat /\ Tolerance \in Nat
    BY HarmonicCounts, TunerAssumption
  <1>2. /\ ~below => aim = if + f /\ ~inverted
        /\ below /\ f < if => aim = if - f /\ ~inverted
        /\ below /\ ~(f < if) => aim = f - if /\ inverted
    BY DEF Tune!Target, Tune!Inverted
  <1>3. aim \in Nat BY <1>2
  <1>4. /\ (target - o) * h = -miss
        /\ comp = 0 \/ comp = (IF inverted THEN (target - o) * h ELSE miss)
        /\ comp = 0 => miss \in -Tolerance .. Tolerance
    <2>1. target \in Int BY <1>1, <1>3
    <2> HIDE DEF h, aim, inverted
    <2>2. miss \in Int /\ (target - o) * h = -miss BY <1>1, <2>1
    <2> HIDE DEF target
    <2> DEFINE error == IF inverted THEN (target - o) * h ELSE miss
    <2>3. comp = IF h > 1 \/ error \notin -Tolerance .. Tolerance THEN error ELSE 0
      BY DEF Tune!Compensation
    <2> HIDE DEF comp, miss
    <2>4. error \in Int /\ (error = miss \/ error = -miss) BY <2>2
    <2>5. comp = error \/ comp = 0 BY <2>3
    <2>6. comp = 0 => error \in -Tolerance .. Tolerance BY <1>1, <2>3, <2>4
    <2>7. comp = 0 => miss \in -Tolerance .. Tolerance BY <1>1, <2>2, <2>4, <2>6
    <2> QED BY <2>2, <2>5, <2>7
  <1>5. ht <= aim /\ aim < ht + h /\ ht \in Int /\ target \in Int BY <1>1, <1>3
  <1>6. miss = ho - ht /\ miss \in Int /\ ho \in Int BY <1>1, <1>5
  <1> DEFINE rc == if + comp
             heard == Heard(f, o, rc, below, inverted)
  <1>7. heard = IF ~below THEN ho - rc ELSE IF inverted THEN ho + rc ELSE rc - ho BY DEF Heard
  <1> HIDE DEF h, aim, target, inverted, comp, miss, ho, ht, heard
  <1>8. \/ comp \in Int /\ comp = (IF inverted THEN -miss ELSE miss)
        \/ comp = 0 /\ miss \in -Tolerance .. Tolerance
    BY <1>4, <1>6
  <1>9. heard - f \in -Tolerance - Harmonic + 1 .. Tolerance + Harmonic - 1
    <2>1. CASE ~below BY <1>1, <1>2, <1>5, <1>6, <1>7, <1>8, <2>1
    <2>2. CASE below /\ f < if BY <1>1, <1>2, <1>5, <1>6, <1>7, <1>8, <2>2
    <2>3. CASE below /\ ~(f < if) BY <1>1, <1>2, <1>5, <1>6, <1>7, <1>8, <2>3
    <2> QED BY <2>1, <2>2, <2>3
  <1>10. Tune!Within(heard - f) BY <1>9 DEF Tune!Within
  <1> QED BY <1>10 DEF heard, rc, comp, inverted, target, aim, h

\* What is made up for is less than the intermediate frequency.
LEMMA ReceiverAsked ==
  ASSUME NEW if \in IntermediateFrequencies, NEW d, NEW o \in Int, d.real["LO"] = o,
         NEW target \in Int, NEW f, NEW inverted,
         config_30mhz \in Crystals,
         \/ o - target \in -config_30mhz .. config_30mhz
         \/ o - target \in -MAX_COMPENSATION .. MAX_COMPENSATION
  PROVE  if + Tune!Compensation(d, target, inverted, Tune!HarmonicOf(f)) \in Int \ {0}
  <1> DEFINE h == Tune!HarmonicOf(f)
             comp == Tune!Compensation(d, target, inverted, h)
  <1>1. h \in Nat \ {0} /\ h <= Harmonic BY HarmonicCounts
  <1>2. if \in Nat /\ Harmonic \in Nat /\ \E y \in Nat :
          Harmonic * y < if /\ o - target \in -y .. y
    <2>1. config_30mhz \in Nat /\ MAX_COMPENSATION \in Nat BY TunerAssumption
    <2> QED BY <2>1, TunerAssumption
  <1>3. PICK y \in Nat : Harmonic * y < if /\ o - target \in -y .. y BY <1>2
  <1> HIDE DEF h
  <1>4. \A n \in -y .. y : n * h \in -(Harmonic * y) .. Harmonic * y
    <2> SUFFICES ASSUME NEW n \in -y .. y PROVE n * h \in -(Harmonic * y) .. Harmonic * y
      OBVIOUS
    <2>1. h * y <= Harmonic * y BY <1>1, <1>2
    <2>2. n * h <= y * h /\ -(y * h) <= n * h
      <3>1. n <= y /\ 0 <= y - n /\ 0 <= y + n /\ h \in Nat BY <1>1
      <3>2. (y - n) * h \in Nat /\ (y + n) * h \in Nat BY <3>1
      <3>3. (y - n) * h = y * h - n * h /\ (y + n) * h = y * h + n * h BY <3>1
      <3>4. n * h \in Int /\ y * h \in Int BY <1>1
      <3> QED BY <3>2, <3>3, <3>4
    <2>3. y * h = h * y /\ h * y \in Int /\ n * h \in Int /\ Harmonic * y \in Int BY <1>1, <1>2
    <2> QED BY <2>1, <2>2, <2>3
  <1>5. o - target \in -y .. y /\ target - o \in -y .. y BY <1>3
  <1>6. comp \in {(o - target) * h, (target - o) * h, 0} BY DEF Tune!Compensation
  <1> DEFINE bound == Harmonic * y
  <1>7. bound \in Nat BY <1>2
  <1> HIDE DEF comp, bound
  <1>8. comp \in -bound .. bound BY <1>4, <1>5, <1>6, <1>7 DEF bound
  <1>9. bound < if BY <1>3 DEF bound
  <1>10. if + comp \in Int \ {0} BY <1>2, <1>7, <1>8, <1>9
  <1> QED BY <1>10 DEF comp, h

LEMMA DividersAskable ==
  ASSUME AskableR(setting_R), NEW f, NEW r \in Tune!Dividers(f)
  PROVE  AskableR(r.R) /\ r.modulus \in Nat
  <1>1. \A n \in -4 .. 4 : AskableR(n) BY TunerAssumption DEF AskableR
  <1>2. CASE setting_R # 0 BY <1>2 DEF Tune!Dividers
  <1>3. CASE setting_R = 0
    <2>1. r.R \in -4 .. 4 /\ r.modulus \in {0, ModuloBottom, ModuloInput, ModuloOutput}
      <3>1. r \in Tune!AutoDivider(f \in LowestPoints) BY <1>3 DEF Tune!Dividers
      <3>2. CASE setup.mode = "output" BY <3>1, <3>2 DEF Tune!AutoDivider
      <3>3. CASE setup.mode # "output" /\ f \in LowestPoints /\ max2871
        BY <3>1, <3>3 DEF Tune!AutoDivider
      <3>4. CASE setup.mode # "output" /\ ~(f \in LowestPoints /\ max2871)
        <4>1. r.R \in {-4, -3, 1, 3, 4} /\ r.modulus \in {0, ModuloInput}
          BY <3>1, <3>4 DEF Tune!AutoDivider
        <4> QED BY <4>1
      <3> QED BY <3>2, <3>3, <3>4
    <2> QED BY <1>1, <2>1, TunerAssumption
  <1> QED BY <1>2, <1>3

LEMMA DivideKept ==
  ASSUME NEW d, Sound(d), NEW r, AskableR(r.R), r.modulus \in Nat
  PROVE  /\ Kept(d, Tune!Divide(d, r))
         /\ Tune!Divide(d, r).adf.modulus = IF r.modulus = 0 THEN d.adf.modulus ELSE r.modulus
  <1> DEFINE e == IF r.modulus = 0 THEN d ELSE Tune!Modulo(d, r.modulus)
  <1>1. Kept(d, d) BY DEF Kept
  <1>2. /\ Kept(d, e)
        /\ e.adf.modulus = IF r.modulus = 0 THEN d.adf.modulus ELSE r.modulus
    BY <1>1, ModuloKept
  <1>3. Tune!Divide(d, r) = Tune!RCounter(e, r.R) BY DEF Tune!Divide
  <1> HIDE DEF e
  <1>4. Sound(e) BY <1>2 DEF Kept
  <1>5. Kept(e, Tune!RCounter(e, r.R)) /\ Tune!RCounter(e, r.R).adf.modulus = e.adf.modulus
    BY <1>4, RKept
  <1> QED BY <1>2, <1>3, <1>5, KeptIsTransitive

\* A point through the mixer ends where it should.
LEMMA MixedTuned ==
  ASSUME NEW d, Sound(d), Near(d), Placed(d), config_30mhz \in Crystals,
         NEW f \in Nat, NEW if \in IntermediateFrequencies, NEW below \in BOOLEAN,
         NEW r, AskableR(r.R), r.modulus \in Nat,
         (IF r.modulus = 0 THEN d.adf.modulus ELSE r.modulus) # 0,
         Tune!Target(f, if, below) \div Tune!HarmonicOf(f) >= LowestOscillator
  PROVE  LET e == Tune!Mixed(d, f, if, below, r)
         IN /\ Sound(e) /\ Near(e) /\ Placed(e) /\ e.real["LO"] # 0
            /\ setup.narrow /\ Tune!Quiet =>
                 Tune!Within(Heard(f, e.real["LO"], e.rx.base + e.rx.offset, below,
                                   Tune!Inverted(f, if, below)) - f)
  <1> DEFINE h == Tune!HarmonicOf(f)
             inverted == Tune!Inverted(f, if, below)
             target == Tune!Target(f, if, below) \div h
             divided == Tune!Divide(d, r)
             driven == Tune!Drive(divided, Tune!ActualDrive(f))
             set == Tune!SetOscillatorIfFar(driven, target)
             wanted == if + Tune!Compensation(set, target, inverted, h)
             tuned == Tune!SetFreq(set, "RX", wanted)
  <1>1. Tune!Mixed(d, f, if, below, r) = tuned BY DEF Tune!Mixed
  <1>2. target \in Nat /\ target > config_30mhz /\ config_30mhz \in Nat
    <2>1. if \in Nat /\ LowestOscillator \in Nat /\ config_30mhz < LowestOscillator
          /\ config_30mhz \in Nat
      BY TunerAssumption
    <2>2. h \in Nat \ {0} /\ Tune!Target(f, if, below) \in Int
      BY <2>1, HarmonicCounts DEF Tune!Target
    <2> HIDE DEF h
    <2>3. target \in Int /\ target >= LowestOscillator BY <2>2 DEF h
    <2> QED BY <2>1, <2>3
  <1> HIDE DEF wanted, target
  <1>3. Kept(d, divided) /\ divided.adf.modulus # 0 BY DivideKept
  <1> HIDE DEF divided
  <1>4. Sound(divided) BY <1>3 DEF Kept
  <1>5. Kept(divided, driven) /\ driven.adf.modulus # 0
    <2>1. SameDivider(divided, driven) BY <1>4, DrivesMixer DEF Sound, Full
    <2> QED BY <1>3, <1>4, <2>1, DriveKept DEF SameDivider
  <1> HIDE DEF driven
  <1>6. Sound(driven) /\ Near(driven) /\ Placed(driven) BY <1>3, <1>5 DEF Kept
  <1>7. /\ Sound(set) /\ Near(set) /\ Placed(set) /\ set.real["LO"] # 0
        /\ \/ set.real["LO"] - target \in -config_30mhz .. config_30mhz
           \/ set.real["LO"] - target \in -MAX_COMPENSATION .. MAX_COMPENSATION
    <2> DEFINE real == driven.real["LO"]
               near == /\ target \in real - MAX_COMPENSATION .. real + MAX_COMPENSATION
                       /\ real >= MAX_COMPENSATION
    <2>1. set = IF near THEN driven ELSE Tune!SetFreq(driven, "LO", target)
      BY DEF Tune!SetOscillatorIfFar
    <2> HIDE DEF set
    <2>2. CASE near
      <3>1. set = driven BY <2>1, <2>2
      <3>2. MAX_COMPENSATION \in Nat \ {0} BY TunerAssumption
      <3>3. real \in Int BY <1>6 DEF Near
      <3>4. real # 0 /\ real - target \in -MAX_COMPENSATION .. MAX_COMPENSATION
        BY <1>2, <2>2, <3>2, <3>3
      <3> QED BY <1>6, <3>1, <3>4
    <2>3. CASE ~near
      <3> DEFINE e == Tune!SetFreq(driven, "LO", target)
      <3>1. set = e BY <2>1, <2>3
      <3>2. Kept(driven, e) /\ e.old["LO"] = target BY <1>2, <1>5, <1>6, OscillatorKept
      <3> HIDE DEF e
      <3>3. Sound(e) /\ Near(e) /\ Placed(e) BY <1>6, <3>2 DEF Kept
      <3>4. e.real["LO"] \in target - config_30mhz .. target + config_30mhz
        BY <1>2, <3>2, <3>3 DEF Near
      <3>5. e.real["LO"] # 0 /\ e.real["LO"] - target \in -config_30mhz .. config_30mhz
        BY <1>2, <3>4
      <3> QED BY <3>1, <3>3, <3>5
    <2> QED BY <2>2, <2>3
  <1> HIDE DEF set
  <1>8. set.real["LO"] \in Int BY <1>7 DEF Near
  <1>9. wanted \in Int \ {0}
    <2> DEFINE o == set.real["LO"]
    <2>1. /\ o \in Int /\ set.real["LO"] = o /\ target \in Int
          /\ \/ o - target \in -config_30mhz .. config_30mhz
             \/ o - target \in -MAX_COMPENSATION .. MAX_COMPENSATION
      BY <1>2, <1>7, <1>8
    <2> HIDE DEF o, inverted
    <2>2. if + Tune!Compensation(set, target, inverted, Tune!HarmonicOf(f)) \in Int \ {0}
      BY <2>1, ReceiverAsked
    <2> QED BY <2>2 DEF wanted
  <1>10. Kept(set, tuned) /\ tuned.old["RX"] = wanted BY <1>7, ReceiverKept
  <1>11. tuned.real["LO"] = set.real["LO"]
    BY <1>7, TunesReceiver DEF SameOscillator, Sound, Full
  <1> HIDE DEF tuned
  <1>12. Sound(tuned) /\ Near(tuned) /\ Placed(tuned) BY <1>7, <1>10 DEF Kept
  <1>13. ASSUME setup.narrow, Tune!Quiet
         PROVE  Tune!Within(Heard(f, tuned.real["LO"], tuned.rx.base + tuned.rx.offset, below,
                                  inverted) - f)
    <2>1. tuned.rx.base + tuned.rx.offset = wanted
      BY <1>9, <1>10, <1>12, <1>13 DEF Placed
    <2>2. if \in Nat BY TunerAssumption
    <2>3. Tune!Within(Heard(f, set.real["LO"], wanted, below, inverted) - f)
      BY <1>8, <1>13, <2>2, ErrorMadeUp DEF wanted, target
    <2> QED BY <1>11, <2>1, <2>3
  <1> QED BY <1>1, <1>7, <1>11, <1>12, <1>13

-----------------------------------------------------------------------------
(* The points of a sweep are tuned.                                          *)

\* What TuneInv says of the caches, and that what they hold is right; after a change they
\* are emptied before anything is tuned.
TunedInv ==
  /\ TuneInv /\ TunedToPoint
  /\ Sound(Tune!Drivers) /\ config_30mhz \in Crystals /\ AskableR(setting_R)
  /\ ~dirty => Near(Tune!Drivers) /\ Placed(Tune!Drivers)

LEMMA ChangeKeepsTuned ==
  ASSUME NEW d, Sound(d), Tune!Changed(d), TuneInv', config_30mhz' \in Crystals,
         AskableR(setting_R)'
  PROVE  TunedInv'
  <1>1. dirty' = TRUE /\ last'.path = "none" BY DEF Tune!Changed, Tune!Nothing
  <1>2. Sound(Tune!Drivers)'
    <2>1. /\ adf' = d.adf /\ chip' = d.chip /\ rx' = d.rx /\ old_freq' = d.old
          /\ real_old_freq' = d.real
      BY DEF Tune!Changed, Tune!Becomes
    <2> QED BY <2>1 DEF Tune!Drivers, Sound, Full, Shape
  <1>3. TunedToPoint' BY <1>1 DEF TunedToPoint, Tune!TunedToPoint
  <1> QED BY <1>1, <1>2, <1>3 DEF TunedInv

LEMMA PointKeepsTuned ==
  ASSUME TunedInv, NEW d, Sound(d), Near(d), Placed(d), NEW how, Tune!Tuned(d, how), TuneInv',
         TunedToPoint'
  PROVE  TunedInv'
  <1>1. /\ UNCHANGED <<config_30mhz, setting_R, setup>>
        /\ adf' = d.adf /\ chip' = d.chip /\ rx' = d.rx /\ old_freq' = d.old
        /\ real_old_freq' = d.real
    BY DEF Tune!Tuned, Tune!Becomes
  <1>2. Sound(Tune!Drivers)' BY <1>1 DEF Tune!Drivers, Sound, Full, Shape
  <1>3. Near(Tune!Drivers)' /\ Placed(Tune!Drivers)'
    BY <1>1 DEF Tune!Drivers, Near, Placed, Tune!Quiet
  <1> QED BY <1>1, <1>2, <1>3 DEF TunedInv, AskableR

LEMMA BegunKept ==
  ASSUME TunedInv
  PROVE  /\ Sound(Tune!Begun) /\ Near(Tune!Begun) /\ Placed(Tune!Begun)
         /\ Tune!Begun.adf.modulus = adf.modulus
  <1> DEFINE d == Tune!Drivers
             c == Tune!ClearCache(d)
             e == [c EXCEPT !.rx.transmits = (@ /\ setup.mode = "output")]
  <1>1. Sound(d) /\ d.adf = adf BY DEF TunedInv, Tune!Drivers
  <1>2. CASE ~dirty
    <2>1. Tune!Begun = d BY <1>2 DEF Tune!Begun
    <2> QED BY <1>1, <1>2, <2>1 DEF TunedInv
  <1>3. CASE dirty
    <2>1. Tune!Begun = e BY <1>3 DEF Tune!Begun
    <2> HIDE DEF d
    <2>2. Sound(c) /\ Near(c) /\ Placed(c) /\ c.adf.modulus = d.adf.modulus
      BY <1>1, ClearedKept DEF Kept
    <2> HIDE DEF c
    <2>3. /\ Full(e) /\ e.rx.offset = c.rx.offset /\ e.rx.active = c.rx.active
          /\ e.rx.base = c.rx.base /\ e.adf = c.adf /\ e.old = c.old /\ e.real = c.real
      BY <2>2 DEF Sound, Full, Shape, RxFields
    <2> HIDE DEF e
    <2> QED BY <1>1, <2>1, <2>2, <2>3 DEF Sound, Near, Placed
  <1> QED BY <1>2, <1>3

\* A path leaves the modulus alone.
LEMMA PathModulus ==
  ASSUME NEW d, Sound(d), NEW m
  PROVE  /\ Tune!OnPath(Tune!Modulated(d, m)).adf.modulus = d.adf.modulus
         /\ Tune!PastReceiver(Tune!Modulated(d, m)).adf.modulus = d.adf.modulus
  <1>1. Shape(d) BY DEF Sound, Full
  <1>2. Tune!OnPath(Tune!Modulated(d, m)).adf = d.adf /\ Tune!Modulated(d, m).adf = d.adf
    BY <1>1, PathsAndModulation DEF SameOscillator
  <1>3. Sound(Tune!Modulated(d, m)) BY PathKept DEF Kept
  <1> QED BY <1>2, <1>3, ClearedKept DEF Tune!PastReceiver

LEMMA MixedKeepsTuned ==
  ASSUME TunedInv, TuneInv', NEW f \in TunedPoints, NEW if \in IntermediateFrequencies,
         NEW below \in BOOLEAN, Tune!MixedPoint(f, if, below)
  PROVE  TunedInv'
  <1> DEFINE Sent(m) == Tune!OnPath(Tune!Modulated(Tune!Begun, m))
             New(r, m) == Tune!Mixed(Sent(m), f, if, below, r)
             how == [path |-> "mixed", lf |-> f, below |-> below,
                     inverted |-> Tune!Inverted(f, if, below)]
  <1>1. PICK r \in Tune!Dividers(f), m \in {-1, 1} :
          /\ Tune!CanDivide(r)
          /\ Tune!Target(f, if, below) \div Tune!HarmonicOf(f) >= LowestOscillator
          /\ Tune!Tuned(New(r, m), how)
    BY DEF Tune!MixedPoint
  <1> DEFINE sent == Sent(m)
             new == New(r, m)
             o == new.real["LO"]
             rc == new.rx.base + new.rx.offset
  <1>2. Sound(sent) /\ Near(sent) /\ Placed(sent) /\ sent.adf.modulus = adf.modulus
    BY BegunKept, PathKept, PathModulus DEF Kept
  <1>3. AskableR(r.R) /\ r.modulus \in Nat BY DividersAskable DEF TunedInv
  <1>4. (IF r.modulus = 0 THEN sent.adf.modulus ELSE r.modulus) # 0
    BY <1>1, <1>2 DEF Tune!CanDivide
  <1> HIDE DEF Sent
  <1>5. f \in Nat /\ config_30mhz \in Crystals BY TunerAssumption DEF TunedInv
  <1>6. /\ Sound(new) /\ Near(new) /\ Placed(new) /\ o # 0
        /\ setup.narrow /\ Tune!Quiet =>
             Tune!Within(Heard(f, o, rc, below, Tune!Inverted(f, if, below)) - f)
    BY <1>1, <1>2, <1>3, <1>4, <1>5, MixedTuned
  <1>7. Tune!Tuned(new, how) BY <1>1
  <1> HIDE DEF New, new, how
  <1>8. /\ UNCHANGED <<config_30mhz, setup>> /\ dirty' = FALSE /\ last' = how
        /\ chip' = new.chip /\ rx' = new.rx /\ real_old_freq' = new.real
    BY <1>7 DEF Tune!Tuned, Tune!Becomes
  <1>9. ASSUME setup.narrow, Tune!Quiet, ~setup.tracking
        PROVE  Tune!Within(Tune!Received - last.lf)'
    <2>1. Tune!Oscillator' = o
      <3>1. Known(Tune!Drivers)' BY <1>8, <1>9 DEF TuneInv, Ready
      <3>2. Tune!Output(chip, config_30mhz)' = real_old_freq'["LO"]
        BY <1>6, <1>8, <3>1 DEF Known, Tune!Drivers
      <3> QED BY <1>8, <3>2 DEF Tune!Oscillator
    <2>2. Tune!Receiver' = rc BY <1>8 DEF Tune!Receiver
    <2>3. /\ last'.lf = f /\ last'.below = below
          /\ last'.inverted = Tune!Inverted(f, if, below)
      BY <1>8 DEF how
    <2>4. Tune!Received' = Heard(f, o, rc, below, Tune!Inverted(f, if, below))
      <3> DEFINE inverted == Tune!Inverted(f, if, below)
                 osc == Tune!Oscillator
                 rec == Tune!Receiver
      <3>1. Tune!Received' = CASE ~last'.below -> Tune!HarmonicOf(last'.lf) * osc' - rec'
                               [] last'.below /\ ~last'.inverted ->
                                    rec' - Tune!HarmonicOf(last'.lf) * osc'
                               [] OTHER -> Tune!HarmonicOf(last'.lf) * osc' + rec'
        BY DEF Tune!Received, Tune!HarmonicOf
      <3> QED BY <2>1, <2>2, <2>3, <3>1, Zenon DEF Heard
    <2>5. Tune!Within(Tune!Received' - last'.lf) BY <1>6, <1>9, <2>3, <2>4
    <2> QED BY <2>5 DEF Tune!Within
  <1>10. TunedToPoint' BY <1>8, <1>9 DEF TunedToPoint, Tune!TunedToPoint, Tune!Quiet
  <1> QED BY <1>6, <1>7, <1>10, PointKeepsTuned

LEMMA DirectKeepsTuned ==
  ASSUME TunedInv, TuneInv', NEW f \in TunedPoints, Tune!DirectPoint(f)
  PROVE  TunedInv'
  <1> DEFINE Sent(m) == Tune!OnPath(Tune!Modulated(Tune!Begun, m))
             Received(m) == Tune!SetFreq(Sent(m), "RX", f)
             how == [path |-> "direct", lf |-> f]
  <1>1. PICK m \in {-1, 1} :
          Tune!Tuned(IF setup.tracking THEN Tune!SetFreq(Received(m), "LO", f) ELSE Received(m),
                     how)
    BY DEF Tune!DirectPoint
  <1> DEFINE sent == Sent(m)
             received == Received(m)
             new == IF setup.tracking THEN Tune!SetFreq(received, "LO", f) ELSE received
  <1>2. Sound(sent) /\ Near(sent) /\ Placed(sent) /\ sent.adf.modulus = adf.modulus
    BY BegunKept, PathKept, PathModulus DEF Kept
  <1> HIDE DEF Sent
  <1>3. Kept(sent, received) /\ received.adf.modulus = adf.modulus
    BY <1>2, ReceiverKept, TunesReceiver DEF Sound, Full, SameOscillator
  <1>4. Tune!Tuned(new, how) BY <1>1
  <1> HIDE DEF Received
  <1>5. Sound(received) /\ Near(received) /\ Placed(received) BY <1>2, <1>3 DEF Kept
  <1>6. Sound(new) /\ Near(new) /\ Placed(new)
    <2>1. CASE setup.tracking
      <3>1. adf.modulus # 0
        BY <2>1 DEF Tune!DirectPoint, Tune!CanDivide, Tune!Kept
      <3>2. f \in Nat /\ config_30mhz \in Crystals BY TunerAssumption DEF TunedInv
      <3>3. Kept(received, Tune!SetFreq(received, "LO", f))
        BY <1>3, <1>5, <3>1, <3>2, OscillatorKept
      <3> QED BY <1>5, <2>1, <3>3 DEF Kept
    <2>2. CASE ~setup.tracking BY <1>5, <2>2
    <2> QED BY <2>1, <2>2
  <1> HIDE DEF new
  <1>7. last' = how BY <1>4 DEF Tune!Tuned
  <1>8. TunedToPoint' BY <1>7 DEF TunedToPoint, Tune!TunedToPoint
  <1> QED BY <1>4, <1>6, <1>8, PointKeepsTuned

LEMMA LeakedKeepsTuned ==
  ASSUME TunedInv, TuneInv', NEW f \in TunedPoints, Tune!LeakedPoint(f)
  PROVE  TunedInv'
  <1> DEFINE Past(m) == Tune!PastReceiver(Tune!Modulated(Tune!Begun, m))
             told == f \div Tune!HarmonicOf(f)
             how == [path |-> "leaked", lf |-> f]
  <1>1. PICK m \in {-1, 1} : Tune!Tuned(Tune!SetFreq(Past(m), "LO", told), how)
    BY DEF Tune!LeakedPoint
  <1> DEFINE past == Past(m)
             new == Tune!SetFreq(past, "LO", told)
  <1>2. Sound(past) /\ Near(past) /\ Placed(past) /\ past.adf.modulus = adf.modulus
    BY BegunKept, PathKept, PathModulus DEF Kept
  <1>3. adf.modulus # 0 BY DEF Tune!LeakedPoint, Tune!CanDivide, Tune!Kept
  <1>4. told \in Nat /\ config_30mhz \in Crystals
    <2> DEFINE h == Tune!HarmonicOf(f)
    <2>1. h \in Nat \ {0} /\ f \in Nat BY HarmonicCounts, TunerAssumption
    <2> HIDE DEF h
    <2>2. f \div h \in Nat BY <2>1
    <2> QED BY <2>2 DEF h, TunedInv
  <1>5. Tune!Tuned(new, how) BY <1>1
  <1> HIDE DEF Past, told, how
  <1>6. Kept(past, new) BY <1>2, <1>3, <1>4, OscillatorKept
  <1> HIDE DEF past, new
  <1>7. Sound(new) /\ Near(new) /\ Placed(new) BY <1>2, <1>6 DEF Kept
  <1>8. last' = how BY <1>5 DEF Tune!Tuned
  <1>9. TunedToPoint' BY <1>8 DEF TunedToPoint, Tune!TunedToPoint, how
  <1> QED BY <1>5, <1>7, <1>9, PointKeepsTuned

LEMMA TunedInit == ASSUME Tune!Init PROVE TunedInv
  <1>1. TuneInv BY TunerInit
  <1>2. last.path = "none" /\ dirty = TRUE /\ config_30mhz \in Crystals /\ setting_R = 0
    BY DEF Tune!Init, Tune!Nothing
  <1>3. TunedToPoint BY <1>2 DEF TunedToPoint, Tune!TunedToPoint
  <1>4. AskableR(setting_R) BY <1>2, TunerAssumption DEF AskableR
  <1>5. Full(Tune!Drivers)
    <2>1. Shape(Tune!Drivers) BY <1>1 DEF TuneInv
    <2>2. Tune!Drivers.rx = rx /\ Tune!Drivers.old = old_freq BY DEF Tune!Drivers
    <2>3. RxFields \subseteq DOMAIN rx BY DEF Tune!Init, RxFields
    <2>4. {"LO", "RX"} \subseteq DOMAIN old_freq BY DEF Tune!Init, Tune!Synthesizers
    <2> QED BY <2>1, <2>2, <2>3, <2>4 DEF Full
  <1>6. adf.R = 1 /\ adf.old_R = 0 /\ adf.modulus = ModuloBottom /\ rx.offset = 0
    BY DEF Tune!Init, Tune!Boot
  <1>7. Sound(Tune!Drivers)
    <2>1. /\ Tune!Drivers.adf.R = 1 /\ Tune!Drivers.adf.old_R = setting_R
          /\ Tune!Drivers.adf.modulus = ModuloBottom
          /\ Tune!Drivers.rx.offset = 0
      BY <1>2, <1>6 DEF Tune!Drivers
    <2>2. ModuloBottom \in Nat /\ \A x \in Crystals : 1 <= x BY TunerAssumption
    <2> QED BY <1>4, <1>5, <2>1, <2>2 DEF Sound
  <1> QED BY <1>1, <1>2, <1>3, <1>4, <1>7 DEF TunedInv

LEMMA TunedStep ==
  ASSUME TunedInv, [Tune!Next]_(Tune!tunerVars)
  PROVE  TunedInv'
  <1>1. TuneInv' BY TunerStep DEF TunedInv
  <1>2. Sound(Tune!Drivers) /\ config_30mhz \in Crystals /\ AskableR(setting_R) BY DEF TunedInv
  <1>3. ASSUME NEW f \in AskedR, Tune!SetR(f) PROVE TunedInv'
    <2>1. AskableR(f) BY TunerAssumption DEF AskableR
    <2>2. Sound(Tune!RCounter(Tune!Drivers, f)) BY <1>2, <2>1, RKept DEF Kept
    <2>3. config_30mhz' \in Crystals /\ AskableR(setting_R)'
      BY <1>2, <1>3, <2>1 DEF Tune!SetR, AskableR
    <2> QED BY <1>1, <1>3, <2>2, <2>3, ChangeKeepsTuned DEF Tune!SetR
  <1>4. ASSUME NEW f \in AskedModulo, Tune!SetModulo(f) PROVE TunedInv'
    <2>1. f \in Nat BY TunerAssumption
    <2>2. Sound(Tune!Modulo(Tune!Drivers, f)) BY <1>2, <2>1, ModuloKept DEF Kept
    <2>3. Sound(Tune!ClearCache(Tune!Modulo(Tune!Drivers, f))) BY <2>2, ClearedKept DEF Kept
    <2>4. config_30mhz' \in Crystals /\ AskableR(setting_R)'
      BY <1>2, <1>4 DEF Tune!SetModulo, AskableR
    <2> QED BY <1>1, <1>4, <2>3, <2>4, ChangeKeepsTuned DEF Tune!SetModulo
  <1>5. ASSUME NEW f \in Crystals, Tune!SetActualFreq(f) PROVE TunedInv'
    <2> DEFINE d == Tune!Drivers
               e == [d EXCEPT !.adf.old_R = -1]
    <2>1. config_30mhz' \in Crystals /\ AskableR(setting_R)'
      BY <1>2, <1>5 DEF Tune!SetActualFreq, AskableR
    <2>2. Sound(d) BY <1>2
    <2>3. Tune!RecalculatePFD(d) = Tune!SendConfig(Tune!RCounter(e, d.adf.old_R))
      BY DEF Tune!RecalculatePFD
    <2> HIDE DEF d
    <2>4. /\ Full(e) /\ e.adf.R = d.adf.R /\ e.adf.modulus = d.adf.modulus
          /\ e.adf.old_R = -1 /\ e.rx = d.rx
      BY <2>2 DEF Sound, Full, Shape, AdfFields
    <2> HIDE DEF e
    <2>5. AskableR(-1) BY TunerAssumption DEF AskableR
    <2>6. Sound(e) /\ AskableR(d.adf.old_R) BY <2>2, <2>4, <2>5 DEF Sound
    <2>7. Sound(Tune!RCounter(e, d.adf.old_R)) BY <2>6, RKept DEF Kept
    <2>8. Sound(Tune!RecalculatePFD(d)) BY <2>3, <2>7, SendsKept DEF Kept
    <2> QED BY <1>1, <1>5, <2>1, <2>8, ChangeKeepsTuned DEF Tune!SetActualFreq, d
  <1>6. ASSUME NEW s \in Setups, Tune!Choose(s) PROVE TunedInv'
    <2>1. config_30mhz' \in Crystals /\ AskableR(setting_R)'
      BY <1>2, <1>6 DEF Tune!Choose, AskableR
    <2> QED BY <1>1, <1>2, <1>6, <2>1, ChangeKeepsTuned DEF Tune!Choose
  <1>7. CASE UNCHANGED Tune!tunerVars
    <2>1. TunedToPoint' = TunedToPoint
      BY <1>7, Zenon DEF Tune!tunerVars, TunedToPoint, Tune!TunedToPoint, Tune!Quiet,
                  Tune!Within, Tune!Received, Tune!Oscillator, Tune!Receiver, Tune!Output,
                  Tune!Reference
    <2>2. Sound(Tune!Drivers)'
      BY <1>2, <1>7 DEF Tune!tunerVars, Tune!Drivers, Sound, Full, Shape
    <2>3. ~dirty' => Near(Tune!Drivers)' /\ Placed(Tune!Drivers)'
      BY <1>7 DEF TunedInv, Tune!tunerVars, Tune!Drivers, Near, Placed, Tune!Quiet
    <2> QED BY <1>1, <1>7, <2>1, <2>2, <2>3 DEF TunedInv, Tune!tunerVars, AskableR
  <1>8. CASE Tune!Next
    BY <1>1, <1>3, <1>4, <1>5, <1>6, <1>8, MixedKeepsTuned, DirectKeepsTuned, LeakedKeepsTuned
    DEF Tune!Next
  <1> QED BY <1>7, <1>8

\* TunedToPoint: through every order of points, of dividers chosen for them and of changes by
\* the user, both chips together are tuned to the point (sa_core.c:4360-4660, si4468.c:533-607):
\* no cache is stale, the oscillator is near its target and the receiver makes up for the rest.
THEOREM PointsAreTuned == Tune!Spec => []TunedToPoint
  <1>1. Tune!Init => TunedInv BY TunedInit
  <1>2. TunedInv /\ [Tune!Next]_(Tune!tunerVars) => TunedInv' BY TunedStep
  <1>3. TunedInv => TunedToPoint BY DEF TunedInv
  <1> QED BY <1>1, <1>2, <1>3, PTL DEF Tune!Spec
=============================================================================
