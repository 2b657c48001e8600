--------------------------- MODULE SettingsProofs ---------------------------
(***************************************************************************)
(* Proofs about what the user sets: the sweep range and its backup registers,  *)
(* the screens, the traces and the bands.                                      *)
(***************************************************************************)
EXTENDS BackupRegisters, UserScreens, TraceMath, MultiBands, ModArithmetic

-----------------------------------------------------------------------------
(***************************************************************************)
(* The sweep range for any frequencies, ranges and numbers of points.  Every   *)
(* request but START ends the sweep inside the range it was made in, and every  *)
(* request but STOP and a span too wide begins it there; what START and STOP      *)
(* keep of the sweep before was inside, or the sweep is still marked as outdated   *)
(* or widened.                                                                     *)
(***************************************************************************)

\* In order, and below the bound on frequencies.
Ordered(s) ==
  /\ s = [start |-> s.start, stop |-> s.stop]
  /\ s.start \in Nat /\ s.stop \in Nat /\ s.start <= s.stop /\ s.stop <= MaxHz

Spread(s, points) == s.stop - s.start \in 0 .. 1 \/ s.stop - s.start >= points - 1

Sound == TypeOK /\ WithinRange
RangeInv == Sound /\ PointsApart

\* The range is one in order below the bound.
LEMMA RangeOrdered ==
  ASSUME NEW r \in Ranges
  PROVE  /\ r.min \in Nat /\ r.max \in Nat /\ r.min <= r.max /\ r.max <= MaxHz
         /\ r = [min |-> r.min, max |-> r.max] /\ MaxHz \in Nat
  BY RangeAssumption

\* The most points are the most.
LEMMA MostPoints ==
  AllPoints \in PointCounts /\ PointCounts \subseteq Nat /\ \A m \in PointCounts : m <= AllPoints
  BY RangeAssumption DEF AllPoints

\* Halves, and what is even next to a middle.
LEMMA Halves ==
  ASSUME NEW n \in Nat
  PROVE  /\ n \div 2 \in Nat /\ 2 * (n \div 2) <= n /\ n <= 2 * (n \div 2) + 1
         /\ n % 2 \in 0 .. 1
  OBVIOUS

\* force_cw stays inside the sweep and leaves one frequency, or a hertz per point.
LEMMA ForcedInside ==
  ASSUME NEW s, Ordered(s), NEW points \in Nat
  PROVE  /\ Ordered(Forced(s, points)) /\ Spread(Forced(s, points), points)
         /\ s.start <= Forced(s, points).start /\ Forced(s, points).stop <= s.stop
  <1> DEFINE d == s.stop - s.start
             h == d \div 2
             middle == (s.start + s.stop) \div 2
             even == middle + (middle % 2)
  <1>1. /\ s.start \in Nat /\ s.stop \in Nat /\ s.start <= s.stop /\ s.stop <= MaxHz
        /\ d \in Nat /\ MaxHz \in Nat
    BY RangeAssumption DEF Ordered
  <1>2. h \in Nat /\ 2 * h <= d /\ d <= 2 * h + 1 BY <1>1, Halves
  <1>3. middle \in Nat /\ 2 * middle <= s.start + s.stop /\ s.start + s.stop <= 2 * middle + 1
    BY <1>1, Halves
  <1>4. middle % 2 \in 0 .. 1 BY <1>3, Halves
  <1>5. points \div 2 \in Nat /\ points <= 2 * (points \div 2) + 1 BY Halves
  <1>6. CASE h # 0 /\ h < points \div 2
    <2>1. Forced(s, points) = [start |-> even, stop |-> even]
      BY <1>6 DEF Forced, HalfSpan
    <2> HIDE DEF middle, h, d
    <2>2. even \in Nat /\ s.start <= even /\ even <= s.stop
      <3>1. s.stop - s.start >= 2 BY <1>1, <1>2, <1>6 DEF d
      <3>2. s.start + 1 <= middle + 1 /\ middle + 1 <= s.stop BY <1>1, <1>3, <3>1
      <3> QED BY <1>1, <1>3, <1>4, <3>2
    <2> HIDE DEF even
    <2> QED BY <1>1, <2>1, <2>2 DEF Ordered, Spread
  <1>7. CASE ~(h # 0 /\ h < points \div 2)
    <2>1. Forced(s, points) = s BY <1>7 DEF Forced, HalfSpan
    <2> HIDE DEF middle, h
    <2>2. Spread(s, points) BY <1>1, <1>2, <1>5, <1>7 DEF Spread
    <2> QED BY <1>1, <2>1, <2>2
  <1> QED BY <1>6, <1>7

\* What a sweep set from sweep s owes to the range r.
Bounds(type, freq, s, r, q) ==
  /\ type # "START" \/ s.stop <= r.max => q.stop <= r.max
  /\ type \in {"START", "CENTER", "CW"} => r.min <= q.start
  /\ type = "STOP" /\ r.min <= s.start => r.min <= q.start
  /\ type = "SPAN" /\ ~TooWide(type, Bounded(type, freq, r), r) => r.min <= q.start

LEMMA BoundedFrequency ==
  ASSUME NEW r \in Ranges, NEW freq \in 0 .. MaxHz, NEW type \in Types
  PROVE  LET f == Bounded(type, freq, r)
         IN f \in Nat /\ f <= r.max /\ (type # "SPAN" => r.min <= f)
  BY RangeOrdered DEF Bounded, Smaller, Larger

LEMMA RequestedInside ==
  ASSUME NEW s, Ordered(s), NEW r \in Ranges, NEW freq \in 0 .. MaxHz, NEW type \in Types
  PROVE  LET q == Requested(type, Bounded(type, freq, r), s, r)
         IN Ordered(q) /\ Bounds(type, freq, s, r, q)
  <1> DEFINE f == Bounded(type, freq, r)
             q == Requested(type, f, s, r)
  <1>1. f \in Nat /\ f <= r.max /\ (type # "SPAN" => r.min <= f) BY BoundedFrequency
  <1>2. /\ r.min \in Nat /\ r.max \in Nat /\ r.min <= r.max /\ r.max <= MaxHz /\ MaxHz \in Nat
        /\ s.start \in Nat /\ s.stop \in Nat /\ s.start <= s.stop /\ s.stop <= MaxHz
    BY RangeOrdered DEF Ordered
  <1> HIDE DEF f
  <1>3. CASE type = "START"
    <2>1. q = [start |-> f, stop |-> Larger(s.stop, f)] BY <1>3 DEF Requested
    <2>2. Larger(s.stop, f) \in {s.stop, f} /\ Larger(s.stop, f) >= f
      BY <1>1, <1>2 DEF Larger
    <2> HIDE DEF q
    <2>3. Ordered(q) BY <1>1, <1>2, <2>1, <2>2 DEF Ordered
    <2>4. r.min <= q.start /\ (s.stop <= r.max => q.stop <= r.max)
      BY <1>1, <1>2, <1>3, <2>1, <2>2
    <2> QED BY <1>3, <2>3, <2>4 DEF Bounds, q, f
  <1>4. CASE type = "STOP"
    <2>1. q = [start |-> Smaller(s.start, f), stop |-> f] BY <1>4 DEF Requested
    <2>2. Smaller(s.start, f) \in {s.start, f} /\ Smaller(s.start, f) <= f
      BY <1>1, <1>2 DEF Smaller
    <2> HIDE DEF q
    <2>3. Ordered(q) BY <1>1, <1>2, <2>1, <2>2 DEF Ordered
    <2>4. q.stop <= r.max /\ (r.min <= s.start => r.min <= q.start)
      BY <1>1, <1>2, <1>4, <2>1, <2>2
    <2> QED BY <1>4, <2>3, <2>4 DEF Bounds, q, f
  <1>5. CASE type = "CW"
    <2>1. q = [start |-> f, stop |-> f] BY <1>5 DEF Requested
    <2> HIDE DEF q
    <2>2. Ordered(q) BY <1>1, <1>2, <2>1 DEF Ordered
    <2>3. r.min <= q.start /\ q.stop <= r.max BY <1>1, <1>5, <2>1
    <2> QED BY <1>5, <2>2, <2>3 DEF Bounds, q, f
  <1>6. CASE type = "CENTER"
    <2> DEFINE fit == Fitting(f, HalfSpan(s), r)
    <2>1. q = Around(f, fit) BY <1>6 DEF Requested
    <2>2. HalfSpan(s) \in Nat BY <1>2, Halves DEF HalfSpan
    <2>3. fit \in Nat /\ fit <= f - r.min /\ fit <= r.max - f
      BY <1>1, <1>2, <1>6, <2>2 DEF Fitting
    <2> HIDE DEF fit
    <2>4. q = [start |-> f - fit, stop |-> f + fit] BY <2>1 DEF Around
    <2> HIDE DEF q
    <2>5. Ordered(q) BY <1>1, <1>2, <2>3, <2>4 DEF Ordered
    <2>6. r.min <= q.start /\ q.stop <= r.max BY <1>1, <1>2, <2>3, <2>4
    <2> QED BY <1>6, <2>5, <2>6 DEF Bounds, q, f
  <1>7. CASE type = "SPAN"
    <2> DEFINE half == f \div 2
               center == Smaller(Larger(Center(s), r.min + half), r.max - half)
    <2>1. q = Around(center, half) BY <1>7 DEF Requested
    <2>2. half \in Nat /\ 2 * half <= f BY <1>1, Halves
    <2>3. Center(s) \in Nat BY <1>2, Halves DEF Center
    <2>4. TooWide(type, f, r) <=> 2 * half > r.max - r.min BY <1>7 DEF TooWide
    <2> HIDE DEF half
    <2>5. /\ center \in Nat /\ half <= center /\ center <= r.max - half
          /\ 2 * half <= r.max - r.min => r.min + half <= center
      BY <1>1, <1>2, <2>2, <2>3 DEF Smaller, Larger
    <2> HIDE DEF center
    <2>6. q.start = center - half /\ q.stop = center + half
          /\ q = [start |-> q.start, stop |-> q.stop]
      BY <2>1 DEF Around
    <2>7. Ordered(q) BY <1>2, <2>2, <2>5, <2>6 DEF Ordered
    <2>8. q.stop <= r.max BY <1>2, <2>2, <2>5, <2>6
    <2>9. ~TooWide(type, f, r) => r.min <= q.start BY <1>2, <2>2, <2>4, <2>5, <2>6
    <2> QED BY <1>7, <2>7, <2>8, <2>9 DEF Bounds, f
  <1> QED BY <1>3, <1>4, <1>5, <1>6, <1>7 DEF Types, f

\* All of set_sweep_frequency.
LEMMA SetInside ==
  ASSUME NEW s, Ordered(s), NEW r \in Ranges, NEW freq \in 0 .. MaxHz, NEW type \in Types,
         NEW points \in Nat
  PROVE  LET q == Set(type, freq, s, r, points)
         IN Ordered(q) /\ Bounds(type, freq, s, r, q) /\ Spread(q, points)
  <1> DEFINE asked == Requested(type, Bounded(type, freq, r), s, r)
             q == Forced(asked, points)
  <1>1. Ordered(asked) /\ Bounds(type, freq, s, r, asked) BY RequestedInside
  <1> HIDE DEF asked
  <1>2. Ordered(q) /\ Spread(q, points) /\ asked.start <= q.start /\ q.stop <= asked.stop
    BY <1>1, ForcedInside
  <1> HIDE DEF q
  <1>3. r.min \in Nat /\ r.max \in Nat BY RangeOrdered
  <1>4. /\ asked.stop <= r.max => q.stop <= r.max
        /\ r.min <= asked.start => r.min <= q.start
    BY <1>1, <1>2, <1>3 DEF Ordered
  <1>5. Bounds(type, freq, s, r, q) BY <1>1, <1>4 DEF Bounds
  <1> QED BY <1>2, <1>5 DEF Set, q, asked

\* The part of the invariant that is about frequencies.
LEMMA PresentOrdered ==
  ASSUME Sound
  PROVE  Ordered(Present) /\ ModeRange \in Ranges /\ sweep_points \in Nat
  BY MostPoints, RangeAssumption DEF Sound, TypeOK, WithinRange, Present, Sweeps, Ordered

LEMMA RangeInit == Init => RangeInv
  <1> SUFFICES ASSUME Init PROVE RangeInv OBVIOUS
  <1>1. PICK r \in Ranges : minFreq = r.min /\ maxFreq = r.max BY DEF Init
  <1>2. /\ r.min \in Nat /\ r.max \in Nat /\ r.min <= r.max /\ r.max <= MaxHz /\ MaxHz \in Nat
        /\ ModeRange = r
    BY <1>1, RangeOrdered DEF ModeRange
  <1>3. TypeOK
    <2>1. Present \in Sweeps BY <1>1, <1>2 DEF Init, Present, Sweeps
    <2>2. refined \in BOOLEAN BY DEF Init
    <2> QED BY <1>2, <2>1, <2>2, MostPoints DEF Init, TypeOK
  <1>4. WithinRange BY <1>1, <1>2 DEF Init, WithinRange
  <1>5. PointsApart
    <2> SUFFICES ASSUME ~refined PROVE frequency1 - frequency0 >= sweep_points - 1
      BY DEF PointsApart
    <2>1. ~(frequency1 - frequency0 < sweep_points - 1) BY Zenon DEF Init
    <2> QED BY <1>1, <1>2, <2>1, MostPoints DEF Init
  <1> QED BY <1>3, <1>4, <1>5 DEF RangeInv, Sound

LEMMA RequestKeeps ==
  ASSUME Sound, NEW type \in Types, NEW freq \in 0 .. MaxHz, SetSweepFrequency(type, freq)
  PROVE  RangeInv'
  <1> DEFINE q == Set(type, freq, Present, ModeRange, sweep_points)
  <1>1. /\ Ordered(q) /\ Bounds(type, freq, Present, ModeRange, q) /\ Spread(q, sweep_points)
    BY PresentOrdered, SetInside
  <1>2. /\ frequency0' = q.start /\ frequency1' = q.stop
        /\ UNCHANGED <<minFreq, maxFreq, sweep_points>>
    BY DEF SetSweepFrequency, Becomes
  <1>3. /\ outdated' = (outdated /\ type \in {"START", "STOP"})
        /\ widened' = IF type = "SPAN"
                      THEN TooWide(type, Bounded(type, freq, ModeRange), ModeRange)
                      ELSE widened /\ type = "STOP"
        /\ refined' = FALSE
    BY DEF SetSweepFrequency
  <1> HIDE DEF q
  <1>4. TypeOK'
    <2>1. Present' \in Sweeps BY <1>1, <1>2, RangeAssumption DEF Present, Sweeps, Ordered
    <2>2. outdated' \in BOOLEAN /\ widened' \in BOOLEAN /\ refined' \in BOOLEAN
      BY <1>3 DEF Sound, TypeOK, TooWide
    <2> QED BY <1>2, <2>1, <2>2 DEF Sound, TypeOK, ModeRange
  <1>5. WithinRange'
    <2>1. ModeRange.min = minFreq /\ ModeRange.max = maxFreq
          /\ Present.start = frequency0 /\ Present.stop = frequency1
      BY DEF ModeRange, Present
    <2>2. frequency0' <= frequency1' BY <1>1, <1>2 DEF Ordered
    <2>3. ~outdated' => frequency1' <= maxFreq'
      BY <1>1, <1>2, <1>3, <2>1 DEF Sound, WithinRange, Bounds
    <2>4. ~outdated' /\ ~widened' => minFreq' <= frequency0'
      BY <1>1, <1>2, <1>3, <2>1 DEF Sound, WithinRange, Bounds, Types
    <2> QED BY <2>2, <2>3, <2>4 DEF WithinRange
  <1>6. PointsApart' BY <1>1, <1>2 DEF PointsApart, Spread
  <1> QED BY <1>4, <1>5, <1>6 DEF RangeInv, Sound

\* Both ways of reset_settings end inside the new range, for whatever sweep was before.
Inside(q, r, points) ==
  Ordered(q) /\ Spread(q, points) /\ q.stop <= r.max /\ r.min <= q.start

LEMMA FromWholeInside ==
  ASSUME NEW s, Ordered(s), NEW r \in Ranges, NEW top \in 0 .. MaxHz, NEW points \in Nat
  PROVE  Inside(FromWhole(r, top, s, points), r, points)
  <1> DEFINE begun == Set("START", r.min, s, r, points)
             entire == Set("STOP", r.max, begun, r, points)
             q == Set("STOP", top, entire, r, points)
  <1>1. r.min \in 0 .. MaxHz /\ r.max \in 0 .. MaxHz BY RangeOrdered
  <1>2. Ordered(begun) /\ Bounds("START", r.min, s, r, begun) BY <1>1, SetInside DEF Types
  <1>3. r.min <= begun.start BY <1>2 DEF Bounds
  <1> HIDE DEF begun
  <1>4. Ordered(entire) /\ Bounds("STOP", r.max, begun, r, entire)
    BY <1>1, <1>2, SetInside DEF Types
  <1>5. r.min <= entire.start BY <1>3, <1>4 DEF Bounds
  <1> HIDE DEF entire
  <1>6. Ordered(q) /\ Bounds("STOP", top, entire, r, q) /\ Spread(q, points)
    BY <1>4, SetInside DEF Types
  <1>7. r.min <= q.start /\ q.stop <= r.max BY <1>5, <1>6 DEF Bounds
  <1>8. FromWhole(r, top, s, points) = q BY DEF FromWhole, entire, begun
  <1> QED BY <1>6, <1>7, <1>8 DEF Inside

LEMMA AtOneInside ==
  ASSUME NEW s, Ordered(s), NEW r \in Ranges, NEW top \in 0 .. MaxHz, NEW points \in Nat
  PROVE  Inside(AtOne(r, top, s, points), r, points)
  <1> DEFINE middle == Set("CENTER", top, s, r, points)
             q == Set("SPAN", 0, middle, r, points)
  <1>1. Ordered(middle) BY SetInside DEF Types
  <1>2. r.min \in Nat /\ r.max \in Nat /\ r.min <= r.max /\ 0 \in 0 .. MaxHz BY RangeOrdered
  <1> HIDE DEF middle
  <1>3. Ordered(q) /\ Bounds("SPAN", 0, middle, r, q) /\ Spread(q, points)
    <2>1. "SPAN" \in Types BY DEF Types
    <2> QED BY <1>1, <1>2, <2>1, SetInside, Zenon
  <1>4. ~TooWide("SPAN", Bounded("SPAN", 0, r), r)
    <2>1. Bounded("SPAN", 0, r) = 0 BY <1>2 DEF Bounded, Smaller
    <2> QED BY <1>2, <2>1 DEF TooWide
  <1>5. r.min <= q.start /\ q.stop <= r.max BY <1>3, <1>4 DEF Bounds
  <1>6. AtOne(r, top, s, points) = q BY DEF AtOne, middle
  <1> QED BY <1>3, <1>5, <1>6 DEF Inside

LEMMA ResetKeeps ==
  ASSUME Sound, NEW r \in Ranges, NEW top \in 0 .. MaxHz, Reset(r, top)
  PROVE  RangeInv'
  <1>1. Ordered(Present) /\ sweep_points \in Nat BY PresentOrdered
  <1>2. /\ r.min \in 0 .. MaxHz /\ r.max \in 0 .. MaxHz /\ r.min <= r.max
        /\ r.max \in Nat /\ r.min \in Nat
        /\ r = [min |-> r.min, max |-> r.max] /\ MaxHz \in Nat
    BY RangeOrdered
  <1>3. \E q : Inside(q, r, sweep_points) /\ Becomes(q)
    <2>1. CASE Becomes(FromWhole(r, top, Present, sweep_points))
      BY <1>1, <2>1, FromWholeInside
    <2>2. CASE Becomes(AtOne(r, top, Present, sweep_points))
      BY <1>1, <2>2, AtOneInside
    <2> QED BY <2>1, <2>2 DEF Reset
  <1>4. PICK q : /\ Ordered(q) /\ Spread(q, sweep_points)
                 /\ q.stop <= r.max /\ r.min <= q.start /\ Becomes(q)
    BY <1>3 DEF Inside
  <1>5. /\ minFreq' = r.min /\ maxFreq' = r.max /\ sweep_points' = AllPoints
        /\ outdated' = FALSE /\ widened' = FALSE /\ refined' = (sweep_points' > sweep_points)
    BY DEF Reset, Moves
  <1>6. frequency0' = q.start /\ frequency1' = q.stop BY <1>4 DEF Becomes
  <1>7. TypeOK'
    <2>1. Present' \in Sweeps BY <1>4, <1>6, <1>2 DEF Present, Sweeps, Ordered
    <2>2. refined' \in BOOLEAN
      <3>1. (sweep_points' > sweep_points) \in BOOLEAN OBVIOUS
      <3> QED BY <1>5, <3>1, Zenon
    <2>3. ModeRange' \in Ranges BY <1>2, <1>5 DEF ModeRange
    <2> QED BY <1>5, <2>1, <2>2, <2>3, MostPoints DEF TypeOK
  <1>8. WithinRange' BY <1>4, <1>5, <1>6 DEF WithinRange, Ordered
  <1>9. PointsApart'
    <2> SUFFICES ASSUME ~refined' PROVE Spread(q, sweep_points')
      BY <1>6 DEF PointsApart, Spread
    <2>1. ~(AllPoints > sweep_points) BY <1>5, Zenon
    <2>2. AllPoints = sweep_points BY <2>1, MostPoints DEF Sound, TypeOK
    <2> QED BY <1>4, <1>5, <2>2
  <1> QED BY <1>7, <1>8, <1>9 DEF RangeInv, Sound

LEMMA MoveSound == Sound /\ MoveRange => Sound'
  <1> SUFFICES ASSUME Sound, MoveRange PROVE Sound' OBVIOUS
  <1>1. PICK r \in Ranges : Moves(r) BY DEF MoveRange
  <1>2. r = [min |-> r.min, max |-> r.max] BY RangeOrdered
  <1>3. TypeOK' BY <1>1, <1>2 DEF Sound, TypeOK, MoveRange, Moves, ModeRange, Present
  <1>4. WithinRange' BY DEF Sound, WithinRange, MoveRange
  <1> QED BY <1>3, <1>4 DEF Sound

LEMMA MoveKeeps == RangeInv /\ MoveRange => RangeInv'
  BY MoveSound DEF RangeInv, PointsApart, MoveRange

LEMMA MixerKeeps == Sound /\ MixerOff => RangeInv'
  <1> SUFFICES ASSUME Sound, MixerOff PROVE RangeInv' OBVIOUS
  <1> DEFINE q(r) == Set("CENTER", Center(Present), Present, r, sweep_points)
  <1>1. PICK r \in Ranges : Moves(r) /\ Becomes(q(r)) BY DEF MixerOff
  <1>2. r = [min |-> r.min, max |-> r.max] /\ MaxHz \in Nat BY RangeOrdered
  <1>3. Center(Present) \in 0 .. MaxHz
    <2>1. /\ Present.start \in Nat /\ Present.stop \in Nat /\ Present.start <= Present.stop
          /\ Present.stop <= MaxHz
      BY PresentOrdered DEF Ordered
    <2>2. /\ Present.start \div 2 \in Nat /\ 2 * (Present.start \div 2) <= Present.start
          /\ Present.stop \div 2 \in Nat /\ 2 * (Present.stop \div 2) <= Present.stop
      BY <2>1, Halves
    <2> QED BY <1>2, <2>1, <2>2 DEF Center
  <1>4. /\ Ordered(q(r)) /\ Bounds("CENTER", Center(Present), Present, r, q(r))
        /\ Spread(q(r), sweep_points)
    BY <1>3, PresentOrdered, SetInside DEF Types
  <1> HIDE DEF q
  <1>5. /\ minFreq' = r.min /\ maxFreq' = r.max
        /\ frequency0' = q(r).start /\ frequency1' = q(r).stop
        /\ outdated' = FALSE /\ widened' = FALSE /\ refined' = FALSE
        /\ sweep_points' = sweep_points
    BY <1>1 DEF MixerOff, Moves, Becomes
  <1>6. TypeOK'
    <2>1. Present' \in Sweeps BY <1>2, <1>4, <1>5 DEF Present, Sweeps, Ordered
    <2> QED BY <1>2, <1>5, <2>1 DEF Sound, TypeOK, ModeRange
  <1>7. WithinRange' BY <1>4, <1>5 DEF WithinRange, Ordered, Bounds
  <1>8. PointsApart' BY <1>4, <1>5 DEF PointsApart, Spread
  <1> QED BY <1>6, <1>7, <1>8 DEF RangeInv, Sound

\* More points than before are marked, fewer are further apart.
LEMMA PointsKeep ==
  ASSUME RangeInv, NEW points \in PointCounts, SetSweepPoints(points)
  PROVE  RangeInv'
  <1>1. /\ sweep_points' = points /\ refined' = (refined \/ points > sweep_points)
        /\ UNCHANGED <<minFreq, maxFreq, frequency0, frequency1, outdated, widened>>
    BY DEF SetSweepPoints
  <1>2. TypeOK'
    <2>1. refined' \in BOOLEAN BY <1>1
    <2> QED BY <1>1, <2>1 DEF RangeInv, Sound, TypeOK, ModeRange, Present
  <1>3. WithinRange' BY <1>1 DEF RangeInv, Sound, WithinRange
  <1>4. PointsApart'
    <2> SUFFICES ASSUME ~refined'
                 PROVE  \/ frequency1 - frequency0 \in 0 .. 1
                        \/ frequency1 - frequency0 >= points - 1
      BY <1>1 DEF PointsApart
    <2>1. ~refined /\ ~(points > sweep_points) BY <1>1, Zenon
    <2>2. /\ sweep_points \in Nat /\ points \in Nat /\ frequency0 \in Nat /\ frequency1 \in Nat
      BY PresentOrdered, MostPoints DEF RangeInv, Ordered, Present
    <2> QED BY <2>1, <2>2 DEF RangeInv, Sound, PointsApart
  <1> QED BY <1>2, <1>3, <1>4 DEF RangeInv, Sound

LEMMA RangeStep == RangeInv /\ [Next]_rangeVars => RangeInv'
  <1> SUFFICES ASSUME RangeInv, [Next]_rangeVars PROVE RangeInv' OBVIOUS
  <1>1. CASE UNCHANGED rangeVars
    BY <1>1 DEF RangeInv, Sound, TypeOK, WithinRange, PointsApart, ModeRange, Present, rangeVars
  <1>2. CASE SetMode BY <1>2, ResetKeeps DEF SetMode, RangeInv
  <1>3. CASE \E type \in Types, freq \in 0 .. MaxHz : SetSweepFrequency(type, freq)
    BY <1>3, RequestKeeps DEF RangeInv
  <1>4. CASE MoveRange BY <1>4, MoveKeeps
  <1>5. CASE MixerOff BY <1>5, MixerKeeps DEF RangeInv
  <1>6. CASE \E points \in PointCounts : SetSweepPoints(points) BY <1>6, PointsKeep
  <1> QED BY <1>1, <1>2, <1>3, <1>4, <1>5, <1>6 DEF Next

LEMMA RangeInvariant == Spec => []RangeInv
  BY RangeInit, RangeStep, PTL DEF Spec

\* Start and stop stay in order and in the range they were set in (main.c:1856, 1941).
THEOREM AlwaysWithinRange == Spec => []WithinRange
  <1>1. RangeInv => WithinRange BY DEF RangeInv, Sound
  <1> QED BY <1>1, RangeInvariant, PTL

\* A sweep has one frequency, a span of one hertz, or a hertz per step (main.c:1906).
THEOREM AlwaysPointsApart == Spec => []PointsApart
  <1>1. RangeInv => PointsApart BY DEF RangeInv, Sound
  <1> QED BY <1>1, RangeInvariant, PTL

-----------------------------------------------------------------------------
(***************************************************************************)
(* The backup registers, for any modes, presets, points and way of joining words  *)
(* in a checksum.  Registers with all words of one image hold a sweep in order, and  *)
(* of such a sweep, where it lies in the range that the mode then has, the requests   *)
(* of main make the same again from the sweep that a preset or set_mode has left.      *)
(***************************************************************************)

\* Words of registers, of one image or of two; and those of one image.
Words(b) ==
  /\ DOMAIN b = {"f0", "f1", "mode", "sum"}
  /\ b.f0 \in 0 .. MaxHz /\ b.f1 \in 0 .. MaxHz
WordsOfOne(b) == Words(b) /\ b.f0 <= b.f1

\* What the copy has reached.
CopyInv ==
  /\ copied \in 0 .. WordCount
  /\ Words(registers) /\ (whole => WordsOfOne(registers))
  /\ copied < WordCount => WordsOfOne(image)
  /\ copied \in {1, 2} => registers.f0 = image.f0
  /\ copied = 2 => registers.f1 = image.f1

BackupInv == Sound /\ CopyInv /\ RestoredSweep

\* Wide enough sweeps, and single frequencies, are not forced.
LEMMA NotForced ==
  ASSUME NEW s, Ordered(s), NEW points \in Nat,
         s.stop = s.start \/ s.stop - s.start >= points
  PROVE  Forced(s, points) = s
  <1>1. /\ s.start \in Nat /\ s.stop \in Nat /\ s.start <= s.stop BY DEF Ordered
  <1>2. CASE s.stop = s.start
    <2>1. HalfSpan(s) = 0 BY <1>1, <1>2 DEF HalfSpan
    <2> QED BY <2>1 DEF Forced
  <1>3. CASE s.stop - s.start >= points
    <2>1. /\ points \div 2 \in Nat /\ 2 * (points \div 2) <= points
          /\ HalfSpan(s) \in Nat /\ s.stop - s.start <= 2 * HalfSpan(s) + 1
      BY <1>1, Halves DEF HalfSpan
    <2>2. ~(HalfSpan(s) < points \div 2) BY <1>1, <1>3, <2>1
    <2> QED BY <2>2 DEF Forced
  <1> QED BY <1>2, <1>3

\* Taken over are sweeps of the range, also from words of two images.
LEMMA TakenInside ==
  ASSUME NEW b, Words(b), NEW s, Ordered(s), NEW points \in Nat, NEW r \in Ranges
  PROVE  LET q == TakenOver(b, s, points, r)
         IN /\ Ordered(q) /\ q.stop <= r.max
            /\ ~(b.mode \in Outputs /\ TooWide("SPAN", Bounded("SPAN", RestoredSpan(b), r), r))
                 => r.min <= q.start
  <1> DEFINE q == TakenOver(b, s, points, r)
             begun == Set("START", b.f0, s, r, points)
             cw == Set("CW", (b.f0 + b.f1) \div 2, s, r, points)
  <1>1. b.f0 \in 0 .. MaxHz /\ b.f1 \in 0 .. MaxHz /\ MaxHz \in Nat
    BY RangeAssumption DEF Words
  <1>2. CASE b.mode \in Outputs
    <2>1. q = Set("SPAN", RestoredSpan(b), cw, r, points) BY <1>2 DEF TakenOver
    <2>2. (b.f0 + b.f1) \div 2 \in 0 .. MaxHz BY <1>1
    <2>3. Ordered(cw) BY <2>2, SetInside DEF Types
    <2> HIDE DEF cw, q
    <2>4. RestoredSpan(b) \in 0 .. MaxHz BY <1>1 DEF RestoredSpan
    <2>5. Ordered(q) /\ Bounds("SPAN", RestoredSpan(b), cw, r, q)
      BY <2>1, <2>3, <2>4, SetInside DEF Types
    <2>6. Ordered(q) /\ q.stop <= r.max
          /\ (~TooWide("SPAN", Bounded("SPAN", RestoredSpan(b), r), r) => r.min <= q.start)
      BY <2>5 DEF Bounds
    <2> QED BY <1>2, <2>6 DEF q
  <1>3. CASE b.mode \notin Outputs
    <2>1. q = Set("STOP", b.f1, begun, r, points) BY <1>3 DEF TakenOver
    <2>2. Ordered(begun) /\ Bounds("START", b.f0, s, r, begun) BY <1>1, SetInside DEF Types
    <2> HIDE DEF begun, q
    <2>3. Ordered(q) /\ Bounds("STOP", b.f1, begun, r, q)
      BY <1>1, <2>1, <2>2, SetInside DEF Types
    <2>4. Ordered(q) /\ q.stop <= r.max /\ r.min <= q.start BY <2>2, <2>3 DEF Bounds
    <2> QED BY <2>4 DEF q
  <1> QED BY <1>2, <1>3

\* In an input mode START and STOP make the sweep again.
LEMMA RestoresInput ==
  ASSUME NEW b, WordsOfOne(b), b.mode \notin Outputs,
         NEW s, Ordered(s), NEW points \in Nat, NEW r \in Ranges,
         r.min <= b.f0, b.f1 <= r.max,
         b.f0 = b.f1 \/ b.f1 - b.f0 > points,
         b.f0 \notin s.stop - points .. s.stop - 1
  PROVE  TakenOver(b, s, points, r) = [start |-> b.f0, stop |-> b.f1]
  <1> DEFINE end == Larger(s.stop, b.f0)
             begun == [start |-> b.f0, stop |-> end]
             sweep == [start |-> b.f0, stop |-> b.f1]
  <1>1. /\ b.f0 \in Nat /\ b.f1 \in Nat /\ b.f0 <= b.f1 /\ s.stop \in Nat /\ s.stop <= MaxHz
        /\ r.min \in Nat /\ r.max \in Nat /\ r.max <= MaxHz /\ MaxHz \in Nat
    BY RangeOrdered DEF WordsOfOne, Words, Ordered
  <1>2. end \in Nat /\ end <= MaxHz /\ b.f0 <= end /\ (end = b.f0 \/ end - b.f0 >= points)
    BY <1>1 DEF Larger
  <1>3. Ordered(sweep) BY <1>1 DEF Ordered
  <1>4. Set("START", b.f0, s, r, points) = begun
    <2>1. Bounded("START", b.f0, r) = b.f0 BY <1>1 DEF Bounded, Smaller, Larger
    <2>2. Requested("START", b.f0, s, r) = begun BY DEF Requested
    <2> HIDE DEF end
    <2>3. Ordered(begun) BY <1>1, <1>2 DEF Ordered
    <2>4. Forced(begun, points) = begun BY <1>1, <1>2, <2>3, NotForced
    <2> QED BY <2>1, <2>2, <2>4 DEF Set
  <1>5. Set("STOP", b.f1, begun, r, points) = sweep
    <2>1. Bounded("STOP", b.f1, r) = b.f1 BY <1>1 DEF Bounded, Smaller, Larger
    <2>2. Requested("STOP", b.f1, begun, r) = sweep BY <1>1 DEF Requested, Smaller
    <2>3. Forced(sweep, points) = sweep BY <1>1, <1>3, NotForced
    <2> QED BY <2>1, <2>2, <2>3 DEF Set
  <1> QED BY <1>4, <1>5 DEF TakenOver

\* In an output mode the halves of a center and of a span lose a hertz each.
LEMMA RestoresOutput ==
  ASSUME NEW b, WordsOfOne(b), b.mode \in Outputs,
         NEW s, Ordered(s), NEW points \in Nat, NEW r \in Ranges,
         r.min <= b.f0, b.f1 <= r.max,
         b.f0 = b.f1 \/ b.f1 - b.f0 > points
  PROVE  LET q == TakenOver(b, s, points, r)
         IN q.start \in b.f0 - 1 .. b.f0 /\ q.stop \in b.f1 - 2 .. b.f1
  <1> DEFINE mid == (b.f0 + b.f1) \div 2
             cw == [start |-> mid, stop |-> mid]
             span == b.f1 - b.f0
             half == span \div 2
             quarter == mid \div 2
             center == Smaller(Larger(quarter + quarter, r.min + half), r.max - half)
             sweep == [start |-> center - half, stop |-> center + half]
  <1>1. /\ b.f0 \in Nat /\ b.f1 \in Nat /\ b.f0 <= b.f1
        /\ r.min \in Nat /\ r.max \in Nat /\ r.max <= MaxHz /\ MaxHz \in Nat
        /\ span \in Nat /\ (span = 0 \/ span > points) /\ span <= r.max
    BY RangeOrdered DEF WordsOfOne, Words
  <1>2. mid \in Nat /\ 2 * mid <= b.f0 + b.f1 /\ b.f0 + b.f1 <= 2 * mid + 1 BY <1>1, Halves
  <1>3. half \in Nat /\ 2 * half <= span /\ span <= 2 * half + 1 BY <1>1, Halves
  <1>4. quarter \in Nat /\ 2 * quarter <= mid /\ mid <= 2 * quarter + 1 BY <1>2, Halves
  <1>5. center = Smaller(Larger(quarter + quarter, r.min + half), r.max - half) OBVIOUS
  <1> HIDE DEF quarter, half, center
  <1>6. b.f0 + half = mid
    <2>1. b.f1 = b.f0 + span BY <1>1
    <2> HIDE DEF mid, span
    <2> QED BY <1>1, <1>2, <1>3, <2>1
  <1>7. /\ center \in Nat /\ center \in b.f0 + half - 1 .. b.f0 + half /\ half <= center
        /\ center + half <= r.max
    BY <1>1, <1>2, <1>3, <1>4, <1>5, <1>6 DEF Smaller, Larger
  <1>8. Set("CW", mid, s, r, points) = cw
    <2>1. b.f0 <= mid /\ mid <= b.f1 BY <1>1, <1>2
    <2> HIDE DEF mid
    <2>2. Bounded("CW", mid, r) = mid BY <1>1, <1>2, <2>1 DEF Bounded, Smaller, Larger
    <2>3. Requested("CW", mid, s, r) = cw BY DEF Requested
    <2>4. Ordered(cw) BY <1>1, <1>2, <2>1 DEF Ordered
    <2>5. Forced(cw, points) = cw BY <2>4, NotForced
    <2> QED BY <2>2, <2>3, <2>5 DEF Set
  <1>9. Set("SPAN", span, cw, r, points) = sweep
    <2>1. Bounded("SPAN", span, r) = span BY <1>1 DEF Bounded, Smaller
    <2>2. Requested("SPAN", span, cw, r) = sweep
      BY DEF Requested, Around, Center, half, center, quarter
    <2>3. Ordered(sweep) BY <1>1, <1>3, <1>7 DEF Ordered
    <2>4. sweep.stop = sweep.start \/ sweep.stop - sweep.start >= points
      BY <1>1, <1>3, <1>7
    <2>5. Forced(sweep, points) = sweep BY <2>3, <2>4, NotForced
    <2> QED BY <2>1, <2>2, <2>5 DEF Set
  <1>10. RestoredSpan(b) = span BY <1>1 DEF RestoredSpan
  <1>11. TakenOver(b, s, points, r) = sweep BY <1>8, <1>9, <1>10 DEF TakenOver
  <1> HIDE DEF mid
  <1>12. sweep.start \in b.f0 - 1 .. b.f0 /\ sweep.stop \in b.f1 - 2 .. b.f1
    BY <1>1, <1>3, <1>7
  <1> QED BY <1>11, <1>12

\* What main starts with, and what set_mode makes of it, has a sweep in order and a range
\* of its mode.
Starting(p, m) ==
  /\ m \in SettingModes /\ p.range \in ModeRanges[m] /\ p.range \in Ranges
  /\ Ordered(p.sweep) /\ p.points \in PointCounts

LEMMA RangeOfMode ==
  ASSUME NEW m \in SettingModes, NEW r \in ModeRanges[m]
  PROVE  r \in Ranges /\ ModeTop[m] \in 0 .. MaxHz
  BY BackupAssumption

LEMMA BegunOrdered ==
  ASSUME NEW m \in SettingModes, NEW r \in ModeRanges[m], NEW s, Ordered(s), NEW points \in Nat
  PROVE  Ordered(Begun(m, r, s, points))
  BY RangeOfMode, FromWholeInside, AtOneInside DEF Begun, Inside

LEMMA ResetStarting ==
  ASSUME NEW m \in SettingModes, NEW s, Ordered(s), NEW points \in Nat,
         NEW p \in ResetTo(m, s, points)
  PROVE  Starting(p, m)
  <1>1. PICK r \in ModeRanges[m] :
          p = [mode |-> m, range |-> r, sweep |-> Begun(m, r, s, points), points |-> AllPoints]
    BY DEF ResetTo
  <1>2. Ordered(Begun(m, r, s, points)) BY BegunOrdered
  <1> QED BY <1>1, <1>2, RangeOfMode, MostPoints DEF Starting

LEMMA StartupStarting ==
  ASSUME NEW p \in Startups
  PROVE  Starting(p, p.mode)
  <1>1. CASE p \in Presets
    <2>1. /\ p.mode \in SettingModes /\ p.range \in Ranges /\ p.points \in PointCounts
          /\ p.range \in ModeRanges[p.mode]
          /\ p.sweep \in Sweeps /\ p.sweep.start <= p.sweep.stop
      BY <1>1, BackupAssumption DEF Settings
    <2>2. Ordered(p.sweep) BY <2>1, RangeAssumption DEF Sweeps, Ordered
    <2> QED BY <2>1, <2>2 DEF Starting
  <1>2. CASE p \in ResetTo(FirstMode, [start |-> 0, stop |-> 0], AllPoints)
    <2>1. Ordered([start |-> 0, stop |-> 0]) BY RangeAssumption DEF Ordered
    <2>2. FirstMode \in SettingModes /\ AllPoints \in Nat BY BackupAssumption, MostPoints
    <2>3. Starting(p, FirstMode) BY <1>2, <2>1, <2>2, ResetStarting
    <2>4. p.mode = FirstMode BY <1>2 DEF ResetTo
    <2> QED BY <2>3, <2>4
  <1> QED BY <1>1, <1>2 DEF Startups

LEMMA SetModeStarting ==
  ASSUME NEW first \in Startups, NEW m \in SettingModes, NEW p \in AfterSetMode(first, m)
  PROVE  Starting(p, m)
  <1>1. Starting(first, first.mode) BY StartupStarting
  <1>2. first.points \in Nat BY <1>1, MostPoints DEF Starting
  <1>3. CASE m = first.mode BY <1>1, <1>3 DEF AfterSetMode
  <1>4. CASE m # first.mode
    <2>1. p \in ResetTo(m, first.sweep, first.points) BY <1>4 DEF AfterSetMode
    <2> QED BY <1>1, <1>2, <2>1, ResetStarting DEF Starting
  <1> QED BY <1>3, <1>4

LEMMA ClearedWords == Words(Cleared)
  BY RangeAssumption DEF Words, Cleared

LEMMA BackupInitially == BackupInit => BackupInv
  <1> SUFFICES ASSUME BackupInit PROVE BackupInv OBVIOUS
  <1>1. Sound BY RangeInit DEF BackupInit, RangeInv
  <1>2. CopyInv BY ClearedWords DEF BackupInit, CopyInv, WordCount
  <1>3. RestoredSweep BY DEF BackupInit, RestoredSweep
  <1> QED BY <1>1, <1>2, <1>3 DEF BackupInv

\* While the sweep stays, so does what is said of it.
LEMMA SweepStays ==
  ASSUME Sound, UNCHANGED rangeVars
  PROVE  Sound'
  BY DEF Sound, TypeOK, WithinRange, ModeRange, Present, rangeVars

\* The image that is copied has a sweep in order.
LEMMA PrepareKeeps == BackupInv /\ Prepare => BackupInv'
  <1> SUFFICES ASSUME BackupInv, Prepare PROVE BackupInv' OBVIOUS
  <1>1. Sound' BY SweepStays DEF BackupInv, Prepare
  <1>2. WordsOfOne(ImageOf(Present, setting_mode))
    <2>1. Ordered(Present) BY PresentOrdered DEF BackupInv
    <2>2. Present.start \in 0 .. MaxHz /\ Present.stop \in 0 .. MaxHz
      BY <2>1, RangeAssumption DEF Ordered
    <2> QED BY <2>1, <2>2 DEF WordsOfOne, Words, ImageOf, Ordered
  <1>3. CopyInv' BY <1>2 DEF BackupInv, CopyInv, Prepare, WordCount
  <1>4. RestoredSweep' BY DEF Prepare, RestoredSweep
  <1> QED BY <1>1, <1>3, <1>4 DEF BackupInv

\* Between the first and the last word the registers are of two images.
LEMMA CopyKeeps == BackupInv /\ Copy => BackupInv'
  <1> SUFFICES ASSUME BackupInv, Copy PROVE BackupInv' OBVIOUS
  <1> DEFINE first == [registers EXCEPT !.f0 = image.f0]
             second == [registers EXCEPT !.f1 = image.f1]
             third == [registers EXCEPT !.mode = image.mode, !.sum = image.sum]
  <1>1. \/ copied = 0 /\ registers' = first
        \/ copied = 1 /\ registers' = second
        \/ copied = 2 /\ registers' = third
    BY DEF Copy
  <1>2. /\ copied < WordCount /\ UNCHANGED <<rangeVars, setting_mode, left>>
        /\ copied' = copied + 1 /\ whole' = (copied' = WordCount)
        /\ image' = IF whole' THEN Cleared ELSE image
    BY DEF Copy
  <1>3. Sound' BY <1>2, SweepStays DEF BackupInv
  <1>4. Words(registers) /\ WordsOfOne(image) /\ Words(image)
    BY <1>2 DEF BackupInv, CopyInv, WordsOfOne
  <1>5. RestoredSweep' BY <1>2 DEF BackupInv, RestoredSweep, Within, rangeVars
  <1>6. ASSUME copied = 0, registers' = first PROVE CopyInv'
    <2>1. copied' = 1 /\ copied' # WordCount BY <1>2, <1>6 DEF WordCount
    <2>2. ~whole' BY <1>2, <2>1, Zenon
    <2>3. Words(first) /\ first.f0 = image.f0 BY <1>4 DEF Words
    <2> HIDE DEF first
    <2> QED BY <1>2, <1>4, <1>6, <2>1, <2>2, <2>3 DEF CopyInv, WordCount, Words, WordsOfOne
  <1>7. ASSUME copied = 1, registers' = second PROVE CopyInv'
    <2>1. copied' = 2 /\ copied' # WordCount BY <1>2, <1>7 DEF WordCount
    <2>2. ~whole' BY <1>2, <2>1, Zenon
    <2>3. Words(second) /\ second.f0 = image.f0 /\ second.f1 = image.f1
      BY <1>4, <1>7 DEF Words, BackupInv, CopyInv
    <2> HIDE DEF second
    <2> QED BY <1>2, <1>4, <1>7, <2>1, <2>2, <2>3 DEF CopyInv, WordCount, Words, WordsOfOne
  <1>8. ASSUME copied = 2, registers' = third PROVE CopyInv'
    <2>1. copied' = 3 /\ copied' = WordCount BY <1>2, <1>8 DEF WordCount
    <2>2. whole' BY <1>2, <2>1, Zenon
    <2>3. WordsOfOne(third)
      BY <1>4, <1>8 DEF Words, WordsOfOne, BackupInv, CopyInv
    <2> HIDE DEF third
    <2> QED BY <1>8, <2>1, <2>2, <2>3 DEF CopyInv, WordCount, Words, WordsOfOne
  <1>9. CopyInv' BY <1>1, <1>6, <1>7, <1>8
  <1> QED BY <1>3, <1>5, <1>9 DEF BackupInv

\* The settings that main starts with are a sweep in order and a range of the mode.
LEMMA RestartIs ==
  ASSUME Restart
  PROVE  \E set, m : \E r \in Ranges, taken \in BOOLEAN, asked \in BOOLEAN :
           /\ Restarted(set, r, m, taken, asked)
           /\ Starting(set, m)
           /\ asked <=> taken /\ (registers.f0 # 0 \/ registers.f1 # 0)
           /\ taken => m = registers.mode
  <1> DEFINE b == registers
             takes(wanted) == wanted /\ Fits(b) /\ b.mode \in SettingModes
             asks(wanted) == takes(wanted) /\ (b.f0 # 0 \/ b.f1 # 0)
             modeOf(first, wanted) == IF takes(wanted) THEN b.mode ELSE first.mode
  <1>1. PICK first \in Startups, wanted \in BOOLEAN :
          \E set \in AfterSetMode(first, modeOf(first, wanted)) :
          \E r \in IF takes(wanted) THEN ModeRanges[modeOf(first, wanted)] ELSE {set.range} :
            Restarted(set, r, modeOf(first, wanted), takes(wanted), asks(wanted))
    BY DEF Restart
  <1> DEFINE m == modeOf(first, wanted)
             taken == takes(wanted)
             asked == asks(wanted)
  <1>2. PICK set \in AfterSetMode(first, m) :
          \E r \in IF taken THEN ModeRanges[m] ELSE {set.range} :
            Restarted(set, r, m, taken, asked)
    BY <1>1
  <1>3. PICK r \in IF taken THEN ModeRanges[m] ELSE {set.range} :
            Restarted(set, r, m, taken, asked)
    BY <1>2
  <1>4. taken \in BOOLEAN /\ asked \in BOOLEAN BY DEF Fits
  <1>5. m \in SettingModes BY StartupStarting DEF Starting
  <1>6. /\ asked <=> taken /\ (b.f0 # 0 \/ b.f1 # 0)
        /\ taken => m = b.mode
    OBVIOUS
  <1> HIDE DEF takes, asks, modeOf
  <1>7. Starting(set, m) BY <1>5, SetModeStarting
  <1> HIDE DEF m, taken, asked
  <1>8. r \in ModeRanges[m] \/ r = set.range OBVIOUS
  <1>9. r \in Ranges
    <2>1. set.range \in Ranges BY <1>7 DEF Starting
    <2> QED BY <1>5, <1>8, <2>1, RangeOfMode
  <1> WITNESS set, m
  <1> USE <1>4
  <1> WITNESS r \in Ranges, taken \in BOOLEAN, asked \in BOOLEAN
  <1> QED BY <1>3, <1>6, <1>7

\* A reset leaves a sweep in order, and in its range what it takes over, whatever the
\* registers have.
LEMMA RestartSound ==
  ASSUME BackupInv, Restart
  PROVE  Sound'
  <1> DEFINE b == registers
             sweep(set, r, asked) ==
               IF asked THEN TakenOver(b, set.sweep, set.points, r) ELSE set.sweep
             wide(r) == TooWide("SPAN", Bounded("SPAN", RestoredSpan(b), r), r)
  <1>0. PICK set, m : \E r \in Ranges, taken \in BOOLEAN, asked \in BOOLEAN :
          /\ Restarted(set, r, m, taken, asked)
          /\ Starting(set, m)
          /\ asked => m = b.mode
    BY RestartIs
  <1>1. PICK r \in Ranges, taken \in BOOLEAN, asked \in BOOLEAN :
          /\ Restarted(set, r, m, taken, asked)
          /\ Starting(set, m)
          /\ asked => m = b.mode
    BY <1>0
  <1>2. /\ Words(b) /\ Ordered(set.sweep)
        /\ set.points \in PointCounts /\ set.points \in Nat
    BY <1>1, MostPoints DEF BackupInv, CopyInv, Starting
  <1>3. /\ minFreq' = r.min /\ maxFreq' = r.max
        /\ frequency0' = sweep(set, r, asked).start /\ frequency1' = sweep(set, r, asked).stop
        /\ sweep_points' = set.points
        /\ outdated' = ~asked /\ refined' = ~asked
        /\ widened' = (asked /\ m \in Outputs /\ wide(r))
    BY <1>1 DEF Restarted, Becomes, Moves
  <1>4. /\ Ordered(sweep(set, r, asked))
        /\ ~outdated' => sweep(set, r, asked).stop <= r.max
        /\ ~outdated' /\ ~widened' => r.min <= sweep(set, r, asked).start
    <2>1. CASE asked
      <3>1. sweep(set, r, asked) = TakenOver(b, set.sweep, set.points, r) /\ m = b.mode
        BY <1>1, <2>1
      <3>2. widened' <=> b.mode \in Outputs /\ wide(r) BY <1>3, <2>1, <3>1
      <3> HIDE DEF sweep
      <3> QED BY <1>2, <3>1, <3>2, TakenInside
    <2>2. CASE ~asked BY <1>2, <1>3, <2>2
    <2> QED BY <2>1, <2>2
  <1>5. widened' \in BOOLEAN /\ outdated' \in BOOLEAN /\ refined' \in BOOLEAN
    BY <1>3 DEF TooWide
  <1> HIDE DEF sweep, wide
  <1>6. TypeOK'
    <2>1. Present' \in Sweeps BY <1>3, <1>4, RangeAssumption DEF Present, Sweeps, Ordered
    <2>2. ModeRange' \in Ranges BY <1>3, RangeOrdered DEF ModeRange
    <2> QED BY <1>2, <1>3, <1>5, <2>1, <2>2 DEF TypeOK
  <1>7. WithinRange' BY <1>3, <1>4 DEF WithinRange, Ordered
  <1> QED BY <1>6, <1>7 DEF Sound

\* And it leaves the sweep that was, where the registers have all of it.
LEMMA RestartRestores ==
  ASSUME BackupInv, Restart
  PROVE  RestoredSweep'
  <1> DEFINE b == registers
  <1>0. PICK set, m : \E r \in Ranges, taken \in BOOLEAN, asked \in BOOLEAN :
          /\ Restarted(set, r, m, taken, asked)
          /\ Starting(set, m)
          /\ asked <=> taken /\ (b.f0 # 0 \/ b.f1 # 0)
          /\ taken => m = b.mode
    BY RestartIs
  <1>1. PICK r \in Ranges, taken \in BOOLEAN, asked \in BOOLEAN :
          /\ Restarted(set, r, m, taken, asked)
          /\ Starting(set, m)
          /\ asked <=> taken /\ (b.f0 # 0 \/ b.f1 # 0)
          /\ taken => m = b.mode
    BY <1>0
  <1>2. /\ setting_mode' = m /\ minFreq' = r.min /\ maxFreq' = r.max
        /\ asked => Becomes(TakenOver(b, set.sweep, set.points, r))
        /\ left' = IF taken /\ whole
                   THEN {[start |-> b.f0, stop |-> b.f1,
                          end |-> set.sweep.stop, points |-> set.points]}
                   ELSE {}
    BY <1>1 DEF Restarted, Moves
  <1> SUFFICES ASSUME NEW l \in left',
                      r.min <= l.start, l.stop <= r.max, l.stop # 0,
                      l.start = l.stop \/ l.stop - l.start > l.points,
                      m \in Outputs \/ l.start \notin l.end - l.points .. l.end - 1
               PROVE  LET d == IF m \in Outputs THEN 2 ELSE 0
                      IN Within(frequency0', l.start, d) /\ Within(frequency1', l.stop, d)
    BY <1>2 DEF RestoredSweep
  <1>3. /\ l.start = b.f0 /\ l.stop = b.f1 /\ l.end = set.sweep.stop /\ l.points = set.points
        /\ taken /\ whole
    BY <1>2
  <1>4. WordsOfOne(b) BY <1>3 DEF BackupInv, CopyInv
  <1>5. b.f0 \in Nat /\ b.f1 \in Nat BY <1>4, RangeAssumption DEF WordsOfOne, Words
  <1>6. /\ m = b.mode
        /\ frequency0' = TakenOver(b, set.sweep, set.points, r).start
        /\ frequency1' = TakenOver(b, set.sweep, set.points, r).stop
    BY <1>1, <1>2, <1>3 DEF Becomes
  <1>7. Ordered(set.sweep) /\ set.points \in Nat BY <1>1, MostPoints DEF Starting
  <1> HIDE DEF b
  <1>8. CASE m \in Outputs
    <2>1. frequency0' \in b.f0 - 1 .. b.f0 /\ frequency1' \in b.f1 - 2 .. b.f1
      BY <1>3, <1>4, <1>6, <1>7, <1>8, RestoresOutput
    <2> QED BY <1>3, <1>5, <1>8, <2>1 DEF Within
  <1>9. CASE m \notin Outputs
    <2>1. frequency0' = b.f0 /\ frequency1' = b.f1
      BY <1>3, <1>4, <1>6, <1>7, <1>9, RestoresInput
    <2> QED BY <1>3, <1>5, <1>9, <2>1 DEF Within
  <1> QED BY <1>8, <1>9

LEMMA ChangeKeeps == BackupInv /\ Change => BackupInv'
  <1> SUFFICES ASSUME BackupInv, Change PROVE BackupInv' OBVIOUS
  <1>1. CopyInv' /\ RestoredSweep'
    BY DEF BackupInv, CopyInv, Change, RestoredSweep, WordCount
  <1>2. Sound BY DEF BackupInv
  <1>3. Sound'
    <2>1. CASE \E type \in Types, freq \in Asked : SetSweepFrequency(type, freq)
      <3>1. PICK type \in Types, freq \in Asked : SetSweepFrequency(type, freq) BY <2>1
      <3>2. freq \in 0 .. MaxHz BY BackupAssumption
      <3> QED BY <1>2, <3>1, <3>2, RequestKeeps DEF RangeInv
    <2>2. CASE \E points \in PointCounts : SetSweepPoints(points)
      <3>1. PICK points \in PointCounts : SetSweepPoints(points) BY <2>2
      <3>2. /\ sweep_points' = points /\ refined' = (refined \/ points > sweep_points)
            /\ UNCHANGED <<minFreq, maxFreq, frequency0, frequency1, outdated, widened>>
        BY <3>1 DEF SetSweepPoints
      <3>3. refined' \in BOOLEAN BY <3>2
      <3>4. TypeOK' BY <1>2, <3>2, <3>3 DEF Sound, TypeOK, ModeRange, Present
      <3> QED BY <1>2, <3>2, <3>4 DEF Sound, WithinRange
    <2>3. CASE MoveRange BY <1>2, <2>3, MoveSound
    <2>4. CASE MixerOff BY <1>2, <2>4, MixerKeeps DEF RangeInv
    <2>5. CASE \E m \in SettingModes : \E r \in ModeRanges[m] : Reset(r, ModeTop[m])
      <3>1. PICK m \in SettingModes : \E r \in ModeRanges[m] : Reset(r, ModeTop[m]) BY <2>5
      <3>2. PICK r \in ModeRanges[m] : Reset(r, ModeTop[m]) BY <3>1
      <3>3. r \in Ranges /\ ModeTop[m] \in 0 .. MaxHz BY RangeOfMode
      <3> QED BY <1>2, <3>2, <3>3, ResetKeeps DEF RangeInv
    <2> QED BY <2>1, <2>2, <2>3, <2>4, <2>5 DEF Change
  <1> QED BY <1>1, <1>3 DEF BackupInv

LEMMA BackupStep == BackupInv /\ [BackupNext]_backupVars => BackupInv'
  <1> SUFFICES ASSUME BackupInv, [BackupNext]_backupVars PROVE BackupInv' OBVIOUS
  <1>1. CASE Restart
    <2>1. Sound' /\ RestoredSweep' BY <1>1, RestartSound, RestartRestores
    <2>2. CopyInv' BY <1>1 DEF Restart, BackupInv, CopyInv, WordCount
    <2> QED BY <2>1, <2>2 DEF BackupInv
  <1>2. CASE UNCHANGED backupVars
    <2>1. Sound' BY <1>2, SweepStays DEF BackupInv, backupVars
    <2>2. CopyInv' /\ RestoredSweep'
      BY <1>2 DEF BackupInv, CopyInv, RestoredSweep, Within, backupVars, regVars, rangeVars
    <2> QED BY <2>1, <2>2 DEF BackupInv
  <1> QED BY <1>1, <1>2, PrepareKeeps, CopyKeeps, ChangeKeeps DEF BackupNext

\* A reset that does not come between the words leaves the sweep that was backed up, but
\* for two hertz in the output modes, wherever it lies in the range that the mode has after
\* the reset; the exceptions are those of RestoredSweep (main.c:193-230, 3947-3996).
THEOREM SweepSurvivesReset == BackupSpec => []RestoredSweep
  <1>1. BackupInv => RestoredSweep BY DEF BackupInv
  <1> QED BY <1>1, BackupInitially, BackupStep, PTL DEF BackupSpec

\* No reset, whatever words the registers have, leaves a sweep out of order, or one that it
\* takes over out of the range (main.c:1852-1916, 3947-3996).
THEOREM ResetWithinRange == BackupSpec => []WithinRange
  <1>1. BackupInv => WithinRange BY DEF BackupInv, Sound
  <1> QED BY <1>1, BackupInitially, BackupStep, PTL DEF BackupSpec

-----------------------------------------------------------------------------
(***************************************************************************)
(* The screens for a menu stack of any depth.  The menu of modes is only ever  *)
(* reached from the top, so that leaving it leaves nothing of another mode on    *)
(* the stack; and a keypad that no loop of Thread1 serves is one that cmd_menu    *)
(* opened or cmd_text could not close, whatever came in between.                   *)
(***************************************************************************)

Menus == {"top", "mode", "output form", "form", "more"}
Screens == [ui : {"NORMAL", "MENU", "KEYPAD"}, stack : Seq(Menus)]

\* The top menu is at the bottom of the stack and nowhere else, the menu of modes on it.
Stacked(stack) ==
  /\ stack \in Seq(Menus) /\ Len(stack) >= 1
  /\ \A i \in 1 .. Len(stack) :
       /\ stack[i] = "top" <=> i = 1
       /\ stack[i] = "mode" => i = 2

ListensInv ==
  /\ awaiting \in BOOLEAN /\ stuck \in BOOLEAN
  /\ ui_mode = "KEYPAD" => doing = "keypad" \/ awaiting \/ stuck

ScreenInv ==
  /\ Screen \in Screens /\ Stacked(menu_stack)
  /\ mode \in Modes /\ astray \in BOOLEAN
  /\ ListensInv /\ OutputFormInOutput

\* The top menu alone.
LEMMA TopStacked == Stacked(<<"top">>) /\ ~HasOutputForm(<<"top">>)
  <1> DEFINE stack == <<"top">>
  <1>1. "top" \in Menus BY DEF Menus
  <1>2. stack \in Seq(Menus) BY <1>1
  <1>3. Len(stack) = 1 /\ stack[1] = "top" OBVIOUS
  <1> HIDE DEF stack
  <1>4. \A i \in 1 .. Len(stack) : i = 1 /\ stack[i] = "top" BY <1>3
  <1>5. Stacked(stack) BY <1>2, <1>3, <1>4 DEF Stacked
  <1>6. ~HasOutputForm(stack) BY <1>4 DEF HasOutputForm
  <1> QED BY <1>5, <1>6 DEF stack

\* What is left of a stack without its last menu.
LEMMA FrontStacked ==
  ASSUME NEW stack, Stacked(stack), Len(stack) > 1
  PROVE  /\ Stacked(Front(stack))
         /\ HasOutputForm(Front(stack)) => HasOutputForm(stack)
         /\ Last(stack) = "mode" => ~HasOutputForm(Front(stack))
  <1>1. /\ Front(stack) \in Seq(Menus) /\ Len(Front(stack)) = Len(stack) - 1
        /\ \A i \in 1 .. Len(stack) - 1 : Front(stack)[i] = stack[i]
        /\ Len(stack) \in Nat
    BY DEF Front, Stacked
  <1> HIDE DEF Front
  <1>2. Stacked(Front(stack)) BY <1>1 DEF Stacked
  <1>3. ASSUME HasOutputForm(Front(stack)) PROVE HasOutputForm(stack)
    <2>1. PICK i \in 1 .. Len(stack) - 1 : Front(stack)[i] = "output form"
      BY <1>1, <1>3 DEF HasOutputForm
    <2>2. stack[i] = "output form" BY <1>1, <2>1, Zenon
    <2>3. i \in 1 .. Len(stack) BY <1>1
    <2> QED BY <2>2, <2>3 DEF HasOutputForm
  <1>4. ASSUME Last(stack) = "mode" PROVE ~HasOutputForm(Front(stack))
    <2>1. Len(stack) = 2
      <3>1. Len(stack) \in 1 .. Len(stack) BY <1>1
      <3>2. stack[Len(stack)] = "mode" BY <1>4 DEF Last
      <3> QED BY <3>1, <3>2 DEF Stacked
    <2>2. \A i \in 1 .. Len(Front(stack)) : Front(stack)[i] = "top"
      BY <1>1, <2>1 DEF Stacked
    <2> QED BY <2>2 DEF HasOutputForm
  <1> QED BY <1>2, <1>3, <1>4

\* A menu put on a stack, the menu of modes on the top menu only.
LEMMA AppendStacked ==
  ASSUME NEW stack, Stacked(stack), NEW menu \in Menus \ {"top"}, menu = "mode" => Len(stack) = 1
  PROVE  /\ Stacked(Append(stack, menu))
         /\ HasOutputForm(Append(stack, menu)) => HasOutputForm(stack) \/ menu = "output form"
  <1>1. /\ Append(stack, menu) \in Seq(Menus) /\ Len(Append(stack, menu)) = Len(stack) + 1
        /\ \A i \in 1 .. Len(stack) : Append(stack, menu)[i] = stack[i]
        /\ Append(stack, menu)[Len(stack) + 1] = menu
        /\ Len(stack) \in Nat
    BY DEF Stacked
  <1>2. \A i \in 1 .. Len(stack) + 1 : i \in 1 .. Len(stack) \/ i = Len(stack) + 1
    BY <1>1
  <1>3. Stacked(Append(stack, menu)) BY <1>1, <1>2 DEF Stacked
  <1>4. HasOutputForm(Append(stack, menu)) => HasOutputForm(stack) \/ menu = "output form"
    BY <1>1, <1>2 DEF HasOutputForm
  <1> QED BY <1>3, <1>4

\* Three menus on a stack.
LEMMA ThreeMenus ==
  ASSUME NEW x \in Menus, NEW y \in Menus, NEW z \in Menus
  PROVE  /\ <<x, y, z>> \in Seq(Menus) /\ Len(<<x, y, z>>) = 3
         /\ <<x, y, z>>[1] = x /\ <<x, y, z>>[2] = y /\ <<x, y, z>>[3] = z
  OBVIOUS

\* The stack below the form of an output mode.
LEMMA OutputStacked == Stacked(<<"top", "mode", "output form">>)
  <1> DEFINE stack == <<"top", "mode", "output form">>
  <1>1. "top" \in Menus /\ "mode" \in Menus /\ "output form" \in Menus BY DEF Menus
  <1>2. /\ stack \in Seq(Menus) /\ Len(stack) = 3
        /\ stack[1] = "top" /\ stack[2] = "mode" /\ stack[3] = "output form"
    BY <1>1, ThreeMenus, Zenon
  <1> HIDE DEF stack
  <1>3. ASSUME NEW i \in 1 .. Len(stack)
        PROVE  (stack[i] = "top" <=> i = 1) /\ (stack[i] = "mode" => i = 2)
    <2>1. i \in 1 .. 3 BY <1>2
    <2>2. i = 1 \/ i = 2 \/ i = 3 BY <2>1
    <2> QED BY <1>2, <2>2
  <1>4. Len(stack) >= 1
    <2>1. Len(stack) = 3 BY <1>2
    <2>2. 3 >= 1 OBVIOUS
    <2> QED BY <2>1, <2>2, Zenon
  <1>5. Stacked(stack) BY <1>2, <1>3, <1>4 DEF Stacked
  <1> QED BY <1>5 DEF stack

LEMMA NormalScreen ==
  ASSUME NEW s \in Screens
  PROVE  Normal(s) \in Screens /\ Normal(s).stack = s.stack /\ Normal(s).ui \in {s.ui, "NORMAL"}
  BY DEF Normal, Screens

LEMMA MenuScreen ==
  ASSUME NEW s \in Screens
  PROVE  InMenu(s) \in Screens /\ InMenu(s).stack = s.stack /\ InMenu(s).ui = "MENU"
  BY DEF InMenu, Screens

LEMMA PushScreen ==
  ASSUME NEW s \in Screens, Stacked(s.stack), NEW menu \in Menus \ {"top"},
         menu = "mode" => Last(s.stack) = "top"
  PROVE  LET t == Push(s, menu)
         IN /\ t \in Screens /\ t.ui = "MENU" /\ Stacked(t.stack)
            /\ HasOutputForm(t.stack) => HasOutputForm(s.stack) \/ menu = "output form"
  <1> DEFINE below == IF Len(s.stack) = MENU_STACK_DEPTH_MAX THEN Front(s.stack) ELSE s.stack
  <1>1. Len(s.stack) \in Nat /\ Len(s.stack) >= 1 BY DEF Stacked
  <1>2. ASSUME Last(s.stack) = "top" PROVE Len(s.stack) = 1
    <2>1. Len(s.stack) \in 1 .. Len(s.stack) BY <1>1
    <2>2. s.stack[Len(s.stack)] = "top" BY <1>2 DEF Last
    <2> QED BY <2>1, <2>2 DEF Stacked
  <1>3. Stacked(below) /\ (HasOutputForm(below) => HasOutputForm(s.stack))
    BY <1>1, FrontStacked, ScreensAssumption
  <1>4. menu = "mode" => Len(below) = 1 BY <1>1, <1>2, ScreensAssumption
  <1>5. /\ Stacked(Append(below, menu))
        /\ HasOutputForm(Append(below, menu)) => HasOutputForm(s.stack) \/ menu = "output form"
    BY <1>3, <1>4, AppendStacked
  <1>6. Push(s, menu) = InMenu([s EXCEPT !.stack = Append(below, menu)]) BY DEF Push
  <1> HIDE DEF below
  <1>7. [s EXCEPT !.stack = Append(below, menu)] \in Screens BY <1>5 DEF Screens, Stacked
  <1>8. [s EXCEPT !.stack = Append(below, menu)].stack = Append(below, menu) BY DEF Screens
  <1> QED BY <1>5, <1>6, <1>7, <1>8, MenuScreen

LEMMA BackScreen ==
  ASSUME NEW s \in Screens, Stacked(s.stack), NEW leave \in BOOLEAN
  PROVE  LET t == Back(s, leave)
         IN /\ t \in Screens /\ t.ui \in {s.ui, "NORMAL", "MENU"} /\ Stacked(t.stack)
            /\ HasOutputForm(t.stack) => HasOutputForm(s.stack)
            /\ Last(s.stack) = "mode" => ~HasOutputForm(t.stack)
  <1>1. CASE Len(s.stack) = 1
    <2>1. Back(s, leave) = s BY <1>1 DEF Back
    <2>2. Last(s.stack) # "mode" BY <1>1 DEF Last, Stacked
    <2> QED BY <2>1, <2>2
  <1>2. CASE Len(s.stack) # 1
    <2> DEFINE below == [s EXCEPT !.stack = Front(s.stack)]
    <2>0. Len(s.stack) \in Nat /\ Len(s.stack) >= 1 BY DEF Stacked
    <2> DEFINE n == Len(s.stack)
    <2> HIDE DEF n
    <2>1. Len(s.stack) > 1
      <3>1. n # 1 /\ n \in Nat /\ n >= 1 BY <1>2, <2>0 DEF n
      <3>2. n > 1 BY <3>1
      <3> QED BY <3>2 DEF n
    <2>2. /\ Stacked(Front(s.stack))
          /\ HasOutputForm(Front(s.stack)) => HasOutputForm(s.stack)
          /\ Last(s.stack) = "mode" => ~HasOutputForm(Front(s.stack))
      BY <2>1, FrontStacked
    <2>3. below \in Screens /\ below.stack = Front(s.stack) /\ below.ui = s.ui
      BY <2>2 DEF Screens, Stacked
    <2>4. Back(s, leave) = IF leave THEN Normal(below) ELSE InMenu(below)
      BY <1>2 DEF Back
    <2> HIDE DEF below
    <2> QED BY <2>2, <2>3, <2>4, NormalScreen, MenuScreen
  <1> QED BY <1>1, <1>2

\* Whatever is shown: the stack is in order, a keypad comes with its loop or stays open,
\* and the form of an output mode with that mode.
LEMMA ShowsKeeps ==
  ASSUME ScreenInv, NEW s \in Screens, Stacked(s.stack), NEW m \in Modes, NEW sets \in BOOLEAN,
         ShowsIn(s, m, sets),
         HasOutputForm(s.stack) => m = "output" \/ sets \/ (m = mode /\ HasOutputForm(menu_stack)),
         s.ui = "KEYPAD" => doing' = "keypad" \/ (ui_mode = "KEYPAD" /\ doing # "keypad")
  PROVE  ScreenInv'
  <1>1. /\ ui_mode' = s.ui /\ menu_stack' = s.stack /\ mode' = m
        /\ awaiting' = (awaiting /\ s.ui = "KEYPAD")
        /\ stuck' = (stuck /\ s.ui = "KEYPAD")
        /\ astray' = (HasOutputForm(s.stack) /\ (astray \/ (sets /\ m = "input")))
    BY DEF ShowsIn
  <1>2. Screen' \in Screens /\ Stacked(menu_stack)' /\ (mode \in Modes)'
    <2>1. Screen' = s BY <1>1 DEF Screen, Screens
    <2> QED BY <1>1, <2>1
  <1>3. (awaiting \in BOOLEAN)' /\ (stuck \in BOOLEAN)' /\ (astray \in BOOLEAN)'
    BY <1>1, Zenon DEF HasOutputForm
  <1>4. ASSUME ui_mode' = "KEYPAD" PROVE doing' = "keypad" \/ awaiting' \/ stuck'
    BY <1>1, <1>4 DEF ScreenInv, ListensInv
  <1>5. ASSUME HasOutputForm(menu_stack)', ~astray' PROVE mode' = "output"
    <2>1. HasOutputForm(s.stack) BY <1>1, <1>5 DEF HasOutputForm
    <2>2. ~astray /\ ~(sets /\ m = "input") BY <1>1, <1>5, <2>1, Zenon
    <2> QED BY <1>1, <2>1, <2>2 DEF ScreenInv, OutputFormInOutput, Modes
  <1> QED BY <1>2, <1>3, <1>4, <1>5 DEF ScreenInv, ListensInv, OutputFormInOutput

\* The screen as it is.
LEMMA ScreenTyped ==
  ASSUME ScreenInv
  PROVE  /\ Screen \in Screens /\ Stacked(Screen.stack) /\ Screen.stack = menu_stack
         /\ Screen.ui = ui_mode /\ mode \in Modes
  BY DEF ScreenInv, Screen

LEMMA ModesKept ==
  ASSUME ScreenInv, SelectMode \/ OtherMode, doing # "keypad"
  PROVE  ScreenInv'
  <1> USE ScreenTyped DEF Modes
  <1>1. ASSUME SelectMode, ShowsIn(Back(Screen, TRUE), "input", FALSE) PROVE ScreenInv'
    <2>1. Last(Screen.stack) = "mode" BY <1>1 DEF SelectMode
    <2>2. LET t == Back(Screen, TRUE)
          IN /\ t \in Screens /\ t.ui \in {ui_mode, "NORMAL", "MENU"} /\ Stacked(t.stack)
             /\ ~HasOutputForm(t.stack)
      BY <2>1, BackScreen
    <2> QED BY <1>1, <2>2, ShowsKeeps
  <1>2. ASSUME SelectMode, ShowsIn(Push(Screen, "output form"), "output", FALSE) PROVE ScreenInv'
    <2>1. LET t == Push(Screen, "output form")
          IN t \in Screens /\ t.ui = "MENU" /\ Stacked(t.stack)
      BY PushScreen DEF Menus
    <2> QED BY <1>2, <2>1, ShowsKeeps
  <1>3. ASSUME NEW m \in Modes,
               NEW t \in {Back(Screen, TRUE), Normal(Screen), Push(Screen, "more")},
               ShowsIn(t, m, TRUE)
        PROVE  ScreenInv'
    <2>1. t \in Screens /\ t.ui \in {ui_mode, "NORMAL", "MENU"} /\ Stacked(t.stack)
      <3>1. CASE t = Back(Screen, TRUE) BY <3>1, BackScreen
      <3>2. CASE t = Normal(Screen) BY <3>2, NormalScreen
      <3>3. CASE t = Push(Screen, "more") BY <3>3, PushScreen DEF Menus
      <3> QED BY <1>3, <3>1, <3>2, <3>3
    <2> QED BY <1>3, <2>1, ShowsKeeps
  <1> QED BY <1>1, <1>2, <1>3 DEF SelectMode, OtherMode

\* What shows a screen in the present mode, with no form of an output mode that was not there.
LEMMA ShowsSame ==
  ASSUME ScreenInv, doing # "keypad", NEW t \in Screens, Stacked(t.stack), Shows(t),
         HasOutputForm(t.stack) => HasOutputForm(menu_stack),
         t.ui \in {ui_mode, "NORMAL", "MENU"} \/ doing' = "keypad"
  PROVE  ScreenInv'
  BY ScreenTyped, ShowsKeeps DEF Shows

LEMMA MenusKept ==
  ASSUME ScreenInv, SubMenu \/ Callback, doing # "keypad"
  PROVE  ScreenInv'
  <1> USE ScreenTyped
  <1>1. ASSUME NEW menu \in {"mode", "form", "more"}, menu = "mode" => Last(menu_stack) = "top",
               Shows(Push(Screen, menu))
        PROVE  ScreenInv'
    <2>1. menu \in Menus \ {"top"} /\ menu # "output form" BY <1>1 DEF Menus
    <2>2. LET t == Push(Screen, menu)
          IN /\ t \in Screens /\ t.ui = "MENU" /\ Stacked(t.stack)
             /\ HasOutputForm(t.stack) => HasOutputForm(Screen.stack) \/ menu = "output form"
      BY <1>1, <2>1, PushScreen
    <2> QED BY <1>1, <2>1, <2>2, ShowsSame
  <1>2. CASE Shows(Screen) BY <1>2, ShowsSame
  <1>3. CASE Shows(Normal(Screen)) BY <1>3, ShowsSame, NormalScreen
  <1>4. ASSUME NEW leave \in BOOLEAN, Shows(Back(Screen, leave)) PROVE ScreenInv'
    BY <1>4, ShowsSame, BackScreen
  <1> QED BY <1>1, <1>2, <1>3, <1>4 DEF SubMenu, Callback

\* What a callback goes on to show.
LEMMA ThenScreen ==
  ASSUME NEW s \in Screens, Stacked(s.stack), NEW what
  PROVE  LET t == Then(s, what)
         IN /\ t \in Screens /\ t.ui \in {s.ui, "NORMAL", "MENU"} /\ Stacked(t.stack)
            /\ HasOutputForm(t.stack) => HasOutputForm(s.stack)
  <1>1. CASE what = "back"
    <2>1. Then(s, what) = Back(s, TRUE) BY <1>1 DEF Then
    <2> QED BY <2>1, BackScreen
  <1>2. CASE what = "push"
    <2>1. Then(s, what) = Push(s, "more") BY <1>2 DEF Then
    <2>2. "more" \in Menus \ {"top"} BY DEF Menus
    <2>3. LET t == Push(s, "more")
          IN /\ t \in Screens /\ t.ui = "MENU" /\ Stacked(t.stack)
             /\ HasOutputForm(t.stack) => HasOutputForm(s.stack) \/ "more" = "output form"
      BY <2>2, PushScreen
    <2> QED BY <2>1, <2>3
  <1>3. CASE what \in {"leave", "ultra"}
    <2>1. Then(s, what) = Normal(s) BY <1>3 DEF Then
    <2> QED BY <2>1, NormalScreen
  <1>4. CASE what \notin {"back", "push", "leave", "ultra"}
    <2>1. Then(s, what) = s BY <1>4 DEF Then
    <2> QED BY <2>1
  <1> QED BY <1>1, <1>2, <1>3, <1>4

\* A keypad: its loop runs, or it waits for cmd_text.
LEMMA KeypadKept ==
  ASSUME ScreenInv, OpenKeypad, doing # "keypad"
  PROVE  ScreenInv'
  <1> DEFINE opened == [Screen EXCEPT !.ui = "KEYPAD"]
  <1>1. /\ opened \in Screens /\ opened.stack = menu_stack /\ Stacked(opened.stack)
        /\ opened.ui = "KEYPAD"
    BY ScreenTyped DEF Screens
  <1>2. PICK what \in Afters :
          IF doing = "menu"
          THEN /\ LET s == Then(opened, what)
                  IN /\ ui_mode' = s.ui /\ menu_stack' = s.stack
                     /\ mode' = ModeThen(what)
                     /\ awaiting' = (s.ui = "KEYPAD") /\ stuck' = FALSE
                     /\ astray' = (HasOutputForm(s.stack) /\ (astray \/ what = "ultra"))
               /\ UNCHANGED <<doing, after>>
          ELSE /\ Shows(opened) /\ doing' = "keypad" /\ after' = what
    BY Zenon DEF OpenKeypad
  <1> HIDE DEF opened
  <1>3. CASE doing = "menu"
    <2> DEFINE s == Then(opened, what)
    <2>1. /\ s \in Screens /\ Stacked(s.stack)
          /\ HasOutputForm(s.stack) => HasOutputForm(menu_stack)
      BY <1>1, ThenScreen
    <2>2. /\ ui_mode' = s.ui /\ menu_stack' = s.stack /\ mode' = ModeThen(what)
          /\ awaiting' = (s.ui = "KEYPAD") /\ stuck' = FALSE
          /\ astray' = (HasOutputForm(s.stack) /\ (astray \/ what = "ultra"))
      BY <1>2, <1>3, Zenon
    <2> HIDE DEF s
    <2>3. Screen' \in Screens
      <3>1. Screen' = s BY <2>1, <2>2 DEF Screen, Screens
      <3> QED BY <2>1, <3>1
    <2>4. (awaiting \in BOOLEAN)' /\ (stuck \in BOOLEAN)' /\ (astray \in BOOLEAN)'
      BY <2>2, Zenon DEF HasOutputForm
    <2>5. ASSUME ui_mode' = "KEYPAD" PROVE awaiting' BY <2>2, <2>5, Zenon
    <2>6. mode' \in Modes BY <2>2, ScreenTyped DEF ModeThen, Modes
    <2>7. ASSUME HasOutputForm(menu_stack)', ~astray' PROVE mode' = "output"
      <3>1. HasOutputForm(s.stack) BY <2>2, <2>7 DEF HasOutputForm
      <3>2. ~astray /\ what # "ultra" BY <2>2, <2>7, <3>1, Zenon
      <3>3. mode' = mode BY <2>2, <3>2 DEF ModeThen
      <3> QED BY <2>1, <3>1, <3>2, <3>3 DEF ScreenInv, OutputFormInOutput
    <2> QED BY <2>1, <2>2, <2>3, <2>4, <2>5, <2>6, <2>7
        DEF ScreenInv, ListensInv, OutputFormInOutput
  <1>4. CASE doing # "menu"
    <2>1. Shows(opened) /\ doing' = "keypad" BY <1>2, <1>4
    <2> QED BY <1>1, <2>1, ShowsSame
  <1> QED BY <1>3, <1>4

LEMMA InvokeKept == ScreenInv /\ Invoke /\ doing # "keypad" => ScreenInv'
  BY ModesKept, MenusKept, KeypadKept DEF Invoke

LEMMA EnterKept == ScreenInv /\ EnterMenu => ScreenInv'
  <1> SUFFICES ASSUME ScreenInv, EnterMenu PROVE ScreenInv' OBVIOUS
  <1>1. CASE Shows(InMenu(Screen))
    BY <1>1, ScreenTyped, MenuScreen, ShowsSame DEF EnterMenu
  <1>2. CASE Shows(Push([Screen EXCEPT !.stack = <<"top">>], "more"))
    <2> DEFINE s == [Screen EXCEPT !.stack = <<"top">>]
    <2>1. s \in Screens /\ s.stack = <<"top">>
      BY ScreenTyped, TopStacked DEF Screens, Stacked
    <2> HIDE DEF s
    <2>2. "more" \in Menus \ {"top"} BY DEF Menus
    <2>3. LET t == Push(s, "more")
          IN t \in Screens /\ t.ui = "MENU" /\ Stacked(t.stack) /\ ~HasOutputForm(t.stack)
      BY <2>1, <2>2, TopStacked, PushScreen
    <2>4. Shows(Push(s, "more")) /\ doing # "keypad" BY <1>2 DEF s, EnterMenu
    <2> QED BY <2>3, <2>4, ShowsSame
  <1> QED BY <1>1, <1>2 DEF EnterMenu

LEMMA CloseKept == ScreenInv /\ CloseKeypad => ScreenInv'
  <1> SUFFICES ASSUME ScreenInv, CloseKeypad PROVE ScreenInv' OBVIOUS
  <1> DEFINE c == Closed(Screen)
             t == Then(c, after)
  <1>1. c \in Screens /\ c.stack = menu_stack /\ c.ui \in {"NORMAL", "MENU"}
    <2>1. CASE IsForm(Screen) BY <2>1, ScreenTyped, MenuScreen DEF Closed
    <2>2. CASE ~IsForm(Screen)
      <3>1. c = [Screen EXCEPT !.ui = "NORMAL"] BY <2>2 DEF Closed, Normal
      <3> QED BY <3>1, ScreenTyped DEF Screens
    <2> QED BY <2>1, <2>2
  <1>2. Stacked(c.stack) BY <1>1, ScreenTyped
  <1> HIDE DEF c
  <1>3. /\ t \in Screens /\ t.ui \in {"NORMAL", "MENU"} /\ Stacked(t.stack)
        /\ HasOutputForm(t.stack) => HasOutputForm(menu_stack)
    BY <1>1, <1>2, ThenScreen
  <1>4. ShowsIn(t, ModeThen(after), after = "ultra") BY DEF CloseKeypad, c
  <1>5. ModeThen(after) \in Modes /\ (after = "ultra" \/ ModeThen(after) = mode)
    BY ScreenTyped DEF ModeThen, Modes
  <1> DEFINE ultra == after = "ultra"
  <1>6. ultra \in BOOLEAN OBVIOUS
  <1> HIDE DEF t, ultra
  <1>7. ShowsIn(t, ModeThen(after), ultra) BY <1>4 DEF ultra
  <1>8. ultra \/ ModeThen(after) = mode BY <1>5 DEF ultra
  <1> QED BY <1>3, <1>5, <1>6, <1>7, <1>8, ShowsKeeps

\* The commands of the console.
LEMMA CommandsKept == ScreenInv /\ (StartMenuCommand \/ ModeCommand \/ RecallCommand) => ScreenInv'
  <1> USE ScreenTyped
  <1>1. ASSUME ScreenInv, StartMenuCommand PROVE ScreenInv'
    <2> DEFINE n == Normal(Screen)
               t == [n EXCEPT !.stack = <<"top">>]
    <2>1. n \in Screens /\ n.ui \in {ui_mode, "NORMAL"} BY <1>1, NormalScreen
    <2> HIDE DEF n
    <2>2. t \in Screens /\ t.ui = n.ui /\ t.stack = <<"top">>
      BY <2>1, TopStacked DEF Screens, Stacked
    <2>3. Shows(t) /\ doing # "keypad" BY <1>1 DEF StartMenuCommand, n
    <2> HIDE DEF t
    <2> QED BY <1>1, <2>1, <2>2, <2>3, TopStacked, ShowsSame
  <1>2. ASSUME ScreenInv, ModeCommand PROVE ScreenInv'
    <2> DEFINE n == MoveTop(Screen)
    <2>1. n \in Screens /\ n.ui \in {ui_mode, "MENU"} /\ n.stack = <<"top">>
      <3>1. CASE Len(menu_stack) = 1
        <4>1. n = Screen BY <1>2, <3>1 DEF MoveTop
        <4>2. menu_stack = <<"top">>
          <5>1. menu_stack \in Seq(Menus) /\ menu_stack[1] = "top"
            BY <1>2, <3>1 DEF ScreenInv, Stacked
          <5> QED BY <3>1, <5>1
        <4> QED BY <1>2, <4>1, <4>2
      <3>2. CASE Len(menu_stack) # 1
        <4> DEFINE top == [Screen EXCEPT !.stack = <<"top">>]
        <4>1. top \in Screens /\ top.stack = <<"top">>
          BY <1>2, TopStacked DEF Screens, Stacked
        <4>2. n = InMenu(top) BY <1>2, <3>2 DEF MoveTop
        <4> HIDE DEF top
        <4> QED BY <4>1, <4>2, MenuScreen
      <3> QED BY <3>1, <3>2
    <2>2. /\ doing = "sweep" /\ doing' = doing
          /\ \/ ShowsIn(Normal(n), "input", FALSE)
             \/ ShowsIn(Push(n, "output form"), "output", FALSE)
      BY <1>2 DEF ModeCommand
    <2> HIDE DEF n
    <2>3. /\ Normal(n) \in Screens /\ Normal(n).stack = <<"top">>
          /\ Normal(n).ui \in {ui_mode, "MENU", "NORMAL"}
      BY <2>1, NormalScreen
    <2>4. CASE ShowsIn(Normal(n), "input", FALSE)
      <3>1. "input" \in Modes /\ FALSE \in BOOLEAN BY DEF Modes
      <3> QED BY <1>2, <2>2, <2>3, <2>4, <3>1, TopStacked, ShowsKeeps
    <2>5. CASE ShowsIn(Push(n, "output form"), "output", FALSE)
      <3>1. "output form" \in Menus \ {"top"} BY DEF Menus
      <3>2. LET t == Push(n, "output form")
            IN t \in Screens /\ t.ui = "MENU" /\ Stacked(t.stack)
        BY <2>1, <3>1, TopStacked, PushScreen
      <3>3. "output" \in Modes /\ FALSE \in BOOLEAN BY DEF Modes
      <3> QED BY <1>2, <2>5, <3>2, <3>3, ShowsKeeps
    <2> QED BY <2>2, <2>4, <2>5
  <1>3. ASSUME ScreenInv, RecallCommand PROVE ScreenInv'
    BY <1>3, ShowsKeeps DEF RecallCommand
  <1> QED BY <1>1, <1>2, <1>3

LEMMA TextKept == ScreenInv /\ Text => ScreenInv'
  <1> SUFFICES ASSUME ScreenInv, Text PROVE ScreenInv' OBVIOUS
  <1>1. /\ ui_mode' = Normal(Screen).ui /\ awaiting' = FALSE /\ stuck' = (ui_mode' = "KEYPAD")
        /\ UNCHANGED <<menu_stack, mode, doing, astray>>
    BY DEF Text
  <1>2. Normal(Screen) \in Screens /\ Normal(Screen).stack = menu_stack
    BY ScreenTyped, NormalScreen
  <1>3. Screen' \in Screens BY <1>1, <1>2 DEF Screen, Screens
  <1>4. stuck' \in BOOLEAN /\ (ui_mode' = "KEYPAD" => stuck') BY <1>1, Zenon
  <1>5. OutputFormInOutput' BY <1>1 DEF ScreenInv, OutputFormInOutput, HasOutputForm
  <1> QED BY <1>1, <1>3, <1>4, <1>5 DEF ScreenInv, ListensInv

LEMMA RestartKept == ScreenInv /\ RestartScreen => ScreenInv'
  <1> SUFFICES ASSUME ScreenInv, RestartScreen PROVE ScreenInv' OBVIOUS
  <1>1. awaiting' = FALSE /\ stuck' = FALSE /\ astray' = FALSE /\ ui_mode' \in {"MENU", "NORMAL"}
    BY DEF RestartScreen
  <1>2. Stacked(menu_stack') /\ mode' \in Modes /\ (HasOutputForm(menu_stack') => mode' = "output")
    <2>1. CASE mode = "output" /\ mode' = mode
               /\ menu_stack' = <<"top", "mode", "output form">>
      BY <2>1, OutputStacked DEF Modes
    <2>2. CASE mode' \in Modes /\ menu_stack' = <<"top">> BY <2>2, TopStacked
    <2> QED BY <2>1, <2>2 DEF RestartScreen
  <1>3. Screen' \in Screens BY <1>1, <1>2 DEF Screen, Screens, Stacked
  <1>4. OutputFormInOutput' BY <1>2 DEF OutputFormInOutput, HasOutputForm
  <1> QED BY <1>1, <1>2, <1>3, <1>4 DEF ScreenInv, ListensInv

LEMMA ScreenInitial == ScreenInit => ScreenInv
  <1> SUFFICES ASSUME ScreenInit PROVE ScreenInv OBVIOUS
  <1>1. /\ ui_mode = "NORMAL" /\ menu_stack = <<"top">> /\ mode = "input"
        /\ awaiting = FALSE /\ stuck = FALSE /\ astray = FALSE
    BY DEF ScreenInit
  <1>2. Stacked(menu_stack) /\ ~HasOutputForm(menu_stack) BY <1>1, TopStacked
  <1>3. Screen \in Screens BY <1>1, <1>2 DEF Screen, Screens, Stacked
  <1> QED BY <1>1, <1>2, <1>3 DEF ScreenInv, ListensInv, OutputFormInOutput, Modes

LEMMA ScreenStep == ScreenInv /\ [ScreenNext]_screenVars => ScreenInv'
  <1> SUFFICES ASSUME ScreenInv, [ScreenNext]_screenVars PROVE ScreenInv' OBVIOUS
  <1>1. CASE UNCHANGED screenVars
    BY <1>1 DEF screenVars, histories, ScreenInv, Screen, ListensInv, OutputFormInOutput, HasOutputForm
  <1>2. CASE EnterKeypad BY <1>2, KeypadKept DEF EnterKeypad
  <1>3. CASE InvokeByUser \/ InvokeByCommand
    BY <1>3, InvokeKept DEF InvokeByUser, InvokeByCommand
  <1>4. CASE LeaveMenu BY <1>4, ScreenTyped, NormalScreen, ShowsSame DEF LeaveMenu
  <1>5. CASE EndMenuCommand
    BY <1>5 DEF EndMenuCommand, histories, ScreenInv, Screen, ListensInv, OutputFormInOutput,
                HasOutputForm
  <1> QED BY <1>1, <1>2, <1>3, <1>4, <1>5, EnterKept, CloseKept, CommandsKept, TextKept,
             RestartKept DEF ScreenNext

LEMMA ScreenInvariant == ScreenSpec => []ScreenInv
  BY ScreenInitial, ScreenStep, PTL DEF ScreenSpec

\* On a keypad Thread1 is in its loop, but for those that cmd_menu or cmd_text leave open
\* (ui.c:7471-7500, 7839-7886; main.c:963-998).
THEOREM AlwaysKeypadListens == ScreenSpec => []KeypadListens
  <1>1. ScreenInv => KeypadListens BY DEF ScreenInv, ListensInv, KeypadListens
  <1> QED BY <1>1, ScreenInvariant, PTL

\* The form of an output mode is on the stack in that mode only, but for the modes that
\* change below it: by a preset, the factory settings, a self test or calibration, ENABLE
\* ULTRA or the correction of an input level (ui.c:1700-1805, 2140-2230, 2823-2848;
\* sa_cmd.c:59-80).
THEOREM AlwaysOutputFormInOutput == ScreenSpec => []OutputFormInOutput
  <1>1. ScreenInv => OutputFormInOutput BY DEF ScreenInv
  <1> QED BY <1>1, ScreenInvariant, PTL

-----------------------------------------------------------------------------
(***************************************************************************)
(* The bookkeeping of normalized traces stays consistent for any number of    *)
(* traces.  It has to be consistent in the saved preset too, which a recall    *)
(* brings back; and a reference that nothing has replaced is kept because it    *)
(* is frozen, shows no table, and is not the current trace of the menus: each    *)
(* step that makes it so has marked it as overridden.                             *)
(***************************************************************************)

\* The settings that a preset keeps, well typed and consistent.
Consistent(frozen, norm, trace) ==
  /\ frozen \in [Traces -> BOOLEAN] /\ norm \in [Traces -> BOOLEAN]
  /\ trace \in Traces \union {-1}
  /\ IF trace = -1 THEN \A t \in Traces : ~norm[t] ELSE norm[trace] /\ ~norm[TRACE_TEMP]

SettingsInv == Consistent(stored, normalized, normalized_trace)

PresetInv ==
  /\ preset = [stored |-> preset.stored, normalized |-> preset.normalized, trace |-> preset.trace,
               table |-> preset.table]
  /\ Consistent(preset.stored, preset.normalized, preset.trace)

ReferenceInv ==
  /\ current_trace \in Traces
  /\ normalized_trace # -1 /\ ~overridden =>
       reference /\ stored[TRACE_TEMP] /\ current_trace # TRACE_TEMP

TraceInv == SettingsInv /\ PresetInv /\ ReferenceInv

\* TRACE_TEMP is a trace.
LEMMA TempIsTrace == TRACE_TEMP \in Traces /\ 0 \in Traces /\ -1 \notin Traces
  BY TracesAssumption DEF TRACE_TEMP, Traces

LEMMA TracesInit == TraceInit => TraceInv
  <1> SUFFICES ASSUME TraceInit PROVE TraceInv OBVIOUS
  <1>1. Consistent(None, None, -1) BY DEF Consistent, None
  <1> QED BY <1>1, TempIsTrace DEF TraceInit, TraceInv, SettingsInv, PresetInv, ReferenceInv

\* Normalizing a trace other than TRACE_TEMP keeps the settings consistent.
LEMMA ToggleConsistent ==
  ASSUME TraceInv, ToggleNormalize
  PROVE  SettingsInv' /\ ReferenceInv' /\ UNCHANGED preset
  <1> DEFINE t == current_trace
  <1>1. /\ t \in Traces /\ t # TRACE_TEMP /\ Consistent(stored, normalized, normalized_trace)
        /\ current_trace' = t /\ preset' = preset
    BY DEF ToggleNormalize, TraceInv, SettingsInv, ReferenceInv, NormalizeOn, NormalizeOff
  <1>2. CASE NormalizeOn(t)
    <2>1. CASE normalized_trace = -1
      BY <1>1, <1>2, <2>1, TempIsTrace
      DEF NormalizeOn, Copied, Consistent, SettingsInv, ReferenceInv
    <2>2. CASE normalized_trace # -1
      BY <1>1, <1>2, <2>2, TempIsTrace
      DEF NormalizeOn, Consistent, SettingsInv, ReferenceInv, TraceInv
    <2> QED BY <2>1, <2>2
  <1>3. CASE NormalizeOff(t)
    <2>1. CASE normalized_trace = t
      BY <1>1, <1>3, <2>1, TempIsTrace
      DEF NormalizeOff, Losing, Consistent, SettingsInv, ReferenceInv, TraceInv
    <2>2. CASE normalized_trace # t
      BY <1>1, <1>3, <2>2, TempIsTrace
      DEF NormalizeOff, Losing, Consistent, SettingsInv, ReferenceInv, TraceInv
    <2> QED BY <2>1, <2>2
  <1> QED BY <1>2, <1>3 DEF ToggleNormalize, SettingsInv, ReferenceInv

\* Showing some tables, whichever they are, keeps the settings consistent.
LEMMA TablesKeep ==
  ASSUME TraceInv, UpdateLimits \/ ChooseTable
  PROVE  TraceInv'
  <1> USE TempIsTrace DEF TraceInv
  <1>1. ASSUME NEW tables, Shown(tables), UNCHANGED <<normalized, normalized_trace, current_trace, preset>>
        PROVE  TraceInv'
    <2>1. PICK filled \in SUBSET tables :
            /\ stored' = [t \in Traces |-> IF t \in tables THEN t \in filled ELSE stored[t]]
            /\ reference' = (reference /\ TRACE_TEMP \notin filled)
            /\ overridden' = (overridden \/ TRACE_TEMP \in tables)
      BY <1>1, Zenon DEF Shown
    <2>2. SettingsInv'
      <3>1. stored \in [Traces -> BOOLEAN] BY DEF SettingsInv, Consistent
      <3>2. ASSUME NEW t \in Traces
            PROVE  (IF t \in tables THEN t \in filled ELSE stored[t]) \in BOOLEAN
        <4>1. stored[t] \in BOOLEAN /\ (t \in filled) \in BOOLEAN BY <3>1
        <4> QED BY <4>1, Zenon
      <3>3. stored' \in [Traces -> BOOLEAN] BY <2>1, <3>2, Zenon
      <3> QED BY <1>1, <3>3 DEF SettingsInv, Consistent
    <2>3. ReferenceInv' BY <1>1, <2>1 DEF ReferenceInv
    <2> QED BY <1>1, <2>2, <2>3 DEF PresetInv
  <1>2. ASSUME UNCHANGED <<stored, normalized, normalized_trace, current_trace, preset, reference,
                           overridden>>
        PROVE  TraceInv'
    BY <1>2 DEF SettingsInv, PresetInv, ReferenceInv
  <1> QED BY <1>1, <1>2 DEF UpdateLimits, ChooseTable

LEMMA TracesStep == TraceInv /\ [TraceNext]_traceVars => TraceInv'
  <1> SUFFICES ASSUME TraceInv, [TraceNext]_traceVars PROVE TraceInv' OBVIOUS
  <1> USE TempIsTrace DEF TraceInv
  <1>1. CASE Sweep
    BY <1>1 DEF Sweep, settings, SettingsInv, PresetInv, ReferenceInv
  <1>2. CASE ToggleNormalize
    BY <1>2, ToggleConsistent DEF PresetInv
  <1>3. ASSUME NEW t \in Traces, SelectTrace(t) \/ EnterLevel(t) PROVE TraceInv'
    BY <1>3 DEF SelectTrace, EnterLevel, settings, SettingsInv, PresetInv, ReferenceInv
  <1>4. ASSUME NEW t \in Traces, LeaveTable(t) PROVE TraceInv'
    BY <1>4 DEF LeaveTable, SettingsInv, PresetInv, ReferenceInv, Consistent
  <1>5. ASSUME NEW f \in Traces, NEW t \in Traces, StoreTrace(f, t) PROVE TraceInv'
    BY <1>5 DEF StoreTrace, Copied, SettingsInv, PresetInv, ReferenceInv, Consistent
  <1>6. CASE FreezeFromMenu \/ LoadLevels
    BY <1>6 DEF FreezeFromMenu, LoadLevels, SettingsInv, PresetInv, ReferenceInv, Consistent
  <1>7. ASSUME NEW t \in Traces, NEW on \in BOOLEAN, FreezeFromConsole(t, on) PROVE TraceInv'
    BY <1>7 DEF FreezeFromConsole, SettingsInv, PresetInv, ReferenceInv, Consistent
  <1>8. CASE ToggleDebug
    BY <1>8 DEF ToggleDebug, SettingsInv, PresetInv, ReferenceInv, Consistent
  <1>9. ASSUME NEW t \in Traces, TriggerTrace(t) PROVE TraceInv'
    BY <1>9 DEF TriggerTrace, SettingsInv, PresetInv, ReferenceInv, Consistent
  <1>10. CASE UpdateLimits \/ ChooseTable
    BY <1>10, TablesKeep
  <1>11. CASE ResetSettings
    <2>1. PICK frozen \in {{}, {TRACE_STORED}} : stored' = [t \in Traces |-> t \in frozen]
      BY <1>11 DEF ResetSettings
    <2>2. \A t \in Traces : (t \in frozen) \in BOOLEAN OBVIOUS
    <2>3. stored' \in [Traces -> BOOLEAN] BY <2>1, <2>2, Zenon
    <2> QED BY <1>11, <2>3 DEF ResetSettings, None, SettingsInv, PresetInv, ReferenceInv, Consistent
  <1>12. CASE SavePreset
    BY <1>12 DEF SavePreset, settings, SettingsInv, PresetInv, ReferenceInv
  <1>13. CASE RecallPreset
    BY <1>13 DEF RecallPreset, SettingsInv, PresetInv, ReferenceInv
  <1>14. CASE UNCHANGED traceVars
    BY <1>14 DEF traceVars, settings, SettingsInv, PresetInv, ReferenceInv
  <1> QED
    BY <1>1, <1>2, <1>3, <1>4, <1>5, <1>6, <1>7, <1>8, <1>9, <1>10, <1>11, <1>12, <1>13, <1>14
    DEF TraceNext

LEMMA TracesInvariant == TraceSpec => []TraceInv
  BY TracesInit, TracesStep, PTL DEF TraceSpec

\* However traces are frozen, copied, normalized, reset and recalled, a trace is normalized
\* only as long as the one the reference was taken from is (sa_core.c:1545-1570).
THEOREM AlwaysNormalizedTogether == TraceSpec => []NormalizedTogether
  <1>1. TraceInv => NormalizedTogether
    BY DEF TraceInv, SettingsInv, Consistent, NormalizedTogether
  <1> QED BY <1>1, TracesInvariant, PTL

\* As long as nothing replaces or thaws the reference on request, no preset is recalled, no
\* sweep debugged and no table of levels put on its trace, it is there while traces are
\* normalized (sa_core.c:1441-1473, 1545-1570, 5575-5587; ui.c:3308-3332).
THEOREM AlwaysReferenceKept == TraceSpec => []ReferenceKept
  <1>1. TraceInv => ReferenceKept
    BY DEF TraceInv, ReferenceInv, ReferenceKept
  <1> QED BY <1>1, TracesInvariant, PTL

-----------------------------------------------------------------------------
(***************************************************************************)
(* The bands, for any number of them, of points, and any precision of the      *)
(* step.  The points that a band holds are counted, the counts summed up: a      *)
(* band that does not hold all points holds as many as its width asks for, but    *)
(* for what rounding takes away, so that together they have room for all.          *)
(***************************************************************************)

\* The sums of the first values of a row, one after the other.
Sums(g, f, n) == g[0] = 0 /\ \A i \in 1 .. n : g[i] = g[i - 1] + f[i - 1]

\* A sum is the last of them.
LEMMA BelowIsLast ==
  ASSUME NEW n \in Nat, NEW f, \A i \in 0 .. n - 1 : f[i] \in Int
  PROVE  \E g \in [0 .. n -> Int] : Sums(g, f, n) /\ Multi!Below(f, n) = g[n]
  <1> DEFINE G(g, c) == IF c = 0 THEN 0 ELSE g[c - 1] + f[c - 1]
             sum == CHOOSE g : g = [c \in 0 .. n |-> G(g, c)]
             step == [i \in 1 .. n |-> [x \in Int |-> x + f[i - 1]]]
  <1>1. \A i \in 1 .. n : i - 1 \in 0 .. n - 1 /\ i - 1 \in 0 .. n OBVIOUS
  <1>2. step \in [1 .. n -> [Int -> Int]] BY <1>1
  <1>3. \A i \in 1 .. n, x \in Int : step[i][x] = x + f[i - 1] OBVIOUS
  <1> HIDE DEF step
  <1>4. PICK g \in [0 .. n -> Int] : g[0] = 0 /\ \A i \in 1 .. n : g[i] = step[i][g[i - 1]]
    <2> DEFINE X == Int
               base == 0
    <2>1. base \in X /\ step \in StepTables(X, n) BY <1>2 DEF StepTables
    <2> HIDE DEF X, base
    <2>2. \E g \in [0 .. n -> X] : g[0] = base /\ \A i \in 1 .. n : g[i] = step[i][g[i - 1]]
      BY <2>1, Recursion
    <2> QED BY <2>2 DEF X, base
  <1>5. Sums(g, f, n) BY <1>1, <1>3, <1>4 DEF Sums
  <1>6. \A c \in 0 .. n : g[c] = G(g, c)
    <2> SUFFICES ASSUME NEW c \in 0 .. n PROVE g[c] = G(g, c) OBVIOUS
    <2>1. c = 0 \/ c \in 1 .. n OBVIOUS
    <2> QED BY <1>5, <2>1 DEF Sums
  <1> HIDE DEF G
  <1>7. g = [c \in 0 .. n |-> G(g, c)] BY <1>4, <1>6
  <1>8. sum = [c \in 0 .. n |-> G(sum, c)] BY <1>7
  <1> HIDE DEF sum
  <1>9. \A c \in 0 .. n : sum[c] = G(sum, c) BY <1>8
  <1> DEFINE S == {c \in 0 .. n : sum[c] = g[c]}
  <1>10. 0 \in S BY <1>6, <1>9 DEF G
  <1>11. \A i \in 1 .. n : i - 1 \in S => i \in S
    <2> SUFFICES ASSUME NEW i \in 1 .. n, i - 1 \in S PROVE i \in S OBVIOUS
    <2>1. i \in 0 .. n /\ i # 0 /\ sum[i - 1] = g[i - 1] OBVIOUS
    <2>2. G(sum, i) = G(g, i) BY <2>1 DEF G
    <2> QED BY <1>6, <1>9, <2>1, <2>2
  <1> HIDE DEF S
  <1>12. n \in S
    <2>1. \A i \in 0 .. n : i \in S BY <1>10, <1>11, Induction
    <2> QED BY <2>1
  <1>13. Multi!Below(f, n) = sum[n] BY DEF Multi!Below, sum, G
  <1> QED BY <1>5, <1>12, <1>13 DEF S

\* The sums of all beginnings.
LEMMA BelowSums ==
  ASSUME NEW n \in Nat, NEW f, \A i \in 0 .. n - 1 : f[i] \in Int
  PROVE  \E g \in [0 .. n -> Int] : Sums(g, f, n) /\ \A i \in 0 .. n : Multi!Below(f, i) = g[i]
  <1>1. PICK g \in [0 .. n -> Int] : Sums(g, f, n) /\ Multi!Below(f, n) = g[n] BY BelowIsLast
  <1>2. ASSUME NEW m \in 0 .. n PROVE Multi!Below(f, m) = g[m]
    <2>1. m \in Nat /\ \A i \in 0 .. m - 1 : f[i] \in Int OBVIOUS
    <2>2. PICK h \in [0 .. m -> Int] : Sums(h, f, m) /\ Multi!Below(f, m) = h[m]
      BY <2>1, BelowIsLast
    <2> DEFINE S == {c \in 0 .. m : h[c] = g[c]}
    <2>3. 0 \in S BY <1>1, <2>2 DEF Sums
    <2>4. \A i \in 1 .. m : i - 1 \in S => i \in S
      <3> SUFFICES ASSUME NEW i \in 1 .. m, i - 1 \in S PROVE i \in S OBVIOUS
      <3>1. i \in 1 .. n /\ i \in 0 .. m /\ h[i - 1] = g[i - 1] OBVIOUS
      <3>2. h[i] = h[i - 1] + f[i - 1] BY <2>2 DEF Sums
      <3>3. g[i] = g[i - 1] + f[i - 1] BY <1>1, <3>1 DEF Sums
      <3> QED BY <3>1, <3>2, <3>3
    <2> HIDE DEF S
    <2>5. \A i \in 0 .. m : i \in S BY <2>1, <2>3, <2>4, Induction
    <2> QED BY <2>2, <2>5 DEF S
  <1> QED BY <1>1, <1>2

-----------------------------------------------------------------------------
(* The bands.                                                                *)

AnyRows == [enabled : BOOLEAN, start : Nat, end : Nat, start_index : Nat, stop_index : Nat]
Rows == [Multi!Bands -> AnyRows]

BandTypes ==
  /\ bands \in Rows
  /\ multi_band \in BOOLEAN /\ updated \in BOOLEAN
  /\ band_points \in BandPoints
  /\ f_band_index \in [0 .. POINTS_COUNT - 1 -> Multi!Bands]

\* What update_bands computes of the bands bs, for n points.
Capacities(bs, n) == [b \in Multi!Bands |-> Multi!Capacity(bs, Multi!Span(bs), n, b)]
First(bs, n, b) == Multi!Below(Capacities(bs, n), b)
Takes(bs, n, b, idx) ==
  bs[b].enabled /\ idx \in First(bs, n, b) .. First(bs, n, b) + Capacities(bs, n)[b] - 1
Marked(bs, n, b) ==
  IF ~(bs[b].enabled /\ First(bs, n, b) < n) THEN bs[b]
  ELSE [bs[b] EXCEPT
          !.start_index = First(bs, n, b),
          !.stop_index = IF Capacities(bs, n)[b] = 0 THEN @
                         ELSE IF First(bs, n, b) + Capacities(bs, n)[b] < n
                              THEN First(bs, n, b) + Capacities(bs, n)[b] - 1 ELSE n - 1]
Given(bs, n, index, idx) ==
  IF idx < n /\ \E b \in Multi!Bands : Takes(bs, n, b, idx)
  THEN CHOOSE b \in Multi!Bands : Takes(bs, n, b, idx) ELSE index[idx]

LEMMA DealtIs ==
  ASSUME NEW bs, NEW n, NEW index
  PROVE  Multi!Dealt(bs, n, index) =
           [bands |-> [b \in Multi!Bands |-> Marked(bs, n, b)],
            index |-> [idx \in DOMAIN index |-> Given(bs, n, index, idx)]]
  BY DEF Multi!Dealt, Marked, Given, Takes, First, Capacities

\* Multiples keep their order.
LEMMA Multiplied ==
  \A a \in Nat, x, y \in Int : x <= y => a * x <= a * y
  OBVIOUS

\* A quotient as a float has it is at most half a step too large.
LEMMA RoundedAtMost ==
  ASSUME NEW num \in Nat, NEW den \in Nat, den >= 1
  PROVE  /\ Multi!Rounded(num, den) \in Int
         /\ 2 * (den * Multi!Rounded(num, den)) <= 2 * num + (Granularity * den)
  <1> DEFINE G == Granularity
             x == 2 * num + (G * den)
             C == 2 * G * den
             q == x \div C
  <1>1. G \in Nat /\ G >= 1 BY BandsAssumption
  <1>2. G * den \in Nat /\ G * den >= 1 BY <1>1
  <1>3. C = 2 * (G * den) BY <1>1
  <1>4. x \in Nat /\ C \in Nat /\ C >= 1 BY <1>2, <1>3
  <1>5. q \in Int /\ x % C \in 0 .. C - 1 /\ x = (C * q) + (x % C) BY <1>4, DivMod
  <1>6. C * q <= x BY <1>4, <1>5
  <1>7. C * q = 2 * (den * (G * q)) BY <1>1, <1>3, <1>5
  <1>8. Multi!Rounded(num, den) = G * q BY DEF Multi!Rounded
  <1>9. G * q \in Int BY <1>1, <1>5
  <1> HIDE DEF q, C
  <1> QED BY <1>6, <1>7, <1>8, <1>9

\* Finite parts of the points.
LEMMA PointsCounted ==
  ASSUME NEW n \in Nat, NEW K \in SUBSET (0 .. n - 1)
  PROVE  /\ Cardinality(K) \in 0 .. n
         /\ \A c \in Nat : 0 .. c \subseteq K => c + 1 <= Cardinality(K)
  <1>1. IsFiniteSet(0 .. n - 1) /\ Cardinality(0 .. n - 1) = n BY FS_Interval
  <1>2. /\ IsFiniteSet(K) /\ Cardinality(K) \in Nat
        /\ Cardinality(K) <= n
    BY <1>1, FS_Subset, FS_CardinalityType
  <1>3. ASSUME NEW c \in Nat, 0 .. c \subseteq K PROVE c + 1 <= Cardinality(K)
    <2>1. Cardinality(0 .. c) = c + 1 BY FS_Interval
    <2> QED BY <1>2, <1>3, <2>1, FS_Subset
  <1> QED BY <1>2, <1>3

LEMMA SameCount == \A A : Multi!Cardinality(A) = Cardinality(A)
  BY DEF Multi!Cardinality, Cardinality

\* A band that does not hold all points holds as many as its width asks for, but for what
\* the rounding takes away.
LEMMA CapacityFacts ==
  ASSUME NEW n \in Nat, n >= 1, NEW span \in Nat, NEW bs \in Rows, NEW b \in Multi!Bands
  PROVE  /\ Multi!Capacity(bs, span, n, b) \in 0 .. n
         /\ bs[b].enabled \/ Multi!Capacity(bs, span, n, b) = 0
         /\ \/ ~bs[b].enabled
            \/ Multi!Capacity(bs, span, n, b) = n
            \/ n * ((2 * (bs[b].end - bs[b].start)) - Granularity)
                 <= 2 * (span * Multi!Capacity(bs, span, n, b))
  <1> DEFINE s == bs[b].start
             e == bs[b].end
             w == e - s
             G == Granularity
             K == {k \in 0 .. n - 1 : Multi!Rounded(s * n + k * span, n) < e}
             c == Cardinality(K)
  <1>1. CASE ~bs[b].enabled BY <1>1 DEF Multi!Capacity
  <1>2. CASE bs[b].enabled
    <2>1. Multi!Capacity(bs, span, n, b) = c BY <1>2, SameCount DEF Multi!Capacity
    <2>2. s \in Nat /\ e \in Nat /\ G \in Nat /\ G >= 1
      BY BandsAssumption DEF Rows, AnyRows
    <2>3. K \in SUBSET (0 .. n - 1) OBVIOUS
    <2> HIDE DEF K
    <2>4. c \in 0 .. n /\ \A m \in Nat : 0 .. m \subseteq K => m + 1 <= c
      BY <2>3, PointsCounted
    <2> HIDE DEF c
    <2>5. ASSUME c < n, 2 * (span * c) < n * ((2 * w) - G) PROVE FALSE
      <3>1. ASSUME NEW k \in 0 .. c PROVE k \in K
        <4>1. k \in 0 .. n - 1 /\ k \in Nat /\ k <= c BY <2>4, <2>5
        <4>2. span * k <= span * c BY <2>4, <4>1, Multiplied
        <4>3. s * n \in Nat /\ k * span \in Nat /\ k * span = span * k BY <2>2, <4>1
        <4> DEFINE num == s * n + k * span
                   r == Multi!Rounded(num, n)
        <4>4. num \in Nat BY <4>3
        <4>5. r \in Int /\ 2 * (n * r) <= 2 * num + (G * n) BY <4>4, RoundedAtMost
        <4> HIDE DEF r
        <4>6. span * k \in Int /\ span * c \in Int BY <2>4, <4>1
        <4>7. n * ((2 * w) - G) = (2 * (n * e)) - (2 * (s * n)) - (G * n) BY <2>2
        <4>8. n * e \in Int /\ G * n \in Int BY <2>2
        <4>9. n * r \in Int BY <4>5
        <4>10. n * r < n * e
          BY <2>5, <4>2, <4>3, <4>5, <4>6, <4>7, <4>8, <4>9
        <4>11. r < e
          <5>1. SUFFICES ASSUME e <= r PROVE FALSE BY <2>2, <4>5
          <5>2. n * e <= n * r BY <2>2, <4>5, <5>1, Multiplied
          <5> QED BY <4>8, <4>9, <4>10, <5>2
        <4> QED BY <4>1, <4>11 DEF K, r
      <3>2. c \in Nat /\ c + 1 <= c BY <2>4, <3>1
      <3> QED BY <3>2
    <2>6. n * ((2 * w) - G) \in Int /\ 2 * (span * c) \in Int BY <2>2, <2>4
    <2>7. c = n \/ n * ((2 * w) - G) <= 2 * (span * c) BY <2>4, <2>5, <2>6
    <2> QED BY <1>2, <2>1, <2>4, <2>7
  <1> QED BY <1>1, <1>2

\* Sums of numbers do not fall below zero.
LEMMA SumsNatural ==
  ASSUME NEW n \in Nat, NEW f, \A i \in 0 .. n - 1 : f[i] \in Nat,
         NEW g \in [0 .. n -> Int], Sums(g, f, n)
  PROVE  \A i \in 0 .. n : g[i] \in Nat
  <1> DEFINE S == {i \in 0 .. n : g[i] \in Nat}
  <1>1. 0 \in S BY DEF Sums
  <1>2. \A i \in 1 .. n : i - 1 \in S => i \in S
    <2> SUFFICES ASSUME NEW i \in 1 .. n, i - 1 \in S PROVE i \in S OBVIOUS
    <2>1. i - 1 \in 0 .. n - 1 /\ g[i - 1] \in Nat OBVIOUS
    <2>2. g[i] = g[i - 1] + f[i - 1] BY DEF Sums
    <2>3. f[i - 1] \in Nat BY <2>1
    <2> QED BY <2>1, <2>2, <2>3
  <1> HIDE DEF S
  <1>3. \A i \in 0 .. n : i \in S BY <1>1, <1>2, Induction
  <1> QED BY <1>3 DEF S

\* No band has been moved below zero, and the step between points is wide enough.
Wide(bs, n) ==
  /\ \A b \in Multi!Bands : bs[b].start <= bs[b].end
  /\ 2 * Multi!Span(bs) > BANDS_MAX * Granularity * n

Widths(bs) == [b \in Multi!Bands |-> Multi!Width(bs, b)]

LEMMA SpanFacts ==
  ASSUME NEW bs \in Rows, \A b \in Multi!Bands : bs[b].start <= bs[b].end
  PROVE  /\ \A b \in 0 .. BANDS_MAX - 1 :
              /\ Widths(bs)[b] \in Nat
              /\ Widths(bs)[b] = IF bs[b].enabled THEN bs[b].end - bs[b].start ELSE 0
         /\ Multi!Span(bs) \in Nat /\ Multi!Below(Widths(bs), BANDS_MAX) \in Nat
         /\ Multi!Span(bs) <= Multi!Below(Widths(bs), BANDS_MAX)
  <1>1. \A b \in 0 .. BANDS_MAX - 1 :
          Widths(bs)[b] = IF bs[b].enabled THEN bs[b].end - bs[b].start ELSE 0
    BY DEF Widths, Multi!Width, Multi!Bands
  <1>2. \A b \in 0 .. BANDS_MAX - 1 : Widths(bs)[b] \in Nat
    BY <1>1 DEF Rows, AnyRows, Multi!Bands
  <1>3. BANDS_MAX \in Nat /\ BANDS_MAX \in 0 .. BANDS_MAX /\ Wrap \in Nat /\ Wrap >= 1
    BY BandsAssumption
  <1>4. \A b \in 0 .. BANDS_MAX - 1 : Widths(bs)[b] \in Int BY <1>2
  <1>5. PICK g \in [0 .. BANDS_MAX -> Int] :
          Sums(g, Widths(bs), BANDS_MAX) /\ Multi!Below(Widths(bs), BANDS_MAX) = g[BANDS_MAX]
    BY <1>3, <1>4, BelowIsLast
  <1>6. g[BANDS_MAX] \in Nat BY <1>2, <1>3, <1>5, SumsNatural
  <1> DEFINE total == Multi!Below(Widths(bs), BANDS_MAX)
  <1>7. total \in Nat BY <1>5, <1>6
  <1>8. Multi!Span(bs) = total % Wrap BY DEF Multi!Span, Widths
  <1> HIDE DEF total
  <1>9. total % Wrap \in 0 .. Wrap - 1 /\ total = (Wrap * (total \div Wrap)) + (total % Wrap)
        /\ total \div Wrap \in Int
    BY <1>3, <1>7, DivMod
  <1>10. total % Wrap <= total
    <2>1. total \div Wrap >= 0 BY <1>3, <1>7
    <2>2. Wrap * (total \div Wrap) >= 0 BY <1>3, <1>9, <2>1
    <2> QED BY <1>3, <1>9, <2>2
  <1> QED BY <1>1, <1>2, <1>7, <1>8, <1>9, <1>10 DEF total

LEMMA Distributes ==
  \A a, x, y, z, w \in Int :
    /\ a * ((2 * x) - (y + z)) = (a * ((2 * x) - y)) - (a * z)
    /\ a * ((2 * (x + w)) - (y + z)) = (a * ((2 * x) - y)) + (a * ((2 * w) - z))
  OBVIOUS

\* The bands have room for all points.
LEMMA AllDealt ==
  ASSUME NEW n \in Nat, n >= 1, NEW bs \in Rows, Wide(bs, n),
         NEW g \in [0 .. BANDS_MAX -> Int], Sums(g, Capacities(bs, n), BANDS_MAX),
         \A i \in 0 .. BANDS_MAX : g[i] \in Nat
  PROVE  n <= g[BANDS_MAX]
  <1> DEFINE G == Granularity
             span == Multi!Span(bs)
             N == BANDS_MAX
             f == Widths(bs)
  <1>1. /\ N \in Nat /\ N >= 1 /\ N \in 0 .. N /\ G \in Nat
        /\ \A b \in Multi!Bands : bs[b].start <= bs[b].end
    BY BandsAssumption DEF Wide
  <1>2. span \in Nat /\ \A b \in 0 .. N - 1 : f[b] \in Nat BY <1>1, SpanFacts
  <1>3. PICK h \in [0 .. N -> Int] : Sums(h, f, N) /\ Multi!Below(f, N) = h[N]
    <2> HIDE DEF f
    <2>1. N \in Nat /\ \A b \in 0 .. N - 1 : f[b] \in Int BY <1>1, <1>2
    <2> QED BY <2>1, BelowIsLast
  <1>4. span <= h[N] BY <1>1, <1>3, SpanFacts
  <1>5. 2 * span > (N * G) * n BY DEF Wide
  <1> DEFINE Room(i) == n <= g[i] \/ n * ((2 * h[i]) - (i * G)) <= 2 * (span * g[i])
             S == {i \in 0 .. N : Room(i)}
  <1>6. 0 \in S
    <2>1. g[0] = 0 /\ h[0] = 0 BY <1>3 DEF Sums
    <2>2. 0 * G = 0 /\ span * 0 = 0 BY <1>1, <1>2
    <2>3. n * ((2 * 0) - 0) <= 2 * 0 OBVIOUS
    <2>4. Room(0) BY <2>1, <2>2, <2>3
    <2> QED BY <1>1, <2>4
  <1>7. \A i \in 1 .. N : i - 1 \in S => i \in S
    <2> SUFFICES ASSUME NEW i \in 1 .. N, i - 1 \in S PROVE Room(i) OBVIOUS
    <2> DEFINE j == i - 1
               c == Capacities(bs, n)[j]
               w == bs[j].end - bs[j].start
    <2>1. j \in 0 .. N - 1 /\ j \in 0 .. N /\ j \in Multi!Bands /\ i \in 0 .. N /\ i \in Nat
          /\ j \in Nat /\ i = j + 1
      BY <1>1 DEF Multi!Bands
    <2>2. Room(j) OBVIOUS
    <2>3. g[i] = g[j] + c /\ h[i] = h[j] + f[j] BY <1>3 DEF Sums
    <2>4. g[j] \in Nat /\ h[j] \in Int /\ w \in Int BY <2>1 DEF Rows, AnyRows
    <2>5. c = Multi!Capacity(bs, span, n, j) BY <2>1 DEF Capacities
    <2>6. /\ c \in 0 .. n
          /\ bs[j].enabled \/ c = 0
          /\ ~bs[j].enabled \/ c = n \/ n * ((2 * w) - G) <= 2 * (span * c)
      BY <1>2, <2>1, <2>5, CapacityFacts
    <2>7. f[j] = IF bs[j].enabled THEN w ELSE 0 BY <1>1, <2>1, SpanFacts
    <2> HIDE DEF j, c, w, f, span
    <2>8. CASE n <= g[j]
      BY <2>3, <2>4, <2>6, <2>8
    <2>9. CASE c = n
      BY <2>3, <2>4, <2>6, <2>9
    <2>10. ASSUME ~(n <= g[j]), c # n PROVE Room(i)
      <3> DEFINE A == n * ((2 * h[j]) - (j * G))
                 B == 2 * (span * g[j])
      <3>1. A <= B BY <2>2, <2>10
      <3>2. n * G \in Nat /\ j * G \in Nat /\ i * G = (j * G) + G BY <1>1, <2>1
      <3>3. B \in Int BY <1>2, <2>4
      <3>4. A \in Int BY <2>4, <3>2
      <3>5. CASE ~bs[j].enabled
        <4>1. g[i] = g[j] /\ h[i] = h[j] BY <2>3, <2>4, <2>6, <2>7, <3>5
        <4>2. n * ((2 * h[i]) - (i * G)) = A - (n * G)
          <5>1. n \in Int /\ h[j] \in Int /\ j * G \in Int /\ G \in Int BY <1>1, <2>4, <3>2
          <5> DEFINE x == h[j]
                     y == j * G
          <5>2. x \in Int /\ y \in Int BY <5>1
          <5> HIDE DEF x, y
          <5>3. n * ((2 * x) - (y + G)) = (n * ((2 * x) - y)) - (n * G)
            BY <5>1, <5>2, Distributes
          <5> QED BY <3>2, <4>1, <5>3 DEF x, y
        <4>3. 2 * (span * g[i]) = B BY <4>1
        <4> HIDE DEF A, B
        <4> QED BY <3>1, <3>2, <3>3, <3>4, <4>2, <4>3
      <3>6. CASE bs[j].enabled
        <4>1. n * ((2 * w) - G) <= 2 * (span * c) BY <2>6, <2>10, <3>6
        <4>2. h[i] = h[j] + w BY <2>3, <2>7, <3>6
        <4>3. n * ((2 * h[i]) - (i * G)) = A + (n * ((2 * w) - G))
          <5>1. n \in Int /\ h[j] \in Int /\ j * G \in Int /\ G \in Int /\ w \in Int
            BY <1>1, <2>4, <3>2
          <5> DEFINE x == h[j]
                     y == j * G
          <5>2. x \in Int /\ y \in Int BY <5>1
          <5> HIDE DEF x, y
          <5>3. n * ((2 * (x + w)) - (y + G)) = (n * ((2 * x) - y)) + (n * ((2 * w) - G))
            BY <5>1, <5>2, Distributes
          <5> QED BY <3>2, <4>2, <5>3 DEF x, y
        <4>4. 2 * (span * g[i]) = B + (2 * (span * c)) BY <1>2, <2>3, <2>4, <2>6
        <4>5. n * ((2 * w) - G) \in Int /\ 2 * (span * c) \in Int BY <1>1, <1>2, <2>4, <2>6
        <4> HIDE DEF A, B
        <4> QED BY <3>1, <3>3, <3>4, <4>1, <4>3, <4>4, <4>5
      <3> QED BY <3>5, <3>6
    <2> QED BY <2>8, <2>9, <2>10
  <1>8. N \in S
    <2> HIDE DEF S
    <2>1. \A i \in 0 .. N : i \in S BY <1>1, <1>6, <1>7, Induction
    <2> QED BY <1>1, <2>1
  <1>9. Room(N) BY <1>8
  <1>10. SUFFICES ASSUME g[N] <= n - 1, n * ((2 * h[N]) - (N * G)) <= 2 * (span * g[N])
         PROVE FALSE
    <2>1. g[N] \in Nat BY <1>1
    <2> QED BY <1>9, <2>1
  <1>11. g[N] \in Nat /\ h[N] \in Int BY <1>1
  <1> HIDE DEF span
  <1>12. span * g[N] <= span * (n - 1)
    <2>1. n - 1 \in Int /\ span \in Nat /\ g[N] \in Int BY <1>2, <1>11
    <2>2. g[N] <= n - 1 BY <1>10
    <2> QED BY <2>1, <2>2, Multiplied
  <1>13. n * span <= n * h[N] BY <1>2, <1>4, <1>11, Multiplied
  <1>14. span * (n - 1) = (n * span) - span BY <1>2
  <1>15. N * G \in Nat BY <1>1
  <1>16. n * ((2 * h[N]) - (N * G)) = (2 * (n * h[N])) - ((N * G) * n) BY <1>11, <1>15
  <1>17. span * g[N] \in Int /\ n * span \in Int /\ n * h[N] \in Int /\ (N * G) * n \in Int
    BY <1>2, <1>11, <1>15
  <1>18. \A d, x, y, z, t \in Int :
           2 * d > t /\ (2 * z) - t <= 2 * x /\ x <= y - d /\ y <= z => FALSE
    OBVIOUS
  <1>19. /\ (2 * (n * h[N])) - ((N * G) * n) <= 2 * (span * g[N])
         /\ span * g[N] <= (n * span) - span
    BY <1>10, <1>12, <1>14, <1>16
  <1>20. span \in Int BY <1>2
  <1> QED BY <1>5, <1>13, <1>17, <1>18, <1>19, <1>20

\* What a band can hold, and where it begins, are numbers.
LEMMA FirstFacts ==
  ASSUME NEW n \in Nat, n >= 1, NEW bs \in Rows, Multi!Span(bs) \in Nat
  PROVE  \E g \in [0 .. BANDS_MAX -> Int] :
           /\ Sums(g, Capacities(bs, n), BANDS_MAX)
           /\ \A i \in 0 .. BANDS_MAX : g[i] \in Nat
           /\ \A b \in Multi!Bands :
                /\ First(bs, n, b) = g[b] /\ g[b + 1] = g[b] + Capacities(bs, n)[b]
                /\ Capacities(bs, n)[b] \in 0 .. n
                /\ bs[b].enabled \/ Capacities(bs, n)[b] = 0
  <1> DEFINE N == BANDS_MAX
             f == Capacities(bs, n)
  <1>1. N \in Nat /\ Multi!Bands = 0 .. N - 1 BY BandsAssumption DEF Multi!Bands
  <1>2. \A b \in Multi!Bands : f[b] \in 0 .. n /\ (bs[b].enabled \/ f[b] = 0)
    <2> SUFFICES ASSUME NEW b \in Multi!Bands
                 PROVE  f[b] \in 0 .. n /\ (bs[b].enabled \/ f[b] = 0)
      OBVIOUS
    <2>1. f[b] = Multi!Capacity(bs, Multi!Span(bs), n, b) BY DEF Capacities
    <2> HIDE DEF f
    <2> QED BY <2>1, CapacityFacts
  <1> HIDE DEF f
  <1>3. \A i \in 0 .. N - 1 : f[i] \in Nat /\ f[i] \in Int BY <1>1, <1>2
  <1>4. PICK g \in [0 .. N -> Int] :
          Sums(g, f, N) /\ \A i \in 0 .. N : Multi!Below(f, i) = g[i]
    BY <1>1, <1>3, BelowSums
  <1>5. \A i \in 0 .. N : g[i] \in Nat BY <1>1, <1>3, <1>4, SumsNatural
  <1>6. ASSUME NEW b \in Multi!Bands
        PROVE  First(bs, n, b) = g[b] /\ g[b + 1] = g[b] + f[b]
    <2>1. b \in 0 .. N /\ b + 1 \in 1 .. N /\ b = (b + 1) - 1 BY <1>1
    <2>2. First(bs, n, b) = g[b] BY <1>4, <2>1 DEF First, f
    <2>3. g[b + 1] = g[(b + 1) - 1] + f[(b + 1) - 1] BY <1>4, <2>1 DEF Sums
    <2> QED BY <2>1, <2>2, <2>3
  <1> QED BY <1>2, <1>4, <1>5, <1>6 DEF f

\* Every point goes to some band.
LEMMA EveryPointTaken ==
  ASSUME NEW n \in Nat, n >= 1, NEW bs \in Rows, Wide(bs, n), NEW idx \in 0 .. n - 1
  PROVE  \E b \in Multi!Bands : Takes(bs, n, b, idx)
  <1> DEFINE N == BANDS_MAX
             f == Capacities(bs, n)
  <1>1. N \in Nat /\ N \in 0 .. N /\ Multi!Bands = 0 .. N - 1
    BY BandsAssumption DEF Multi!Bands
  <1>2. Multi!Span(bs) \in Nat BY SpanFacts DEF Wide
  <1>3. PICK g \in [0 .. N -> Int] :
           /\ Sums(g, f, N) /\ \A i \in 0 .. N : g[i] \in Nat
           /\ \A b \in Multi!Bands :
                /\ First(bs, n, b) = g[b] /\ g[b + 1] = g[b] + f[b]
                /\ f[b] \in 0 .. n /\ (bs[b].enabled \/ f[b] = 0)
    BY <1>2, FirstFacts
  <1>4. n <= g[N] BY <1>3, AllDealt
  <1> HIDE DEF f
  <1>5. SUFFICES ASSUME \A b \in Multi!Bands : ~Takes(bs, n, b, idx) PROVE FALSE OBVIOUS
  <1> DEFINE S == {i \in 0 .. N : g[i] <= idx}
  <1>6. 0 \in S BY <1>1, <1>3 DEF Sums
  <1>7. \A i \in 1 .. N : i - 1 \in S => i \in S
    <2> SUFFICES ASSUME NEW i \in 1 .. N, i - 1 \in S PROVE g[i] <= idx OBVIOUS
    <2>1. i - 1 \in Multi!Bands /\ (i - 1) + 1 = i /\ i \in 0 .. N BY <1>1
    <2>2. First(bs, n, i - 1) = g[i - 1] /\ g[i] = g[i - 1] + f[i - 1]
          /\ f[i - 1] \in 0 .. n /\ (bs[i - 1].enabled \/ f[i - 1] = 0)
      BY <1>3, <2>1
    <2>3. g[i - 1] \in Nat /\ g[i - 1] <= idx /\ g[i] \in Nat BY <1>3, <2>1
    <2>4. ~(bs[i - 1].enabled /\ idx \in g[i - 1] .. g[i - 1] + f[i - 1] - 1)
      BY <1>5, <2>1, <2>2 DEF Takes, f
    <2>5. CASE bs[i - 1].enabled BY <2>2, <2>3, <2>4, <2>5
    <2>6. CASE f[i - 1] = 0 BY <2>2, <2>3, <2>6
    <2> QED BY <2>2, <2>5, <2>6
  <1>8. N \in S
    <2> HIDE DEF S
    <2>1. \A i \in 0 .. N : i \in S BY <1>1, <1>6, <1>7, Induction
    <2> QED BY <1>1, <2>1
  <1> QED BY <1>1, <1>3, <1>4, <1>8

\* A band stays where it is, and its points lie between its marks.
LEMMA MarkedFacts ==
  ASSUME NEW n \in Nat, n >= 1, NEW bs \in Rows, Multi!Span(bs) \in Nat, NEW b \in Multi!Bands
  PROVE  /\ Marked(bs, n, b) \in AnyRows
         /\ Marked(bs, n, b).enabled = bs[b].enabled
         /\ Marked(bs, n, b).start = bs[b].start /\ Marked(bs, n, b).end = bs[b].end
         /\ \A idx \in 0 .. n - 1 : Takes(bs, n, b, idx) =>
              /\ bs[b].enabled
              /\ Marked(bs, n, b).start_index <= idx /\ idx <= Marked(bs, n, b).stop_index
  <1> DEFINE r == bs[b]
             c == Capacities(bs, n)[b]
             k == First(bs, n, b)
  <1>1. r \in AnyRows BY DEF Rows
  <1>2. k \in Nat /\ c \in 0 .. n
    <2>1. PICK g \in [0 .. BANDS_MAX -> Int] :
             /\ \A i \in 0 .. BANDS_MAX : g[i] \in Nat
             /\ k = g[b] /\ c \in 0 .. n
      BY FirstFacts
    <2>2. b \in 0 .. BANDS_MAX BY BandsAssumption DEF Multi!Bands
    <2> QED BY <2>1, <2>2
  <1>3. Marked(bs, n, b) =
          IF ~(r.enabled /\ k < n) THEN r
          ELSE [r EXCEPT !.start_index = k,
                         !.stop_index = IF c = 0 THEN r.stop_index
                                        ELSE IF k + c < n THEN k + c - 1 ELSE n - 1]
    BY DEF Marked
  <1>4. \A idx : Takes(bs, n, b, idx) <=> r.enabled /\ idx \in k .. k + c - 1 BY DEF Takes
  <1> HIDE DEF r, c, k
  <1>5. CASE ~(r.enabled /\ k < n)
    <2>1. Marked(bs, n, b) = r BY <1>3, <1>5
    <2>2. \A idx \in 0 .. n - 1 : ~(r.enabled /\ idx \in k .. k + c - 1) BY <1>2, <1>5
    <2> QED BY <1>1, <1>4, <2>1, <2>2 DEF r
  <1>6. CASE r.enabled /\ k < n
    <2> DEFINE stop == IF c = 0 THEN r.stop_index
                       ELSE IF k + c < n THEN k + c - 1 ELSE n - 1
    <2>1. stop \in Nat BY <1>1, <1>2 DEF AnyRows
    <2>2. \A idx \in 0 .. n - 1 : idx \in k .. k + c - 1 => k <= idx /\ idx <= stop BY <1>2
    <2>3. Marked(bs, n, b) = [r EXCEPT !.start_index = k, !.stop_index = stop] BY <1>3, <1>6
    <2> HIDE DEF stop
    <2>4. /\ Marked(bs, n, b) \in AnyRows
          /\ Marked(bs, n, b).enabled = r.enabled
          /\ Marked(bs, n, b).start = r.start /\ Marked(bs, n, b).end = r.end
          /\ Marked(bs, n, b).start_index = k /\ Marked(bs, n, b).stop_index = stop
      BY <1>1, <1>2, <2>1, <2>3 DEF AnyRows
    <2> QED BY <1>4, <1>6, <2>2, <2>4 DEF r
  <1> QED BY <1>5, <1>6

-----------------------------------------------------------------------------
(* The dealing of the points, and what it leaves.                            *)

\* The point idx lies in an enabled band, between its marks.
Lies(bs, index, idx) ==
  /\ bs[index[idx]].enabled
  /\ bs[index[idx]].start_index <= idx /\ idx <= bs[index[idx]].stop_index
  /\ bs[index[idx]].start <= bs[index[idx]].end

Laid == updated /\ Wide(bands, band_points) =>
          \A idx \in 0 .. band_points - 1 : Lies(bands, f_band_index, idx)

BandInv == BandTypes /\ Laid

LEMMA SpanNatural == ASSUME NEW bs \in Rows PROVE Multi!Span(bs) \in Nat
  <1>1. BANDS_MAX \in Nat /\ Wrap \in Nat /\ Wrap >= 1 BY BandsAssumption
  <1>2. \A b \in 0 .. BANDS_MAX - 1 : Widths(bs)[b] \in Int
    BY DEF Widths, Multi!Width, Rows, AnyRows, Multi!Bands
  <1>3. PICK g \in [0 .. BANDS_MAX -> Int] : Multi!Below(Widths(bs), BANDS_MAX) = g[BANDS_MAX]
    BY <1>1, <1>2, BelowIsLast
  <1>4. g[BANDS_MAX] \in Int BY <1>1
  <1>5. Multi!Span(bs) = g[BANDS_MAX] % Wrap BY <1>3 DEF Multi!Span, Widths
  <1>6. \A x \in Int : x % Wrap \in Int /\ x % Wrap >= 0 BY <1>1
  <1>7. g[BANDS_MAX] % Wrap \in Int /\ g[BANDS_MAX] % Wrap >= 0 BY <1>4, <1>6
  <1> QED BY <1>5, <1>7

LEMMA DealtFacts ==
  ASSUME NEW n \in BandPoints, NEW bs \in Rows,
         NEW index \in [0 .. POINTS_COUNT - 1 -> Multi!Bands]
  PROVE  /\ Multi!Dealt(bs, n, index).bands \in Rows
         /\ Multi!Dealt(bs, n, index).index \in [0 .. POINTS_COUNT - 1 -> Multi!Bands]
         /\ Wide(Multi!Dealt(bs, n, index).bands, n) =>
              \A idx \in 0 .. n - 1 :
                Lies(Multi!Dealt(bs, n, index).bands, Multi!Dealt(bs, n, index).index, idx)
  <1> DEFINE new == [b \in Multi!Bands |-> Marked(bs, n, b)]
             where == [idx \in 0 .. POINTS_COUNT - 1 |-> Given(bs, n, index, idx)]
  <1>1. Multi!Dealt(bs, n, index).bands = new /\ Multi!Dealt(bs, n, index).index = where
    BY DealtIs
  <1>2. n \in Nat /\ n >= 1 /\ Multi!Span(bs) \in Nat /\ 0 .. n - 1 \subseteq 0 .. POINTS_COUNT - 1
    BY SpanNatural, BandsAssumption
  <1>3. \A b \in Multi!Bands :
          /\ new[b] \in AnyRows /\ new[b].enabled = bs[b].enabled
          /\ new[b].start = bs[b].start /\ new[b].end = bs[b].end
          /\ \A idx \in 0 .. n - 1 : Takes(bs, n, b, idx) =>
               bs[b].enabled /\ new[b].start_index <= idx /\ idx <= new[b].stop_index
    BY <1>2, MarkedFacts
  <1>4. new \in Rows BY <1>3 DEF Rows
  <1>5. \A idx \in 0 .. POINTS_COUNT - 1 : where[idx] = Given(bs, n, index, idx) OBVIOUS
  <1>6. where \in [0 .. POINTS_COUNT - 1 -> Multi!Bands]
    <2> SUFFICES ASSUME NEW idx \in 0 .. POINTS_COUNT - 1
                 PROVE  Given(bs, n, index, idx) \in Multi!Bands
      OBVIOUS
    <2>1. index[idx] \in Multi!Bands OBVIOUS
    <2> QED BY <2>1 DEF Given
  <1>7. Multi!Span(new) = Multi!Span(bs)
    <2>1. \A b \in Multi!Bands : Multi!Width(new, b) = Multi!Width(bs, b)
      BY <1>3 DEF Multi!Width
    <2> HIDE DEF new
    <2>2. Widths(new) = Widths(bs) BY <2>1 DEF Widths
    <2> QED BY <2>2 DEF Multi!Span, Widths
  <1> HIDE DEF new, where
  <1>8. ASSUME Wide(new, n), NEW idx \in 0 .. n - 1 PROVE Lies(new, where, idx)
    <2>1. Wide(bs, n) BY <1>3, <1>7, <1>8 DEF Wide
    <2>2. \E b \in Multi!Bands : Takes(bs, n, b, idx) BY <1>2, <2>1, EveryPointTaken
    <2>3. where[idx] = CHOOSE b \in Multi!Bands : Takes(bs, n, b, idx)
      <3>1. idx < n /\ idx \in 0 .. POINTS_COUNT - 1 BY <1>2
      <3> QED BY <1>5, <2>2, <3>1 DEF Given
    <2>4. where[idx] \in Multi!Bands /\ Takes(bs, n, where[idx], idx) BY <2>2, <2>3
    <2>5. bs[where[idx]].start <= bs[where[idx]].end BY <2>1, <2>4 DEF Wide
    <2> QED BY <1>3, <2>4, <2>5 DEF Lies
  <1> QED BY <1>1, <1>4, <1>6, <1>8

\* update_frequencies leaves the points in their bands, whatever the bands have become.
LEMMA UpdateKeeps ==
  ASSUME BandTypes, NEW bs \in Rows, NEW n \in BandPoints, Multi!Update(bs, n),
         band_points' = n, multi_band' = multi_band
  PROVE  BandInv'
  <1>1. CASE multi_band
    <2>1. /\ updated' = multi_band
          /\ bands' = Multi!Dealt(bs, n, f_band_index).bands
          /\ f_band_index' = Multi!Dealt(bs, n, f_band_index).index
      BY <1>1 DEF Multi!Update
    <2>2. f_band_index \in [0 .. POINTS_COUNT - 1 -> Multi!Bands] BY DEF BandTypes
    <2>3. /\ bands' \in Rows /\ f_band_index' \in [0 .. POINTS_COUNT - 1 -> Multi!Bands]
          /\ Wide(bands', n) => \A idx \in 0 .. n - 1 : Lies(bands', f_band_index', idx)
      BY <2>1, <2>2, DealtFacts
    <2>4. BandTypes' BY <2>1, <2>3 DEF BandTypes
    <2>5. Laid' BY <2>3 DEF Laid, Wide, Lies
    <2> QED BY <2>4, <2>5 DEF BandInv
  <1>2. CASE ~multi_band
    <2>1. updated' = multi_band /\ bands' = bs /\ f_band_index' = f_band_index
      BY <1>2 DEF Multi!Update
    <2> QED BY <1>2, <2>1 DEF BandInv, BandTypes, Laid
  <1> QED BY <1>1, <1>2

LEMMA BandsInitially == Multi!Init => BandInv
  <1> SUFFICES ASSUME Multi!Init PROVE BandInv OBVIOUS
  <1>1. Multi!NoBand \in AnyRows BY DEF Multi!NoBand, AnyRows
  <1>2. 0 \in Multi!Bands BY BandsAssumption DEF Multi!Bands
  <1> QED BY <1>1, <1>2 DEF Multi!Init, BandInv, BandTypes, Laid, Rows

LEMMA BandStep == BandInv /\ [Multi!Next]_Multi!bandVars => BandInv'
  <1> SUFFICES ASSUME BandInv, [Multi!Next]_Multi!bandVars PROVE BandInv' OBVIOUS
  <1>1. BandTypes /\ bands \in Rows /\ band_points \in BandPoints BY DEF BandInv, BandTypes
  <1>2. CASE UNCHANGED Multi!bandVars
    BY <1>2 DEF Multi!bandVars, BandInv, BandTypes, Laid, Wide, Lies, Multi!Span
  <1>3. ASSUME NEW b \in Multi!Bands, NEW s, NEW e, Multi!SetBand(b, s, e) PROVE BandInv'
    <2> DEFINE new == [bands EXCEPT ![b].start = s % Wrap, ![b].end = e % Wrap]
    <2>1. s % Wrap \in Nat /\ e % Wrap \in Nat BY <1>3, BandsAssumption DEF Multi!SetBand
    <2>2. new \in Rows BY <1>1, <2>1 DEF Rows, AnyRows
    <2>3. Multi!Update(new, band_points) /\ band_points' = band_points /\ multi_band' = multi_band
      BY <1>3 DEF Multi!SetBand
    <2> HIDE DEF new
    <2> QED BY <1>1, <2>2, <2>3, UpdateKeeps
  <1>4. ASSUME NEW b \in Multi!Bands, NEW f \in Keyed,
               Multi!SetStart(b, f) \/ Multi!SetEnd(b, f) \/ Multi!SetCenter(b, f)
               \/ Multi!SetSpan(b, f)
        PROVE  BandInv'
    BY <1>3, <1>4 DEF Multi!SetStart, Multi!SetEnd, Multi!SetCenter, Multi!SetSpan
  <1>5. ASSUME NEW b \in Multi!Bands, Multi!SelectBand(b) \/ Multi!DisableBand(b) PROVE BandInv'
    <2>1. PICK on \in BOOLEAN : /\ Multi!Update([bands EXCEPT ![b].enabled = on], band_points)
                                /\ band_points' = band_points /\ multi_band' = multi_band
      BY <1>5 DEF Multi!SelectBand, Multi!DisableBand
    <2> DEFINE new == [bands EXCEPT ![b].enabled = on]
    <2>2. new \in Rows BY <1>1 DEF Rows, AnyRows
    <2>3. Multi!Update(new, band_points) BY <2>1
    <2> HIDE DEF new
    <2> QED BY <1>1, <2>1, <2>2, <2>3, UpdateKeeps
  <1>6. CASE Multi!MultiBand
    <2>1. /\ multi_band' = ~multi_band /\ updated' = FALSE
          /\ band_points' = band_points /\ f_band_index' = f_band_index
      BY <1>6 DEF Multi!MultiBand
    <2>2. bands' \in Rows
      <3>1. CASE multi_band BY <1>1, <1>6, <3>1 DEF Multi!MultiBand
      <3>2. CASE ~multi_band
        <4>1. PICK s \in Keyed, e \in Keyed :
                bands' = LET named == IF bands[0].end # 0 THEN bands
                                      ELSE [bands EXCEPT ![0].start = s, ![0].end = e]
                         IN IF \E b \in Multi!Bands : bands[b].enabled THEN named
                            ELSE [named EXCEPT ![0].enabled = TRUE]
          BY <1>6, <3>2 DEF Multi!MultiBand
        <4> DEFINE named == IF bands[0].end # 0 THEN bands
                            ELSE [bands EXCEPT ![0].start = s, ![0].end = e]
        <4>2. 0 \in Multi!Bands /\ s \in Nat /\ e \in Nat BY BandsAssumption DEF Multi!Bands
        <4>3. named \in Rows BY <1>1, <4>2 DEF Rows, AnyRows
        <4>4. bands' = named \/ bands' = [named EXCEPT ![0].enabled = TRUE] BY <4>1
        <4> HIDE DEF named
        <4>5. [named EXCEPT ![0].enabled = TRUE] \in Rows BY <4>2, <4>3 DEF Rows, AnyRows
        <4> QED BY <4>3, <4>4, <4>5
      <3> QED BY <3>1, <3>2
    <2> QED BY <1>1, <2>1, <2>2 DEF BandInv, BandTypes, Laid
  <1>7. CASE Multi!SweepDeals BY <1>1, <1>7, UpdateKeeps DEF Multi!SweepDeals
  <1>8. ASSUME NEW n \in BandPoints, Multi!SetSweepPoints(n) PROVE BandInv'
    BY <1>1, <1>8, UpdateKeeps DEF Multi!SetSweepPoints
  <1> QED BY <1>2, <1>4, <1>5, <1>6, <1>7, <1>8 DEF Multi!Next

-----------------------------------------------------------------------------
(* getFrequency between the marks of a band.                                 *)

LEMMA Quotients ==
  ASSUME NEW steps \in Nat, steps >= 1, NEW k \in 0 .. steps, NEW w \in Nat
  PROVE  /\ (w * k) \div steps \in 0 .. w
         /\ k = 0 => (w * k) \div steps = 0
         /\ k = steps => (w * k) \div steps = w
  <1> DEFINE x == w * k
             q == x \div steps
  <1>1. x \in Nat OBVIOUS
  <1>2. q \in Int /\ x % steps \in 0 .. steps - 1 /\ x = (steps * q) + (x % steps)
    BY <1>1, DivMod
  <1>3. x <= steps * w
    <2>1. w * k <= w * steps BY Multiplied
    <2> QED BY <2>1
  <1>4. k = 0 => x = 0 OBVIOUS
  <1>5. k = steps => x = steps * w OBVIOUS
  <1> HIDE DEF x, q
  <1>6. steps * q \in Int /\ steps * w \in Int BY <1>2
  <1>7. q <= w
    <2> SUFFICES ASSUME w + 1 <= q PROVE FALSE BY <1>2
    <2>1. steps * (w + 1) <= steps * q BY <1>2, Multiplied
    <2>2. steps * (w + 1) = (steps * w) + steps OBVIOUS
    <2> QED BY <1>2, <1>3, <1>6, <2>1, <2>2
  <1>8. q >= 0
    <2> SUFFICES ASSUME q <= -1 PROVE FALSE BY <1>2
    <2>1. steps * q <= steps * (0 - 1) BY <1>2, Multiplied
    <2>2. steps * (0 - 1) = 0 - steps OBVIOUS
    <2>3. x % steps <= steps - 1 /\ x % steps \in Int /\ x >= 0 BY <1>1, <1>2
    <2> QED BY <1>2, <1>6, <2>1, <2>2, <2>3
  <1>9. k = 0 => q = 0
    <2> SUFFICES ASSUME k = 0, q >= 1 PROVE FALSE BY <1>2, <1>8
    <2>1. steps * 1 <= steps * q BY <1>2, Multiplied
    <2>2. steps * 1 = steps OBVIOUS
    <2>3. steps <= steps * q BY <2>1, <2>2
    <2>4. x = 0 /\ x % steps >= 0 /\ x % steps \in Int BY <1>2, <1>4
    <2>5. x = (steps * q) + (x % steps) BY <1>2
    <2> QED BY <1>6, <2>3, <2>4, <2>5
  <1>10. k = steps => q = w
    <2> SUFFICES ASSUME k = steps, q + 1 <= w PROVE FALSE BY <1>2, <1>7
    <2>1. steps * (q + 1) <= steps * w BY <1>2, Multiplied
    <2>2. steps * (q + 1) = (steps * q) + steps BY <1>2
    <2> QED BY <1>2, <1>5, <1>6, <2>1, <2>2
  <1> QED BY <1>2, <1>7, <1>8, <1>9, <1>10 DEF x, q

LEMMA LaidInBands == BandInv => PointsInBands
  <1> SUFFICES ASSUME BandInv, updated, Multi!Dealable, NEW idx \in 0 .. band_points - 1,
                      NEW b, b = bands[f_band_index[idx]]
               PROVE  /\ b.enabled /\ b.start_index <= idx /\ idx <= b.stop_index
                      /\ Multi!GetFrequency(idx) \in b.start .. b.end
                      /\ idx = b.start_index => Multi!GetFrequency(idx) = b.start
                      /\ idx = b.stop_index /\ b.start_index < idx =>
                           Multi!GetFrequency(idx) = b.end
    BY DEF PointsInBands, Multi!PointsInBands
  <1>1. Wide(bands, band_points) BY DEF Multi!Dealable, Wide
  <1>2. /\ b.enabled /\ b.start_index <= idx /\ idx <= b.stop_index /\ b.start <= b.end
    BY <1>1 DEF BandInv, Laid, Lies
  <1>3. idx \in Nat /\ b \in AnyRows
    <2>1. band_points \in Nat /\ idx \in 0 .. POINTS_COUNT - 1
      BY BandsAssumption DEF BandInv, BandTypes
    <2>2. f_band_index[idx] \in Multi!Bands BY <2>1 DEF BandInv, BandTypes
    <2> QED BY <2>1, <2>2 DEF BandInv, BandTypes, Rows
  <1>4. b.start \in Nat /\ b.end \in Nat /\ b.start_index \in Nat /\ b.stop_index \in Nat
    BY <1>3 DEF AnyRows
  <1> DEFINE steps == b.stop_index - b.start_index
             w == b.end - b.start
             k == idx - b.start_index
  <1>5. steps \in Nat /\ w \in Nat /\ k \in 0 .. steps BY <1>2, <1>3, <1>4
  <1>6. Multi!GetFrequency(idx) = IF steps = 0 THEN b.start ELSE b.start + ((w * k) \div steps)
    BY DEF Multi!GetFrequency
  <1>7. CASE steps = 0 BY <1>2, <1>3, <1>4, <1>6, <1>7
  <1>8. CASE steps # 0
    <2> DEFINE q == (w * k) \div steps
    <2>1. q \in 0 .. w /\ (k = 0 => q = 0) /\ (k = steps => q = w)
      <3>1. steps >= 1 BY <1>5, <1>8
      <3> HIDE DEF steps, w, k
      <3> QED BY <1>5, <3>1, Quotients
    <2>2. Multi!GetFrequency(idx) = b.start + q BY <1>6, <1>8
    <2> HIDE DEF q
    <2> QED BY <1>2, <1>3, <1>4, <2>1, <2>2
  <1> QED BY <1>7, <1>8

\* In a multi band sweep every point lies in an enabled band and gets a frequency of it, the
\* first and last point of a band its ends: for any bands, numbers of points and precision
\* of the step (main.c:1750-1784, 1817-1828).
THEOREM PointsStayInBands == Multi!Spec => []PointsInBands
  <1>1. Multi!Spec => []BandInv BY BandsInitially, BandStep, PTL DEF Multi!Spec
  <1> QED BY <1>1, LaidInBands, PTL
=============================================================================
