---------------------------- MODULE ModArithmetic ----------------------------
(***************************************************************************)
(* Facts about \div and % on the naturals for a symbolic modulus, used by   *)
(* the proofs about ring slots, frequency steps and tiles, and about least  *)
(* numbers, which stand for induction.                                      *)
(***************************************************************************)
EXTENDS Integers, FiniteSetsExt, FiniteSetTheorems, TLAPS

\* Division with remainder.
LEMMA DivMod ==
  ASSUME NEW C \in Nat, C >= 1, NEW x \in Nat
  PROVE  /\ x \div C \in Int
         /\ x % C \in 0..(C - 1)
         /\ x = (C * (x \div C)) + (x % C)
  OBVIOUS

\* Two multiples of C are equal or at least C apart.
LEMMA MultiplesApart ==
  ASSUME NEW C \in Nat, C >= 1, NEW p \in Int, NEW q \in Int, p < q
  PROVE  (C * p) + C <= C * q
  OBVIOUS

\* Quotient and remainder are determined by the number.
LEMMA RemainderUnique ==
  ASSUME NEW C \in Nat, C >= 1, NEW p \in Int, NEW q \in Int,
         NEW r \in 0..(C - 1), NEW s \in 0..(C - 1),
         (C * p) + r = (C * q) + s
  PROVE  p = q /\ r = s
  <1>1. CASE p < q BY <1>1, MultiplesApart
  <1>2. CASE q < p BY <1>2, MultiplesApart
  <1>3. CASE p = q BY <1>3
  <1> QED BY <1>1, <1>2, <1>3

\* Numbers less than C apart have different remainders.
LEMMA NearbyDistinct ==
  ASSUME NEW C \in Nat, C >= 1, NEW x \in Nat, NEW y \in Nat,
         x < y, y - x < C
  PROVE  x % C # y % C
  <1> SUFFICES ASSUME x % C = y % C PROVE FALSE
    OBVIOUS
  <1> DEFINE p == x \div C
             q == y \div C
             r == x % C
  <1>1. /\ p \in Int /\ q \in Int /\ r \in 0..(C - 1)
        /\ x = (C * p) + r /\ y = (C * q) + r
    BY DivMod
  <1> HIDE DEF p, q, r
  <1>2. p < q BY <1>1, MultiplesApart
  <1> QED BY <1>1, <1>2, MultiplesApart

\* Adding a multiple of C does not change the remainder.
LEMMA AddMultiple ==
  ASSUME NEW C \in Nat, C >= 1, NEW x \in Nat, NEW k \in Nat
  PROVE  (x + k * C) % C = x % C
  <1> DEFINE p == x \div C
             q == (x + k * C) \div C
             r == x % C
             s == (x + k * C) % C
  <1>1. k * C \in Nat OBVIOUS
  <1>2. /\ p \in Int /\ r \in 0..(C - 1) /\ x = (C * p) + r
        /\ q \in Int /\ s \in 0..(C - 1) /\ x + k * C = (C * q) + s
    BY <1>1, DivMod
  <1> HIDE DEF p, q, r, s
  <1>3. (C * (p + k)) + r = (C * q) + s BY <1>2
  <1>4. r = s BY <1>2, <1>3, RemainderUnique
  <1> QED BY <1>4 DEF r, s

\* Adding less than C carries at most once.
LEMMA AddCarries ==
  ASSUME NEW C \in Nat, C >= 1, NEW x \in Nat, NEW r \in 0..(C - 1)
  PROVE  IF (x % C) + r >= C
         THEN (x + r) \div C = (x \div C) + 1 /\ (x + r) % C = (x % C) + r - C
         ELSE (x + r) \div C = x \div C /\ (x + r) % C = (x % C) + r
  <1> DEFINE p == x \div C
             s == x % C
             q == (x + r) \div C
             t == (x + r) % C
  <1>1. x + r \in Nat OBVIOUS
  <1>2. /\ p \in Int /\ s \in 0..(C - 1) /\ x = (C * p) + s
        /\ q \in Int /\ t \in 0..(C - 1) /\ x + r = (C * q) + t
    BY <1>1, DivMod
  <1> HIDE DEF p, s, q, t
  <1>3. CASE s + r >= C
    <2>1. s + r - C \in 0..(C - 1) /\ p + 1 \in Int BY <1>2, <1>3
    <2>2. C * (p + 1) = (C * p) + C /\ C * p \in Int /\ C * q \in Int BY <1>2
    <2>3. (C * q) + t = (C * (p + 1)) + (s + r - C)
      <3>1. (C * q) + t = (C * p) + s + r BY <1>2
      <3>2. C * (p + 1) + (s + r - C) = (C * p) + s + r BY <1>2, <2>2
      <3> QED BY <3>1, <3>2
    <2>4. q = p + 1 /\ t = s + r - C
      <3> DEFINE p1 == p + 1
                 t1 == s + r - C
      <3>1. p1 \in Int /\ t1 \in 0..(C - 1) /\ (C * q) + t = (C * p1) + t1
        BY <2>1, <2>3
      <3> HIDE DEF p1, t1
      <3>2. q = p1 /\ t = t1 BY <1>2, <3>1, RemainderUnique
      <3> QED BY <3>2 DEF p1, t1
    <2> QED BY <1>3, <2>4 DEF p, s, q, t
  <1>4. CASE ~(s + r >= C)
    <2>1. s + r \in 0..(C - 1) BY <1>2, <1>4
    <2>2. (C * q) + t = (C * p) + (s + r)
      <3>1. C * p \in Int /\ C * q \in Int BY <1>2
      <3> QED BY <1>2, <3>1
    <2>3. q = p /\ t = s + r BY <1>2, <2>1, <2>2, RemainderUnique
    <2> QED BY <1>4, <2>3 DEF p, s, q, t
  <1> QED BY <1>3, <1>4 DEF s

-----------------------------------------------------------------------------
\* The greater of two numbers.
LEMMA MaxOfTwo ==
  ASSUME NEW a \in Int, NEW b \in Int
  PROVE  Max({a, b}) = IF a >= b THEN a ELSE b
  BY DEF Max

\* The lesser of two numbers.
LEMMA MinOfTwo ==
  ASSUME NEW a \in Int, NEW b \in Int
  PROVE  Min({a, b}) = IF a <= b THEN a ELSE b
  BY DEF Min

\* A set of numbers up to n has a least one: ordered by what lies below them,
\* its elements are finite sets ordered by inclusion.
LEMMA LeastNumber ==
  ASSUME NEW n \in Int, NEW S \in SUBSET (0..n), S # {}
  PROVE  Min(S) \in S /\ \A y \in S : Min(S) <= y
  <1> DEFINE Below(x) == {y \in S : y < x}
             T == {Below(x) : x \in S}
  <1>1. S \subseteq Int OBVIOUS
  <1>2. IsFiniteSet(S)
    <2>1. IsFiniteSet(0..n) BY FS_Interval
    <2> QED BY <2>1, FS_Subset
  <1>3. IsWellFoundedOn(StrictSubsetOrdering(S), SUBSET S)
    BY <1>2, FS_StrictSubsetOrderingWellFounded, FS_FiniteSubsetsOfFinite
  <1>4. T \subseteq SUBSET S /\ T # {} OBVIOUS
  <1>5. PICK U \in T : \A V \in T : ~ (<<V, U>> \in StrictSubsetOrdering(S))
    <2> HIDE DEF T
    <2> QED BY <1>3, <1>4, WFMin
  <1>6. PICK x \in S : U = Below(x) OBVIOUS
  <1>7. \A y \in S : x <= y
    <2>1. SUFFICES ASSUME NEW y \in S, y < x PROVE FALSE BY <1>1
    <2>2. Below(y) \subseteq Below(x) /\ y \in Below(x) /\ y \notin Below(y)
      <3>1. \A z \in S : z < y => z < x BY <1>1, <2>1
      <3>2. ~ (y < y) BY <1>1
      <3> QED BY <2>1, <3>1, <3>2, Zenon
    <2>3. Below(y) \in T OBVIOUS
    <2>4. <<Below(y), Below(x)>> \in StrictSubsetOrdering(S)
      <3>1. Below(y) \in SUBSET S /\ Below(x) \in SUBSET S /\ Below(y) # Below(x)
        BY <2>2
      <3> HIDE DEF Below
      <3> QED BY <2>2, <3>1 DEF StrictSubsetOrdering
    <2> QED BY <1>5, <1>6, <2>3, <2>4
  <1> QED BY <1>7 DEF Min

\* Induction: a set that holds 0 and with each number the next one up to n
\* holds all of them.
LEMMA Induction ==
  ASSUME NEW n \in Nat, NEW S, 0 \in S, \A i \in 1..n : i - 1 \in S => i \in S
  PROVE  \A i \in 0..n : i \in S
  <1> DEFINE bad == {i \in 0..n : i \notin S}
  <1>1. SUFFICES ASSUME bad # {} PROVE FALSE OBVIOUS
  <1>2. bad \in SUBSET (0..n) /\ n \in Int OBVIOUS
  <1> HIDE DEF bad
  <1>3. Min(bad) \in bad /\ \A i \in bad : Min(bad) <= i BY <1>1, <1>2, LeastNumber
  <1> DEFINE k == Min(bad)
  <1>4. k \in 0..n /\ k \notin S BY <1>3 DEF bad
  <1>5. k \in 1..n /\ k - 1 \in 0..n BY <1>4
  <1>6. k - 1 \notin bad BY <1>3, <1>5
  <1>7. k - 1 \in S BY <1>5, <1>6 DEF bad
  <1> QED BY <1>4, <1>5, <1>7

\* How n values in X follow from each other.
StepTables(X, n) == [1..n -> [X -> X]]

\* Recursion: a sequence of values is determined by its first one and by how
\* each of the others follows from the one before.
LEMMA Recursion ==
  ASSUME NEW X, NEW n \in Nat, NEW base \in X, NEW step \in StepTables(X, n)
  PROVE  \E g \in [0..n -> X] : /\ g[0] = base
                                /\ \A i \in 1..n : g[i] = step[i][g[i - 1]]
  <1> DEFINE Upto(g, m) == g[0] = base /\ \A i \in 1..m : g[i] = step[i][g[i - 1]]
             S == {m \in 0..n : \E g \in [0..m -> X] : Upto(g, m)}
  <1>0. step \in [1..n -> [X -> X]] BY DEF StepTables
  <1>1. 0 \in S
    <2> DEFINE g == [i \in 0..0 |-> base]
    <2>1. g \in [0..0 -> X] /\ Upto(g, 0) OBVIOUS
    <2> HIDE DEF g
    <2> QED BY <2>1
  <1>2. \A m \in 1..n : m - 1 \in S => m \in S
    <2> SUFFICES ASSUME NEW m \in 1..n, m - 1 \in S PROVE m \in S OBVIOUS
    <2>1. PICK g \in [0..(m - 1) -> X] : Upto(g, m - 1) OBVIOUS
    <2> DEFINE h == [i \in 0..m |-> IF i = m THEN step[m][g[m - 1]] ELSE g[i]]
    <2>2. m - 1 \in 0..(m - 1) /\ m \in 0..m /\ 0 \in 0..m /\ 0 # m OBVIOUS
    <2>3. step[m] \in [X -> X] /\ g[m - 1] \in X BY <1>0, <2>2
    <2>4. step[m][g[m - 1]] \in X BY <2>3
    <2>5. h \in [0..m -> X]
      <3>1. \A i \in 0..m : i # m => i \in 0..(m - 1) OBVIOUS
      <3> QED BY <2>4, <3>1
    <2>6. \A i \in 0..(m - 1) : h[i] = g[i] OBVIOUS
    <2>7. h[m] = step[m][g[m - 1]] BY <2>2
    <2> HIDE DEF h
    <2>8. h[0] = base BY <2>1, <2>6
    <2>9. \A i \in 1..m : h[i] = step[i][h[i - 1]]
      <3> SUFFICES ASSUME NEW i \in 1..m PROVE h[i] = step[i][h[i - 1]] OBVIOUS
      <3>1. i - 1 \in 0..(m - 1) /\ h[i - 1] = g[i - 1] BY <2>6
      <3>2. CASE i = m BY <2>7, <3>1, <3>2
      <3>3. CASE i # m
        <4>1. i \in 1..(m - 1) /\ h[i] = g[i] BY <2>6, <3>3
        <4> QED BY <2>1, <3>1, <4>1
      <3> QED BY <3>2, <3>3
    <2>10. Upto(h, m) BY <2>8, <2>9
    <2> HIDE DEF Upto
    <2> QED BY <2>2, <2>5, <2>10
  <1>3. n \in S
    <2> HIDE DEF S
    <2>1. \A i \in 0..n : i \in S BY <1>1, <1>2, Induction
    <2> QED BY <2>1
  <1> QED BY <1>3
=============================================================================
