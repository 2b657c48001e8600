-------------------------- MODULE StreamParserProofs --------------------------
(***************************************************************************)
(* The parser's storage and checksum, and what it delivers, for every      *)
(* alphabet, payload limit and storage capacity, and for streams and       *)
(* fragments of any length.                                                *)
(***************************************************************************)
EXTENDS StreamParser, ModArithmetic, SequenceTheorems

-----------------------------------------------------------------------------
(* Sequences, element by element. *)

\* What is left of a sequence behind its first n elements.
LEMMA AfterFacts ==
  ASSUME NEW S, NEW s \in Seq(S), NEW n \in 0..Len(s)
  PROVE  /\ After(s, n) \in Seq(S) /\ Len(After(s, n)) = Len(s) - n
         /\ \A i \in 1..(Len(s) - n) : After(s, n)[i] = s[n + i]
  <1>1. Len(s) \in Nat /\ \A i \in 1..Len(s) : s[i] \in S BY LenProperties, ElementOfSeq
  <1>2. After(s, n) = SubSeq(s, n + 1, Len(s)) BY DEF After
  <1>3. /\ Len(SubSeq(s, n + 1, Len(s))) = Len(s) - n
        /\ SubSeq(s, n + 1, Len(s)) \in Seq(S)
        /\ \A i \in 1..(Len(s) - n) : SubSeq(s, n + 1, Len(s))[i] = s[n + i]
    <2>1. CASE n = Len(s)
      <3>1. SubSeq(s, n + 1, Len(s)) = <<>> BY <1>1, <2>1, SubSeqEmpty
      <3> QED BY <1>1, <2>1, <3>1
    <2>2. CASE n < Len(s) BY <1>1, <2>2, SubSeqProperties
    <2> QED BY <1>1, <2>1, <2>2
  <1> QED BY <1>2, <1>3

\* The first n elements of a sequence behind another one.
LEMMA JoinFacts ==
  ASSUME NEW S, NEW s \in Seq(S), NEW t \in Seq(S), NEW n \in 0..Len(t)
  PROVE  LET joined == s \o SubSeq(t, 1, n)
         IN /\ joined \in Seq(S) /\ Len(joined) = Len(s) + n
            /\ \A i \in 1..Len(s) : joined[i] = s[i]
            /\ \A i \in 1..n : joined[Len(s) + i] = t[i]
  <1> DEFINE u == SubSeq(t, 1, n)
  <1>1. Len(s) \in Nat /\ Len(t) \in Nat /\ n \in Nat BY LenProperties
  <1>2. u \in Seq(S) /\ Len(u) = n /\ \A i \in 1..n : u[i] = t[i]
    <2>1. CASE n = 0
      <3>1. u = <<>> BY <1>1, <2>1, SubSeqEmpty
      <3> QED BY <2>1, <3>1
    <2>2. CASE n > 0
      <3>1. \A i \in 1..n : t[i] \in S BY <1>1, ElementOfSeq
      <3> QED BY <1>1, <2>2, <3>1, SubSeqProperties
    <2> QED BY <1>1, <2>1, <2>2
  <1> HIDE DEF u
  <1>3. /\ s \o u \in Seq(S) /\ Len(s \o u) = Len(s) + n
        /\ \A i \in 1..Len(s) : (s \o u)[i] = s[i]
        /\ \A i \in 1..n : (s \o u)[Len(s) + i] = t[i]
    <2>1. /\ s \o u \in Seq(S) /\ Len(s \o u) = Len(s) + n
          /\ \A i \in 1..(Len(s) + n) :
                (s \o u)[i] = IF i <= Len(s) THEN s[i] ELSE u[i - Len(s)]
      BY <1>2, ConcatProperties
    <2>2. \A i \in 1..Len(s) : (s \o u)[i] = s[i] BY <1>1, <2>1
    <2>3. \A i \in 1..n : (s \o u)[Len(s) + i] = u[i] BY <1>1, <2>1
    <2> QED BY <1>2, <2>1, <2>2, <2>3
  <1> QED BY <1>3 DEF u

\* A sequence whose elements are the last ones of another one is its suffix.
LEMMA SuffixByElements ==
  ASSUME NEW S, NEW s \in Seq(S), NEW t \in Seq(S), Len(s) <= Len(t),
         \A i \in 1..Len(s) : s[i] = t[Len(t) - Len(s) + i]
  PROVE  IsSuffix(s, t)
  <1> DEFINE m == Len(s)
             n == Len(t)
             rs == Reverse(s)
             rt == Reverse(t)
  <1>1. m \in Nat /\ n \in Nat /\ m <= n BY LenProperties
  <1>2. /\ rs \in Seq(S) /\ Len(rs) = m /\ \A i \in 1..m : rs[i] = s[m - i + 1]
    BY LenProperties, ElementOfSeq DEF Reverse
  <1>3. /\ rt \in Seq(S) /\ Len(rt) = n /\ \A i \in 1..n : rt[i] = t[n - i + 1]
    BY LenProperties, ElementOfSeq DEF Reverse
  <1>4. \A i \in 1..m : s[i] = t[n - m + i] OBVIOUS
  <1>5. IsSuffix(s, t) <=> (Len(rs) <= Len(rt) /\ SubSeq(rs, 1, Len(rs)) = SubSeq(rt, 1, Len(rs)))
    BY DEF IsSuffix, IsPrefix
  <1> HIDE DEF m, n, rs, rt
  <1>6. \A i \in 1..m : rs[i] = rt[i]
    <2> SUFFICES ASSUME NEW i \in 1..m PROVE rs[i] = rt[i] OBVIOUS
    <2> DEFINE k == m - i + 1
    <2>1. k \in 1..m /\ i \in 1..n /\ n - m + k = n - i + 1 BY <1>1
    <2>2. rs[i] = s[k] /\ rt[i] = t[n - i + 1] BY <1>2, <1>3, <2>1
    <2> HIDE DEF k
    <2>3. s[k] = t[n - m + k] BY <1>4, <2>1
    <2> QED BY <2>1, <2>2, <2>3
  <1>7. SubSeq(rs, 1, m) = SubSeq(rt, 1, m)
    <2>1. SubSeq(rs, 1, m) = [i \in 1..m |-> rs[i]]
      BY <1>1, <1>2
    <2>2. SubSeq(rt, 1, m) = [i \in 1..m |-> rt[i]]
      BY <1>1, <1>3
    <2> QED BY <1>6, <2>1, <2>2
  <1> QED BY <1>1, <1>2, <1>3, <1>5, <1>7

-----------------------------------------------------------------------------
(* The window on the stream. *)

\* What was fed and not consumed is the input of the current call.
Tape == /\ input \in Seq(Byte) /\ fed \in Seq(Byte) /\ Len(input) <= Len(fed)
        /\ \A i \in 1..Len(input) : input[i] = fed[Len(fed) - Len(input) + i]

\* The storage holds the last bytes consumed.
Window == /\ storage \in Seq(Byte) /\ used <= Len(fed) - Len(input)
          /\ \A i \in 1..used : storage[i] = fed[Len(fed) - Len(input) - used + i]

\* The storage begins like a frame, and once a header is accepted it waits for
\* the rest of the frame that header announces.
Framing ==
  /\ used >= 1 => storage[1] = MagicLow
  /\ used >= 2 => storage[2] = MagicHigh
  /\ expected \in Nat
  /\ IF expected = 0 THEN used < HeaderBytes
     ELSE /\ HeaderBytes <= used /\ used < expected /\ HeaderOK(storage)
          /\ expected = Overhead + PayloadLength(storage)

\* The checksum is that of the bytes it covers.
Covered ==
  /\ crc = CrcFold(CrcInit, SubSeq(storage, 1, crc_bytes))
  /\ crc_bytes = IF expected = 0 THEN 0 ELSE Min({used, expected - TrailerBytes})

ParserInv == Tape /\ Window /\ Framing /\ Covered

-----------------------------------------------------------------------------
(* The checksum of a sequence. *)

\* The states of the checksum over the first n elements of s.
States(g, crc0, s, n) ==
  g = [i \in 0..n |-> IF i = 0 THEN crc0 ELSE CrcUpdate(g[i - 1], s[i])]

\* They exist for every n: from those over n - 1 elements follow those over n.
LEMMA StatesExist ==
  ASSUME NEW crc0, NEW s, NEW n \in Nat
  PROVE  \E g : States(g, crc0, s, n)
  <1> DEFINE bad == {m \in 0..n : ~\E g : States(g, crc0, s, m)}
  <1>1. SUFFICES ASSUME bad # {} PROVE FALSE
    <2>1. n \in 0..n OBVIOUS
    <2> QED BY <2>1
  <1>2. Min(bad) \in bad /\ \A m \in bad : Min(bad) <= m
    <2>1. bad \in SUBSET (0..n) /\ n \in Int OBVIOUS
    <2> HIDE DEF bad
    <2> QED BY <1>1, <2>1, LeastNumber
  <1> DEFINE m == Min(bad)
  <1>3. m \in 0..n /\ ~\E g : States(g, crc0, s, m) BY <1>2
  <1>4. CASE m = 0
    <2> DEFINE g == [i \in 0..0 |-> crc0]
    <2>1. g = [i \in 0..0 |-> IF i = 0 THEN crc0 ELSE CrcUpdate(g[i - 1], s[i])]
      <3>1. \A i \in 0..0 : i = 0 OBVIOUS
      <3> QED BY <3>1
    <2>2. States(g, crc0, s, 0) BY <2>1 DEF States
    <2> QED BY <1>3, <1>4, <2>2
  <1>5. CASE m # 0
    <2>1. m - 1 \in 0..n /\ m - 1 \notin bad BY <1>2, <1>3, <1>5
    <2>2. PICK g : States(g, crc0, s, m - 1) BY <2>1
    <2> DEFINE h == [i \in 0..m |-> IF i = m THEN CrcUpdate(g[m - 1], s[m]) ELSE g[i]]
    <2> HIDE DEF m, bad
    <2>3. \A i \in 0..(m - 1) : g[i] = IF i = 0 THEN crc0 ELSE CrcUpdate(g[i - 1], s[i])
      <3> DEFINE G(i) == IF i = 0 THEN crc0 ELSE CrcUpdate(g[i - 1], s[i])
      <3>1. g = [i \in 0..(m - 1) |-> G(i)] BY <2>2 DEF States
      <3> HIDE DEF G
      <3>2. \A i \in 0..(m - 1) : g[i] = G(i) BY <3>1
      <3> QED BY <3>2 DEF G
    <2>4. \A i \in 0..m : h[i] = IF i = 0 THEN crc0 ELSE CrcUpdate(h[i - 1], s[i])
      <3> SUFFICES ASSUME NEW i \in 0..m
                   PROVE  h[i] = IF i = 0 THEN crc0 ELSE CrcUpdate(h[i - 1], s[i])
        OBVIOUS
      <3>1. \A k \in 0..(m - 1) : h[k] = g[k] BY <1>3
      <3>2. h[m] = CrcUpdate(g[m - 1], s[m]) BY <1>3
      <3> HIDE DEF h
      <3>3. CASE i = m
        <4>1. m - 1 \in 0..(m - 1) BY <1>3, <1>5
        <4> QED BY <1>5, <3>1, <3>2, <3>3, <4>1
      <3>4. CASE i # m
        <4>1. i \in 0..(m - 1) /\ (i # 0 => i - 1 \in 0..(m - 1)) BY <1>3, <3>4
        <4> QED BY <2>3, <3>1, <4>1
      <3> QED BY <3>3, <3>4
    <2>5. h = [i \in 0..m |-> h[i]] OBVIOUS
    <2> HIDE DEF h
    <2>6. h = [i \in 0..m |-> IF i = 0 THEN crc0 ELSE CrcUpdate(h[i - 1], s[i])]
      BY <2>4, <2>5, Zenon
    <2>7. States(h, crc0, s, m) BY <2>6 DEF States
    <2> QED BY <1>3, <2>7
  <1> QED BY <1>4, <1>5

\* CrcFold is the last of them.
LEMMA CrcFoldIsLast ==
  ASSUME NEW crc0, NEW s, Len(s) \in Nat
  PROVE  \E g : /\ CrcFold(crc0, s) = g[Len(s)] /\ g[0] = crc0
                /\ \A i \in 1..Len(s) : g[i] = CrcUpdate(g[i - 1], s[i])
  <1> DEFINE G(g, i) == IF i = 0 THEN crc0 ELSE CrcUpdate(g[i - 1], s[i])
             state == CHOOSE g : g = [i \in 0..Len(s) |-> G(g, i)]
  <1>1. CrcFold(crc0, s) = state[Len(s)] BY DEF CrcFold
  <1>2. \E g : g = [i \in 0..Len(s) |-> G(g, i)]
    <2>1. PICK g : States(g, crc0, s, Len(s)) BY StatesExist
    <2> QED BY <2>1 DEF States
  <1>3. state = [i \in 0..Len(s) |-> G(state, i)] BY <1>2
  <1> HIDE DEF state, G
  <1>4. \A i \in 0..Len(s) : state[i] = G(state, i) BY <1>3
  <1>5. state[0] = crc0 BY <1>4 DEF G
  <1>6. \A i \in 1..Len(s) : state[i] = CrcUpdate(state[i - 1], s[i]) BY <1>4 DEF G
  <1> QED BY <1>1, <1>5, <1>6

\* The checksum of two sequences, one behind the other, goes on from that of
\* the first.
LEMMA CrcFoldConcat ==
  ASSUME NEW S, NEW crc0, NEW s \in Seq(S), NEW t \in Seq(S)
  PROVE  CrcFold(crc0, s \o t) = CrcFold(CrcFold(crc0, s), t)
  <1> DEFINE m == Len(s)
             n == Len(t)
             u == s \o t
  <1>1. m \in Nat /\ n \in Nat BY LenProperties
  <1>2. /\ Len(u) = m + n
        /\ \A i \in 1..(m + n) : u[i] = IF i <= m THEN s[i] ELSE t[i - m]
    BY ConcatProperties
  <1>3. PICK f : /\ CrcFold(crc0, s) = f[m] /\ f[0] = crc0
                 /\ \A i \in 1..m : f[i] = CrcUpdate(f[i - 1], s[i])
    BY <1>1, CrcFoldIsLast
  <1>4. PICK g : /\ CrcFold(f[m], t) = g[n] /\ g[0] = f[m]
                 /\ \A i \in 1..n : g[i] = CrcUpdate(g[i - 1], t[i])
    BY <1>1, CrcFoldIsLast
  <1>5. Len(u) \in Nat BY <1>1, <1>2
  <1> HIDE DEF m, n, u
  <1>6. PICK h : /\ CrcFold(crc0, u) = h[m + n] /\ h[0] = crc0
                 /\ \A i \in 1..(m + n) : h[i] = CrcUpdate(h[i - 1], u[i])
    <2>1. \E h : /\ CrcFold(crc0, u) = h[Len(u)] /\ h[0] = crc0
                 /\ \A i \in 1..Len(u) : h[i] = CrcUpdate(h[i - 1], u[i])
      BY <1>5, CrcFoldIsLast
    <2> QED BY <1>2, <2>1
  <1> DEFINE Both(i) == IF i <= m THEN f[i] ELSE g[i - m]
             bad == {i \in 0..(m + n) : h[i] # Both(i)}
  <1>7. bad = {}
    <2>1. SUFFICES ASSUME bad # {} PROVE FALSE OBVIOUS
    <2>2. bad \in SUBSET (0..(m + n)) /\ m + n \in Int BY <1>1
    <2> HIDE DEF bad
    <2>3. Min(bad) \in bad /\ \A i \in bad : Min(bad) <= i BY <2>1, <2>2, LeastNumber
    <2> DEFINE k == Min(bad)
    <2>4. k \in 0..(m + n) /\ h[k] # Both(k) BY <2>3 DEF bad
    <2>5. k # 0 BY <1>1, <1>3, <1>6, <2>4
    <2>6. k \in 1..(m + n) /\ k - 1 \in 0..(m + n) BY <1>1, <2>4, <2>5
    <2>7. h[k - 1] = Both(k - 1)
      <3>1. ~(k <= k - 1) BY <2>6
      <3> QED BY <2>3, <2>6, <3>1 DEF bad
    <2> HIDE DEF k
    <2>8. h[k] = CrcUpdate(Both(k - 1), u[k]) BY <1>6, <2>6, <2>7
    <2>9. CASE k <= m
      <3>1. k \in 1..m /\ k - 1 <= m BY <1>1, <2>6, <2>9
      <3>2. u[k] = s[k] BY <1>2, <2>6, <2>9
      <3> QED BY <1>3, <2>4, <2>8, <2>9, <3>1, <3>2
    <2>10. CASE ~(k <= m)
      <3>1. u[k] = t[k - m] /\ k - m \in 1..n BY <1>1, <1>2, <2>6, <2>10
      <3>2. Both(k - 1) = g[(k - m) - 1]
        <4>1. CASE k - 1 = m BY <1>1, <1>4, <2>6, <4>1
        <4>2. CASE k - 1 # m
          <5>1. ~(k - 1 <= m) /\ (k - 1) - m = (k - m) - 1 BY <1>1, <2>6, <2>10, <4>2
          <5> QED BY <5>1
        <4> QED BY <4>1, <4>2
      <3>3. g[k - m] = CrcUpdate(g[(k - m) - 1], t[k - m]) BY <1>4, <3>1
      <3> QED BY <2>4, <2>8, <2>10, <3>1, <3>2, <3>3
    <2> QED BY <2>9, <2>10
  <1>8. h[m + n] = Both(m + n)
    <2>1. m + n \in 0..(m + n) BY <1>1
    <2> QED BY <1>7, <2>1
  <1>9. Both(m + n) = g[n]
    <2>1. CASE n = 0 BY <1>1, <1>4, <2>1
    <2>2. CASE n # 0
      <3>1. ~(m + n <= m) /\ (m + n) - m = n BY <1>1, <2>2
      <3> QED BY <3>1
    <2> QED BY <2>1, <2>2
  <1> QED BY <1>3, <1>4, <1>6, <1>8, <1>9 DEF m, n, u

\* The checksum of no bytes.
LEMMA CrcFoldEmpty == ASSUME NEW crc0 PROVE CrcFold(crc0, <<>>) = crc0
  <1>1. Len(<<>>) = 0 OBVIOUS
  <1>2. PICK g : CrcFold(crc0, <<>>) = g[Len(<<>>)] /\ g[0] = crc0
    BY <1>1, CrcFoldIsLast
  <1> QED BY <1>1, <1>2

-----------------------------------------------------------------------------
(* The steps. *)

\* The two magic bytes are bytes; the lengths of the frame's parts.
LEMMA Format ==
  /\ MagicLow \in Byte /\ MagicHigh \in Byte /\ MagicLow # MagicHigh
  /\ Byte \subseteq Nat /\ HeaderBytes = 4 /\ TrailerBytes = 2 /\ Overhead = 6
  BY FrameAssumption DEF HeaderBytes, TrailerBytes, Overhead

\* What is read of a header is in its first bytes.
LEMMA SameHeader ==
  ASSUME NEW s, NEW t, \A i \in 1..4 : s[i] = t[i]
  PROVE  (HeaderOK(s) <=> HeaderOK(t)) /\ PayloadLength(s) = PayloadLength(t)
  <1>1. s[1] = t[1] /\ s[2] = t[2] /\ s[3] = t[3] /\ s[4] = t[4] OBVIOUS
  <1> QED BY <1>1 DEF HeaderOK, PayloadLength, HeaderBytes

\* w and x follow each other on f, behind c; v is made of w and the first n of
\* x, without the first k of both.
Follow(f, x, w, c) ==
  /\ \A i \in 1..Len(x) : x[i] = f[c + i]
  /\ Len(w) <= c /\ \A i \in 1..Len(w) : w[i] = f[c - Len(w) + i]
Moved(x, w, v, n, k) ==
  /\ Len(v) = Len(w) + n - k
  /\ \A i \in 1..Len(v) : v[i] = IF k + i <= Len(w) THEN w[k + i] ELSE x[k + i - Len(w)]

\* Then the rest of x and v follow each other, too.
LEMMA WindowMoves ==
  ASSUME NEW S, NEW f, NEW x \in Seq(S), NEW w \in Seq(S), NEW v \in Seq(S),
         NEW c \in Nat, NEW n \in 0..Len(x), NEW k \in 0..(Len(w) + n),
         Follow(f, x, w, c), Moved(x, w, v, n, k)
  PROVE  Follow(f, After(x, n), v, c + n)
  <1> DEFINE X == Len(x)
             W == Len(w)
             V == Len(v)
  <1>1. X \in Nat /\ W \in Nat /\ V \in Nat /\ n \in Nat /\ n <= X BY LenProperties
  <1>2. k \in Nat /\ k <= W + n BY <1>1
  <1>3. \A i \in 1..(X - n) : After(x, n)[i] = x[n + i] BY AfterFacts
  <1>4. /\ \A i \in 1..X : x[i] = f[c + i]
        /\ \A i \in 1..W : w[i] = f[c - W + i]
        /\ \A i \in 1..V : v[i] = IF k + i <= W THEN w[k + i] ELSE x[k + i - W]
        /\ W <= c /\ V = W + n - k
    BY DEF Follow, Moved
  <1> HIDE DEF X, W, V
  <1>5. \A i \in 1..(X - n) : After(x, n)[i] = f[c + n + i]
    <2> SUFFICES ASSUME NEW i \in 1..(X - n) PROVE After(x, n)[i] = f[c + n + i] OBVIOUS
    <2>1. n + i \in 1..X /\ c + (n + i) = c + n + i BY <1>1
    <2>2. After(x, n)[i] = x[n + i] BY <1>3
    <2>3. x[n + i] = f[c + (n + i)] BY <1>4, <2>1
    <2> QED BY <2>1, <2>2, <2>3
  <1>6. \A i \in 1..V : v[i] = f[c + n - V + i]
    <2> SUFFICES ASSUME NEW i \in 1..V PROVE v[i] = f[c + n - V + i] OBVIOUS
    <2>1. v[i] = IF k + i <= W THEN w[k + i] ELSE x[k + i - W] BY <1>4
    <2>2. c - W + (k + i) = c + n - V + i /\ c + (k + i - W) = c + n - V + i
      BY <1>1, <1>2, <1>4
    <2>3. CASE k + i <= W
      <3>1. k + i \in 1..W BY <1>1, <1>2, <2>3
      <3>2. w[k + i] = f[c - W + (k + i)] BY <1>4, <3>1
      <3> QED BY <2>1, <2>2, <2>3, <3>2
    <2>4. CASE ~(k + i <= W)
      <3>1. k + i - W \in 1..X BY <1>1, <1>2, <1>4, <2>4
      <3>2. x[k + i - W] = f[c + (k + i - W)] BY <1>4, <3>1
      <3> QED BY <2>1, <2>2, <2>4, <3>2
    <2> QED BY <2>3, <2>4
  <1>7. V <= c + n BY <1>1, <1>2, <1>4
  <1>8. Len(After(x, n)) = X - n BY AfterFacts DEF X
  <1> QED BY <1>5, <1>6, <1>7, <1>8 DEF V, Follow

\* The last elements of s and the first n of t, without the first k of them.
LEMMA DropFacts ==
  ASSUME NEW S, NEW s \in Seq(S), NEW t \in Seq(S), NEW n \in 0..Len(t),
         NEW k \in 0..(Len(s) + n)
  PROVE  LET d == After(s \o SubSeq(t, 1, n), k)
         IN d \in Seq(S) /\ Moved(t, s, d, n, k)
  <1> DEFINE joined == s \o SubSeq(t, 1, n)
             d == After(joined, k)
             m == Len(s)
  <1>1. m \in Nat /\ n \in Nat BY LenProperties
  <1>2. /\ joined \in Seq(S) /\ Len(joined) = m + n
        /\ \A i \in 1..m : joined[i] = s[i]
        /\ \A i \in 1..n : joined[m + i] = t[i]
    BY JoinFacts
  <1>3. k \in Nat /\ k <= m + n BY <1>1
  <1> HIDE DEF joined, m
  <1>4. /\ d \in Seq(S) /\ Len(d) = Len(joined) - k
        /\ \A i \in 1..(Len(joined) - k) : d[i] = joined[k + i]
    <2>1. k \in 0..Len(joined) BY <1>1, <1>2, <1>3
    <2> QED BY <1>2, <2>1, AfterFacts
  <1> HIDE DEF d
  <1>5. Len(d) = m + n - k BY <1>1, <1>2, <1>3, <1>4
  <1>6. \A i \in 1..Len(d) : d[i] = IF k + i <= m THEN s[k + i] ELSE t[k + i - m]
    <2> SUFFICES ASSUME NEW i \in 1..Len(d)
                 PROVE  d[i] = IF k + i <= m THEN s[k + i] ELSE t[k + i - m]
      OBVIOUS
    <2>1. d[i] = joined[k + i] BY <1>4
    <2>2. i \in Nat /\ i >= 1 /\ i <= m + n - k BY <1>1, <1>3, <1>5
    <2>3. CASE k + i <= m
      <3>1. k + i \in 1..m BY <1>1, <1>3, <2>2, <2>3
      <3> QED BY <1>2, <2>1, <2>3, <3>1
    <2>4. CASE ~(k + i <= m)
      <3>1. k + i - m \in 1..n /\ m + (k + i - m) = k + i BY <1>1, <1>3, <2>2, <2>4
      <3>2. joined[m + (k + i - m)] = t[k + i - m] BY <1>2, <3>1
      <3> QED BY <2>1, <2>4, <3>1, <3>2
    <2> QED BY <2>3, <2>4
  <1> QED BY <1>4, <1>5, <1>6 DEF d, joined, m, Moved

\* A step that consumes n bytes of the input and keeps in the storage, of its
\* own bytes and these, all but the first k.
LEMMA WindowStep ==
  ASSUME Tape, Window, NEW n \in 0..Len(input), NEW k \in 0..(used + n),
         input' = After(input, n), fed' = fed,
         storage' \in Seq(Byte), Moved(input, storage, storage', n, k)
  PROVE  Tape' /\ Window'
  <1> DEFINE c == Len(fed) - Len(input)
  <1>1. /\ input \in Seq(Byte) /\ storage \in Seq(Byte) /\ fed \in Seq(Byte)
        /\ Len(input) <= Len(fed) /\ Follow(fed, input, storage, c)
    BY DEF Tape, Window, Follow, used
  <1>2. Len(fed) \in Nat /\ Len(input) \in Nat /\ c \in Nat /\ n \in Nat
    BY <1>1, LenProperties
  <1>3. After(input, n) \in Seq(Byte) /\ Len(After(input, n)) = Len(input) - n
    BY <1>1, AfterFacts
  <1>4. Len(fed) - Len(After(input, n)) = c + n /\ Len(After(input, n)) <= Len(fed)
    BY <1>1, <1>2, <1>3
  <1> HIDE DEF c
  <1>5. k \in 0..(Len(storage) + n) BY DEF used
  <1>6. Follow(fed, After(input, n), storage', c + n)
    BY <1>1, <1>2, <1>5, WindowMoves
  <1>7. Follow(fed, After(input, n), storage', Len(fed) - Len(After(input, n)))
    BY <1>4, <1>6
  <1>8. Tape' BY <1>1, <1>3, <1>4, <1>7 DEF Tape, Follow
  <1>9. Window' BY <1>7 DEF Window, Follow, used
  <1> QED BY <1>8, <1>9

\* A step that stores what it consumes, and drops the first k bytes.
LEMMA JoinStep ==
  ASSUME Tape, Window, NEW n \in 0..Len(input), NEW k \in 0..(used + n),
         input' = After(input, n), fed' = fed,
         storage' = After(storage \o SubSeq(input, 1, n), k)
  PROVE  Tape' /\ Window' /\ used' = used + n - k
  <1> DEFINE d == After(storage \o SubSeq(input, 1, n), k)
  <1>1. input \in Seq(Byte) /\ storage \in Seq(Byte) BY DEF Tape, Window
  <1>2. k \in 0..(Len(storage) + n) BY DEF used
  <1>3. d \in Seq(Byte) /\ Moved(input, storage, d, n, k)
    BY <1>1, <1>2, DropFacts
  <1>4. storage' = d OBVIOUS
  <1> HIDE DEF d
  <1>5. storage' \in Seq(Byte) /\ Moved(input, storage, storage', n, k)
    BY <1>3, <1>4
  <1>6. used' = used + n - k BY <1>5 DEF Moved, used
  <1> QED BY <1>5, <1>6, WindowStep

\* While no header is accepted the checksum covers nothing.
LEMMA UncoveredStays ==
  ASSUME Covered, expected = 0, UNCHANGED <<expected, crc, crc_bytes>>
  PROVE  Covered'
  <1>1. SubSeq(storage, 1, 0) = <<>> /\ SubSeq(storage', 1, 0) = <<>> BY SubSeqEmpty
  <1> QED BY <1>1 DEF Covered

\* Nothing is covered after a reset.
LEMMA ResetCovers ==
  ASSUME expected' = 0, crc' = CrcInit, crc_bytes' = 0
  PROVE  Covered'
  <1>1. SubSeq(storage', 1, 0) = <<>> BY SubSeqEmpty
  <1> QED BY <1>1, CrcFoldEmpty DEF Covered

\* At first nothing was fed.
LEMMA InitParser == Init => ParserInv
  <1> SUFFICES ASSUME Init PROVE ParserInv OBVIOUS
  <1>1. /\ input = <<>> /\ storage = <<>> /\ fed = <<>> /\ expected = 0
        /\ crc = CrcInit /\ crc_bytes = 0
    BY DEF Init
  <1>2. Tape /\ Window BY <1>1 DEF Tape, Window, used
  <1>3. Framing BY <1>1 DEF Framing, used, HeaderBytes
  <1>4. Covered
    <2>1. SubSeq(<<>>, 1, 0) = <<>> BY SubSeqEmpty
    <2> QED BY <1>1, <2>1, CrcFoldEmpty DEF Covered
  <1> QED BY <1>2, <1>3, <1>4 DEF ParserInv

\* A new call: its bytes come behind those fed before.
LEMMA FeedKeeps == ASSUME ParserInv, Feed PROVE ParserInv'
  <1>1. /\ input = <<>> /\ fed' = fed \o input'
        /\ UNCHANGED <<storage, expected, crc, crc_bytes>>
    BY DEF Feed
  <1>2. Tape /\ Window /\ Framing /\ Covered BY DEF ParserInv
  <1>3. input' \in Seq(Byte)
    <2>1. PICK n \in 1..MaxFragment : input' \in [1..n -> Byte] BY DEF Feed, Fragments
    <2> QED BY <2>1
  <1> DEFINE f == Len(fed)
             n == Len(input')
  <1>4. fed \in Seq(Byte) /\ f \in Nat /\ n \in Nat /\ Len(input) = 0
    BY <1>1, <1>2, <1>3, LenProperties DEF Tape
  <1>5. /\ fed' \in Seq(Byte) /\ Len(fed') = f + n
        /\ \A i \in 1..(f + n) : fed'[i] = IF i <= f THEN fed[i] ELSE input'[i - f]
    BY <1>1, <1>3, <1>4, ConcatProperties
  <1>6. used \in Nat /\ used <= f /\ \A i \in 1..used : storage[i] = fed[f - used + i]
    BY <1>2, <1>4, LenProperties DEF Window, used
  <1>7. used' = used BY <1>1 DEF used
  <1>8. Len(input') = n /\ Len(fed) = f OBVIOUS
  <1> HIDE DEF f, n
  <1>9. Tape'
    <2>1. \A i \in 1..n : input'[i] = fed'[f + n - n + i]
      <3> SUFFICES ASSUME NEW i \in 1..n PROVE input'[i] = fed'[f + n - n + i] OBVIOUS
      <3>1. /\ f + n - n + i = f + i /\ f + i \in 1..(f + n)
            /\ ~(f + i <= f) /\ (f + i) - f = i
        BY <1>4
      <3> QED BY <1>5, <3>1
    <2> QED BY <1>3, <1>4, <1>5, <1>8, <2>1 DEF Tape
  <1>10. Window'
    <2>1. Len(fed') - Len(input') = f BY <1>4, <1>5, <1>8
    <2>2. \A i \in 1..used' : storage'[i] = fed'[f - used' + i]
      <3> SUFFICES ASSUME NEW i \in 1..used' PROVE storage'[i] = fed'[f - used' + i]
        OBVIOUS
      <3>1. i \in 1..used /\ f - used' + i = f - used + i BY <1>7
      <3>2. f - used + i \in 1..(f + n) /\ f - used + i <= f BY <1>4, <1>6, <3>1
      <3> QED BY <1>1, <1>5, <1>6, <3>1, <3>2
    <2>3. used' <= f BY <1>6, <1>7
    <2>4. storage' \in Seq(Byte) BY <1>1, <1>2 DEF Window
    <2> QED BY <2>1, <2>2, <2>3, <2>4 DEF Window
  <1>11. Framing' BY <1>1, <1>2, <1>7 DEF Framing
  <1>12. Covered' BY <1>1, <1>2, <1>7 DEF Covered
  <1> QED BY <1>9, <1>10, <1>11, <1>12 DEF ParserInv

\* The lengths of the two ends of the tape.
LEMMA Lengths ==
  ASSUME ParserInv
  PROVE  /\ input \in Seq(Byte) /\ storage \in Seq(Byte)
         /\ Len(input) \in Nat /\ used \in Nat /\ used = Len(storage)
         /\ input # <<>> => Len(input) > 0
  BY LenProperties, EmptySeq DEF ParserInv, Tape, Window, used

\* Hunting drops all up to the first magic byte.
LEMMA HuntKeeps == ASSUME ParserInv, Hunt PROVE ParserInv'
  <1> DEFINE found == {i \in 1..Len(input) : input[i] = MagicLow}
             skipped == IF found = {} THEN Len(input) ELSE Min(found) - 1
  <1>1. /\ Tape /\ Window /\ Framing /\ Covered /\ used = 0 /\ fed' = fed
        /\ UNCHANGED <<expected, crc, crc_bytes>>
        /\ storage' = (IF found = {} THEN <<>> ELSE <<MagicLow>>)
        /\ input' = After(input, skipped + Len(storage'))
    BY DEF Hunt, ParserInv
  <1>2. /\ input \in Seq(Byte) /\ storage \in Seq(Byte)
        /\ Len(input) \in Nat /\ Len(storage) = 0
    BY <1>1, Lengths
  <1>3. expected = 0 BY <1>1, Format DEF Framing
  <1>4. found # {} => /\ Min(found) \in 1..Len(input)
                      /\ input[Min(found)] = MagicLow
    <2>1. found \in SUBSET (0..Len(input)) /\ Len(input) \in Int BY <1>2
    <2> HIDE DEF found
    <2>2. found # {} => Min(found) \in found BY <2>1, LeastNumber
    <2> QED BY <2>2 DEF found
  <1> DEFINE n == skipped + Len(storage')
  <1>5. /\ n \in 0..Len(input) /\ skipped \in 0..(used + n)
        /\ storage' \in Seq(Byte) /\ Moved(input, storage, storage', n, skipped)
        /\ storage' # <<>> => used' = 1 /\ storage'[1] = MagicLow
        /\ storage' = <<>> => used' = 0
    <2>1. CASE found = {}
      <3>1. storage' = <<>> /\ Len(storage') = 0 /\ n = Len(input) /\ skipped = Len(input)
        BY <1>1, <1>2, <2>1
      <3>2. Moved(input, storage, storage', n, skipped)
        BY <1>2, <3>1 DEF Moved
      <3> QED BY <1>1, <1>2, <3>1, <3>2 DEF used
    <2>2. CASE found # {}
      <3>1. /\ storage' = <<MagicLow>> /\ Len(storage') = 1 /\ storage'[1] = MagicLow
            /\ skipped = Min(found) - 1 /\ n = Min(found)
        <4>1. storage' = <<MagicLow>> /\ skipped = Min(found) - 1 BY <1>1, <2>2
        <4> HIDE DEF found, skipped
        <4>2. Len(storage') = 1 /\ storage'[1] = MagicLow BY <4>1
        <4>3. n = Min(found) BY <1>4, <2>2, <4>1, <4>2
        <4> QED BY <4>1, <4>2, <4>3
      <3>2. Min(found) \in 1..Len(input) /\ input[Min(found)] = MagicLow BY <1>4, <2>2
      <3> HIDE DEF found, skipped, n
      <3>3. Moved(input, storage, storage', n, skipped)
        <4>1. Len(storage') = Len(storage) + n - skipped BY <1>2, <3>1, <3>2
        <4>2. \A i \in 1..Len(storage') :
                storage'[i] = IF skipped + i <= Len(storage) THEN storage[skipped + i]
                              ELSE input[skipped + i - Len(storage)]
          <5> SUFFICES ASSUME NEW i \in 1..Len(storage')
                       PROVE  storage'[i] =
                                IF skipped + i <= Len(storage) THEN storage[skipped + i]
                                ELSE input[skipped + i - Len(storage)]
            OBVIOUS
          <5>1. i = 1 BY <3>1
          <5>2. ~(skipped + i <= Len(storage)) /\ skipped + i - Len(storage) = Min(found)
            BY <1>2, <3>1, <3>2, <5>1
          <5> QED BY <3>1, <3>2, <5>1, <5>2
        <4> QED BY <4>1, <4>2 DEF Moved
      <3>4. storage' \in Seq(Byte) BY <3>1, Format
      <3>5. n \in 0..Len(input) /\ skipped \in 0..(used + n) BY <1>1, <1>2, <3>1, <3>2
      <3> QED BY <3>1, <3>3, <3>4, <3>5 DEF used
    <2> QED BY <2>1, <2>2
  <1> HIDE DEF found, skipped
  <1>6. Tape' /\ Window' BY <1>1, <1>5, WindowStep
  <1>7. Framing' BY <1>1, <1>3, <1>5, Format DEF Framing
  <1>8. Covered' BY <1>1, <1>3, UncoveredStays
  <1> QED BY <1>6, <1>7, <1>8 DEF ParserInv

\* The second byte is kept if it goes on with the magic or begins another one.
LEMMA SecondMagicKeeps == ASSUME ParserInv, SecondMagic PROVE ParserInv'
  <1>1. /\ Tape /\ Window /\ Framing /\ Covered /\ used = 1 /\ fed' = fed
        /\ UNCHANGED <<expected, crc, crc_bytes>>
        /\ storage' = CASE Head(input) = MagicHigh -> <<MagicLow, MagicHigh>>
                        [] Head(input) = MagicLow  -> <<MagicLow>>
                        [] OTHER                   -> <<>>
        /\ input' = Tail(input) /\ input # <<>>
    BY DEF SecondMagic, ParserInv
  <1>2. /\ input \in Seq(Byte) /\ storage \in Seq(Byte)
        /\ Len(input) \in Nat /\ Len(input) > 0 /\ Len(storage) = 1
    BY <1>1, Lengths
  <1>3. expected = 0 /\ storage[1] = MagicLow BY <1>1, Format DEF Framing
  <1>4. input' = After(input, 1) /\ Head(input) = input[1]
    BY <1>1, <1>2 DEF After
  <1> DEFINE k == 2 - Len(storage')
  <1>5. /\ k \in 0..2 /\ storage' \in Seq(Byte) /\ Moved(input, storage, storage', 1, k)
        /\ used' >= 1 => storage'[1] = MagicLow
        /\ used' >= 2 => storage'[2] = MagicHigh
        /\ used' < 4
    <2>1. CASE input[1] = MagicHigh
      <3>1. storage' = <<MagicLow, MagicHigh>> BY <1>1, <1>4, <2>1, Format
      <3>2. Len(storage') = 2 /\ storage'[1] = MagicLow /\ storage'[2] = MagicHigh BY <3>1
      <3>3. k = 0 BY <3>2
      <3>4. Moved(input, storage, storage', 1, k)
        BY <1>2, <1>3, <2>1, <3>2, <3>3 DEF Moved
      <3> QED BY <3>1, <3>2, <3>3, <3>4, Format DEF used
    <2>2. CASE input[1] # MagicHigh /\ input[1] = MagicLow
      <3>1. storage' = <<MagicLow>> BY <1>1, <1>4, <2>2
      <3>2. Len(storage') = 1 /\ storage'[1] = MagicLow BY <3>1
      <3>3. k = 1 BY <3>2
      <3>4. Moved(input, storage, storage', 1, k)
        BY <1>2, <2>2, <3>2, <3>3 DEF Moved
      <3> QED BY <3>1, <3>2, <3>3, <3>4, Format DEF used
    <2>3. CASE input[1] # MagicHigh /\ input[1] # MagicLow
      <3>1. storage' = <<>> BY <1>1, <1>4, <2>3
      <3>2. Len(storage') = 0 BY <3>1
      <3>3. k = 2 BY <3>2
      <3>4. Moved(input, storage, storage', 1, k)
        BY <1>2, <3>2, <3>3 DEF Moved
      <3> QED BY <3>1, <3>2, <3>3, <3>4 DEF used
    <2> QED BY <2>1, <2>2, <2>3
  <1> HIDE DEF k
  <1>6. 1 \in 0..Len(input) /\ k \in 0..(used + 1) BY <1>1, <1>2, <1>5
  <1>7. Tape' /\ Window' BY <1>1, <1>4, <1>5, <1>6, WindowStep
  <1>8. Framing' BY <1>1, <1>3, <1>5, Format DEF Framing
  <1>9. Covered' BY <1>1, <1>3, UncoveredStays
  <1> QED BY <1>7, <1>8, <1>9 DEF ParserInv

\* What the parser stores of the input while a header is incomplete.
LEMMA HeaderFacts ==
  ASSUME ParserInv, input # <<>>, used \in 2..(HeaderBytes - 1)
  PROVE  /\ expected = 0 /\ HeaderCount \in 0..Len(input)
         /\ Filled \in Seq(Byte) /\ Len(Filled) = used + HeaderCount
         /\ Len(Filled) <= HeaderBytes
         /\ Filled[1] = MagicLow /\ Filled[2] = MagicHigh
  <1>1. /\ input \in Seq(Byte) /\ storage \in Seq(Byte) /\ Framing
        /\ Len(input) \in Nat /\ Len(input) > 0 /\ used \in 2..3 /\ used = Len(storage)
    BY Lengths, Format DEF ParserInv
  <1>2. expected = 0 BY <1>1, Format DEF Framing
  <1>3. HeaderCount = IF 4 - used <= Len(input) THEN 4 - used ELSE Len(input)
    <2>1. HeaderBytes - used \in Int /\ Len(input) \in Int BY <1>1, Format
    <2>2. HeaderCount = IF HeaderBytes - used <= Len(input)
                        THEN HeaderBytes - used ELSE Len(input)
      BY <2>1, MinOfTwo DEF HeaderCount
    <2> QED BY <2>2 DEF HeaderBytes
  <1>4. HeaderCount \in 0..Len(input) /\ used + HeaderCount <= 4
    <2>1. used \in 2..3 /\ Len(input) \in Nat BY <1>1, Zenon
    <2>2. \A u \in 2..3, n \in Nat :
             LET c == IF 4 - u <= n THEN 4 - u ELSE n IN c \in 0..n /\ u + c <= 4
      OBVIOUS
    <2> QED BY <1>3, <2>1, <2>2
  <1>5. /\ Filled \in Seq(Byte) /\ Len(Filled) = Len(storage) + HeaderCount
        /\ \A i \in 1..Len(storage) : Filled[i] = storage[i]
    BY <1>1, <1>4, JoinFacts DEF Filled
  <1>6. Filled[1] = storage[1] /\ Filled[2] = storage[2] BY <1>1, <1>5
  <1>7. storage[1] = MagicLow /\ storage[2] = MagicHigh BY <1>1 DEF Framing
  <1> QED BY <1>1, <1>2, <1>4, <1>5, <1>6, <1>7, Format

\* Nothing is left out behind no element.
LEMMA AfterNone == ASSUME NEW S, NEW s \in Seq(S) PROVE After(s, 0) = s
  BY SubSeqFull DEF After

\* A step that stores what it consumes and drops nothing.
LEMMA AppendStep ==
  ASSUME ParserInv, NEW n \in 0..Len(input), input' = After(input, n), fed' = fed,
         storage' = storage \o SubSeq(input, 1, n)
  PROVE  Tape' /\ Window' /\ used' = used + n
  <1>1. /\ input \in Seq(Byte) /\ storage \in Seq(Byte) /\ Tape /\ Window
        /\ used \in Nat /\ n \in Nat
    BY Lengths DEF ParserInv
  <1>2. storage \o SubSeq(input, 1, n) \in Seq(Byte) BY <1>1, JoinFacts
  <1>3. storage' = After(storage \o SubSeq(input, 1, n), 0) BY <1>2, AfterNone
  <1>4. 0 \in 0..(used + n) /\ used + n - 0 = used + n BY <1>1
  <1>5. Tape' /\ Window' /\ used' = used + n - 0 BY <1>1, <1>3, <1>4, JoinStep
  <1> QED BY <1>4, <1>5

\* More of the header is stored.
LEMMA HeaderPartKeeps == ASSUME ParserInv, HeaderPart PROVE ParserInv'
  <1>1. /\ input # <<>> /\ used \in 2..(HeaderBytes - 1) /\ Len(Filled) < HeaderBytes
        /\ storage' = Filled /\ input' = After(input, HeaderCount) /\ fed' = fed
        /\ UNCHANGED <<expected, crc, crc_bytes>>
    BY DEF HeaderPart
  <1>2. /\ expected = 0 /\ HeaderCount \in 0..Len(input)
        /\ Filled[1] = MagicLow /\ Filled[2] = MagicHigh
    BY <1>1, HeaderFacts
  <1>3. storage' = storage \o SubSeq(input, 1, HeaderCount) BY <1>1 DEF Filled
  <1>4. Tape' /\ Window' BY <1>1, <1>2, <1>3, AppendStep
  <1>5. Framing' BY <1>1, <1>2 DEF Framing, used
  <1>6. Covered' BY <1>1, <1>2, UncoveredStays DEF ParserInv
  <1> QED BY <1>4, <1>5, <1>6 DEF ParserInv

\* A valid header says how long its frame is, and the checksum covers it.
LEMMA HeaderAcceptedKeeps == ASSUME ParserInv, HeaderAccepted PROVE ParserInv'
  <1>1. /\ input # <<>> /\ used \in 2..(HeaderBytes - 1)
        /\ Len(Filled) = HeaderBytes /\ HeaderOK(Filled)
        /\ storage' = Filled /\ input' = After(input, HeaderCount) /\ fed' = fed
        /\ expected' = Overhead + PayloadLength(Filled)
        /\ crc_bytes' = HeaderBytes /\ crc' = CrcFold(CrcInit, Filled)
    BY DEF HeaderAccepted
  <1>2. /\ HeaderCount \in 0..Len(input) /\ Filled \in Seq(Byte) /\ Len(Filled) = 4
        /\ Filled[1] = MagicLow /\ Filled[2] = MagicHigh
    BY <1>1, HeaderFacts, Format
  <1>3. storage' = storage \o SubSeq(input, 1, HeaderCount) BY <1>1 DEF Filled
  <1>4. Tape' /\ Window' BY <1>1, <1>2, <1>3, AppendStep
  <1>5. PayloadLength(Filled) \in Nat
    <2>1. 4 \in 1..Len(Filled) BY <1>2
    <2>2. Filled[4] \in Byte BY <1>2, <2>1, ElementOfSeq
    <2> QED BY <2>2, Format DEF PayloadLength
  <1>6. used' = 4 /\ expected' \in Nat /\ expected' >= 6 BY <1>1, <1>2, <1>5, Format DEF used
  <1>7. Framing'
    <2>1. storage'[1] = MagicLow /\ storage'[2] = MagicHigh BY <1>1, <1>2
    <2>2. HeaderOK(storage') /\ expected' = Overhead + PayloadLength(storage') BY <1>1
    <2> QED BY <1>6, <2>1, <2>2, Format DEF Framing
  <1>8. Covered'
    <2>1. SubSeq(storage', 1, crc_bytes') = Filled BY <1>1, <1>2, SubSeqFull, Format
    <2>2. Min({used', expected' - TrailerBytes}) = 4
      <3>1. \A e \in Nat : e >= 6 => Min({4, e - TrailerBytes}) = 4
        <4> SUFFICES ASSUME NEW e \in Nat, e >= 6 PROVE Min({4, e - TrailerBytes}) = 4
          OBVIOUS
        <4>1. e - TrailerBytes \in Int /\ 4 <= e - TrailerBytes BY DEF TrailerBytes
        <4> QED BY <4>1, MinOfTwo
      <3> QED BY <1>6, <3>1
    <2>3. crc' = CrcFold(CrcInit, SubSeq(storage', 1, crc_bytes')) BY <1>1, <2>1
    <2>4. crc_bytes' = 4 /\ expected' # 0 BY <1>1, <1>6, Format
    <2> QED BY <2>2, <2>3, <2>4 DEF Covered
  <1> QED BY <1>4, <1>7, <1>8 DEF ParserInv

\* Of a rejected header is kept what may begin a frame, from the first place
\* where one may, and never all of it.
LEMMA ResynchronizeFacts ==
  ASSUME NEW s \in Seq(Byte), Len(s) = HeaderBytes
  PROVE  \E k \in 1..HeaderBytes :
           /\ Resynchronize(s) = After(s, k)
           /\ \A i \in 2..k : i \notin Restarts(s)
           /\ k < HeaderBytes => s[k + 1] = MagicLow
           /\ k + 1 < HeaderBytes => s[k + 2] = MagicHigh
  <1>1. Len(s) = 4 BY Format
  <1>2. CASE Restarts(s) = {}
    <2>1. Resynchronize(s) = <<>> BY <1>2 DEF Resynchronize
    <2>2. After(s, 4) = <<>> BY <1>1, SubSeqEmpty DEF After
    <2> QED BY <1>2, <2>1, <2>2, Format
  <1>3. CASE Restarts(s) # {}
    <2>1. Restarts(s) \in SUBSET (0..4) BY <1>1 DEF Restarts
    <2>2. /\ Min(Restarts(s)) \in Restarts(s)
          /\ \A i \in Restarts(s) : Min(Restarts(s)) <= i
      BY <1>3, <2>1, LeastNumber
    <2> DEFINE m == Min(Restarts(s))
               k == m - 1
    <2>3. m \in 2..4 /\ s[m] = MagicLow /\ (m < 4 => s[m + 1] = MagicHigh)
      BY <1>1, <2>2 DEF Restarts
    <2>4. Resynchronize(s) = After(s, k) BY <1>3 DEF Resynchronize
    <2>5. \A i \in Restarts(s) : m <= i BY <2>2
    <2> HIDE DEF m
    <2>6. k \in 1..4 /\ k + 1 = m /\ k + 2 = m + 1 BY <2>3
    <2>7. \A i \in 2..k : i \notin Restarts(s) BY <2>3, <2>5
    <2> QED BY <2>3, <2>4, <2>6, <2>7, Format
  <1> QED BY <1>2, <1>3

\* A header that is not valid is cut down to what may begin another one.
LEMMA HeaderRejectedKeeps == ASSUME ParserInv, HeaderRejected PROVE ParserInv'
  <1>1. /\ input # <<>> /\ used \in 2..(HeaderBytes - 1) /\ Len(Filled) = HeaderBytes
        /\ storage' = Resynchronize(Filled) /\ input' = After(input, HeaderCount)
        /\ expected' = 0 /\ crc' = CrcInit /\ crc_bytes' = 0 /\ fed' = fed
    BY DEF HeaderRejected
  <1>2. /\ HeaderCount \in 0..Len(input) /\ Filled \in Seq(Byte)
        /\ Len(Filled) = used + HeaderCount /\ Len(Filled) = 4
        /\ used \in Nat /\ HeaderCount \in Nat
    BY <1>1, HeaderFacts, Lengths, Format
  <1>3. PICK k \in 1..4 : /\ storage' = After(Filled, k)
                          /\ k < 4 => Filled[k + 1] = MagicLow
                          /\ k + 1 < 4 => Filled[k + 2] = MagicHigh
    BY <1>1, <1>2, ResynchronizeFacts, Format
  <1>4. Tape' /\ Window' /\ used' = used + HeaderCount - k
    <2>1. storage' = After(storage \o SubSeq(input, 1, HeaderCount), k)
      BY <1>3 DEF Filled
    <2>2. used + HeaderCount = 4 BY <1>2
    <2>3. k \in 0..4 OBVIOUS
    <2>4. k \in 0..(used + HeaderCount) BY <2>2, <2>3
    <2> QED BY <1>1, <1>2, <2>1, <2>4, JoinStep DEF ParserInv
  <1>5. Framing'
    <2>1. used' = 4 - k /\ k \in 1..4
      <3>1. used + HeaderCount = 4 /\ used \in Nat /\ HeaderCount \in Nat BY <1>2
      <3>2. used' = used + HeaderCount - k BY <1>4
      <3> QED BY <3>1, <3>2
    <2>2. \A i \in 1..(4 - k) : storage'[i] = Filled[k + i]
      <3>1. Filled \in Seq(Byte) /\ Len(Filled) = 4 BY <1>2
      <3>2. k \in 0..Len(Filled) BY <3>1
      <3>3. \A i \in 1..(Len(Filled) - k) : After(Filled, k)[i] = Filled[k + i]
        BY <3>1, <3>2, AfterFacts
      <3>4. storage' = After(Filled, k) BY <1>3
      <3> QED BY <3>1, <3>3, <3>4
    <2>3. used' >= 1 => storage'[1] = MagicLow BY <1>3, <2>1, <2>2
    <2>4. used' >= 2 => storage'[2] = MagicHigh BY <1>3, <2>1, <2>2
    <2> QED BY <1>1, <2>1, <2>3, <2>4, Format DEF Framing
  <1>6. Covered' BY <1>1, ResetCovers
  <1> QED BY <1>4, <1>5, <1>6 DEF ParserInv

\* What the parser stores of the input once it knows the frame's length.
LEMMA BodyFacts ==
  ASSUME ParserInv, input # <<>>, expected # 0
  PROVE  /\ HeaderBytes <= used /\ used < expected /\ expected \in Nat
         /\ HeaderOK(storage) /\ expected = Overhead + PayloadLength(storage)
         /\ storage[1] = MagicLow /\ storage[2] = MagicHigh
         /\ BodyCount \in 0..Len(input)
         /\ Extended \in Seq(Byte) /\ Len(Extended) = used + BodyCount
         /\ Len(Extended) <= expected
         /\ \A i \in 1..used : Extended[i] = storage[i]
  <1>1. /\ input \in Seq(Byte) /\ storage \in Seq(Byte) /\ Framing
        /\ Len(input) \in Nat /\ used \in Nat /\ used = Len(storage)
    BY Lengths DEF ParserInv
  <1>2. /\ HeaderBytes <= used /\ used < expected /\ expected \in Nat
        /\ HeaderOK(storage) /\ expected = Overhead + PayloadLength(storage)
    BY <1>1 DEF Framing
  <1>3. storage[1] = MagicLow /\ storage[2] = MagicHigh
    BY <1>1, <1>2, Format DEF Framing
  <1>4. BodyCount \in 0..Len(input) /\ used + BodyCount <= expected
    <2>1. \A u, e, n \in Nat : u < e => /\ Min({e - u, n}) \in 0..n
                                        /\ u + Min({e - u, n}) <= e
      <3> SUFFICES ASSUME NEW u \in Nat, NEW e \in Nat, NEW n \in Nat, u < e
                   PROVE  Min({e - u, n}) \in 0..n /\ u + Min({e - u, n}) <= e
        OBVIOUS
      <3>1. e - u \in Int /\ n \in Int OBVIOUS
      <3>2. Min({e - u, n}) = IF e - u <= n THEN e - u ELSE n BY <3>1, MinOfTwo
      <3>3. Min({e - u, n}) \in 0..n BY <3>2
      <3>4. u + Min({e - u, n}) <= e BY <3>2
      <3> QED BY <3>3, <3>4
    <2>2. used \in Nat /\ expected \in Nat /\ Len(input) \in Nat /\ used < expected
      BY <1>1, <1>2, Zenon
    <2> QED BY <2>1, <2>2 DEF BodyCount
  <1>5. /\ Extended \in Seq(Byte) /\ Len(Extended) = Len(storage) + BodyCount
        /\ \A i \in 1..Len(storage) : Extended[i] = storage[i]
    BY <1>1, <1>4, JoinFacts DEF Extended
  <1> QED BY <1>1, <1>2, <1>3, <1>4, <1>5

\* A checksum over the first a bytes of s, continued to the first b of s \o t.
LEMMA CatchUp ==
  ASSUME NEW S, NEW s \in Seq(S), NEW t \in Seq(S), NEW c,
         NEW a \in 0..Len(s), NEW b \in a..(Len(s) + Len(t))
  PROVE  CrcFold(CrcFold(c, SubSeq(s, 1, a)), SubSeq(s \o t, a + 1, b)) =
           CrcFold(c, SubSeq(s \o t, 1, b))
  <1> DEFINE u == s \o t
  <1>1. /\ Len(s) \in Nat /\ Len(t) \in Nat /\ u \in Seq(S)
        /\ Len(u) = Len(s) + Len(t)
    BY LenProperties, ConcatProperties
  <1>2. SubSeq(s, 1, a) = SubSeq(u, 1, a)
    <2>1. CASE a = 0 BY <2>1, SubSeqEmpty
    <2>2. CASE a # 0
      <3>1. 1 \in 1..Len(s) /\ a \in 1..Len(s) BY <1>1, <2>2
      <3> QED BY <3>1, SubSeqOfConcat1
    <2> QED BY <2>1, <2>2
  <1> HIDE DEF u
  <1>3. a \in 0..Len(u) /\ b \in a..Len(u) /\ 1 \in 1..(Len(u) + 1) /\ 1 - 1 = 0
    BY <1>1
  <1>4. SubSeq(u, 1, a) \o SubSeq(u, a + 1, b) = SubSeq(u, 1, b)
    BY <1>1, <1>3, ConcatAdjacentSubSeq
  <1>5. SubSeq(u, 1, a) \in Seq(S) /\ SubSeq(u, a + 1, b) \in Seq(S)
    <2>1. \A i \in 1..a : u[i] \in S BY <1>1, <1>3, ElementOfSeq
    <2>2. \A i \in (a + 1)..b : u[i] \in S BY <1>1, <1>3, ElementOfSeq
    <2>3. 1 \in Int /\ a \in Int /\ a + 1 \in Int /\ b \in Int BY <1>1, <1>3
    <2> QED BY <2>1, <2>2, <2>3, SubSeqProperties
  <1>6. CrcFold(c, SubSeq(u, 1, a) \o SubSeq(u, a + 1, b)) =
          CrcFold(CrcFold(c, SubSeq(u, 1, a)), SubSeq(u, a + 1, b))
    <2> DEFINE p == SubSeq(u, 1, a)
               q == SubSeq(u, a + 1, b)
    <2>1. p \in Seq(S) /\ q \in Seq(S) BY <1>5
    <2> HIDE DEF p, q
    <2>2. CrcFold(c, p \o q) = CrcFold(CrcFold(c, p), q) BY <2>1, CrcFoldConcat
    <2> QED BY <2>2 DEF p, q
  <1> QED BY <1>2, <1>4, <1>6 DEF u

\* The checksum that has caught up with the storage and what comes behind it.
LEMMA BodyCrc ==
  ASSUME ParserInv, input # <<>>, expected # 0
  PROVE  CrcCaughtUp(Extended) = CrcFold(CrcInit, SubSeq(Extended, 1, CaughtUp(Extended)))
  <1>1. /\ HeaderBytes <= used /\ used < expected /\ expected \in Nat
        /\ BodyCount \in 0..Len(input) /\ Len(Extended) = used + BodyCount
    BY BodyFacts
  <1>2. used \in Nat /\ BodyCount \in Nat /\ Len(input) \in Nat
    <2>1. used \in Nat /\ Len(input) \in Nat BY Lengths
    <2> QED BY <1>1, <2>1
  <1> DEFINE a == crc_bytes
             b == CaughtUp(Extended)
  <1>3. /\ crc = CrcFold(CrcInit, SubSeq(storage, 1, a))
        /\ a = Min({used, expected - TrailerBytes})
    BY DEF ParserInv, Covered
  <1>4. b = Min({Len(Extended), expected - TrailerBytes}) BY DEF CaughtUp
  <1>5. \A u, n, e \in Nat : /\ 4 <= u /\ u < e
          => /\ Min({u, e - TrailerBytes}) \in 0..u
             /\ Min({u + n, e - TrailerBytes}) \in Min({u, e - TrailerBytes})..(u + n)
    <2> SUFFICES ASSUME NEW u \in Nat, NEW n \in Nat, NEW e \in Nat, 4 <= u, u < e
                 PROVE  /\ Min({u, e - TrailerBytes}) \in 0..u
                        /\ Min({u + n, e - TrailerBytes}) \in
                             Min({u, e - TrailerBytes})..(u + n)
      OBVIOUS
    <2>1. e - TrailerBytes \in Int /\ e - TrailerBytes >= 0 BY Format
    <2>2. Min({u, e - TrailerBytes}) =
            IF u <= e - TrailerBytes THEN u ELSE e - TrailerBytes
      BY <2>1, MinOfTwo
    <2>3. Min({u + n, e - TrailerBytes}) =
            IF u + n <= e - TrailerBytes THEN u + n ELSE e - TrailerBytes
      <3>1. u + n \in Int OBVIOUS
      <3> QED BY <2>1, <3>1, MinOfTwo
    <2>4. Min({u, e - TrailerBytes}) \in 0..u BY <2>1, <2>2
    <2>5. Min({u + n, e - TrailerBytes}) \in Min({u, e - TrailerBytes})..(u + n)
      BY <2>1, <2>2, <2>3
    <2> QED BY <2>4, <2>5
  <1>6. a \in 0..used /\ b \in a..(used + BodyCount)
    <2>1. 4 <= used BY <1>1, Format
    <2>2. used < expected /\ expected \in Nat BY <1>1
    <2>3. Len(Extended) = used + BodyCount BY <1>1
    <2> QED BY <1>2, <1>3, <1>4, <1>5, <2>1, <2>2, <2>3
  <1> HIDE DEF a, b
  <1>7. CrcFold(CrcFold(CrcInit, SubSeq(storage, 1, a)), SubSeq(Extended, a + 1, b)) =
          CrcFold(CrcInit, SubSeq(Extended, 1, b))
    <2> DEFINE t == SubSeq(input, 1, BodyCount)
    <2>1. storage \in Seq(Byte) /\ input \in Seq(Byte) /\ used = Len(storage) BY Lengths
    <2>2. t \in Seq(Byte) /\ Len(t) = BodyCount
      <3>1. \A i \in 1..BodyCount : input[i] \in Byte
        <4> SUFFICES ASSUME NEW i \in 1..BodyCount PROVE input[i] \in Byte OBVIOUS
        <4>1. i \in 1..Len(input) BY <1>1, <1>2
        <4> QED BY <2>1, <4>1, ElementOfSeq
      <3>2. 1 \in Int /\ BodyCount \in Int BY <1>2
      <3>3. t \in Seq(Byte) /\ Len(t) = IF 1 <= BodyCount THEN BodyCount - 1 + 1 ELSE 0
        BY <3>1, <3>2, SubSeqProperties
      <3> QED BY <1>2, <3>3
    <2>3. Extended = storage \o t BY DEF Extended
    <2> HIDE DEF t
    <2>4. a \in 0..Len(storage) /\ b \in a..(Len(storage) + Len(t))
      BY <1>6, <2>1, <2>2
    <2> QED BY <2>1, <2>2, <2>3, <2>4, CatchUp
  <1>8. CrcCaughtUp(Extended) = CrcFold(crc, SubSeq(Extended, a + 1, b))
    BY DEF CrcCaughtUp, a, b
  <1> QED BY <1>3, <1>7, <1>8 DEF b

\* More of the frame is stored, and the checksum catches up with it.
LEMMA BodyPartKeeps == ASSUME ParserInv, BodyPart PROVE ParserInv'
  <1>1. /\ input # <<>> /\ expected # 0 /\ Len(Extended) < expected
        /\ storage' = Extended /\ input' = After(input, BodyCount)
        /\ crc' = CrcCaughtUp(Extended) /\ crc_bytes' = CaughtUp(Extended)
        /\ expected' = expected /\ fed' = fed
    BY DEF BodyPart
  <1>2. /\ HeaderBytes <= used /\ used < expected /\ expected \in Nat
        /\ HeaderOK(storage) /\ expected = Overhead + PayloadLength(storage)
        /\ storage[1] = MagicLow /\ storage[2] = MagicHigh
        /\ BodyCount \in 0..Len(input)
        /\ Extended \in Seq(Byte) /\ Len(Extended) = used + BodyCount
        /\ \A i \in 1..used : Extended[i] = storage[i]
    BY <1>1, BodyFacts
  <1>3. storage' = storage \o SubSeq(input, 1, BodyCount) BY <1>1 DEF Extended
  <1>4. Tape' /\ Window' /\ used' = used + BodyCount BY <1>1, <1>2, <1>3, AppendStep
  <1>5. used \in Nat /\ BodyCount \in Nat /\ Len(input) \in Nat
    <2>1. used \in Nat /\ Len(input) \in Nat BY Lengths
    <2> QED BY <1>2, <2>1
  <1>6. Framing'
    <2>1. \A i \in 1..4 : Extended[i] = storage[i]
      <3>1. 4 <= used BY <1>2, Format
      <3> QED BY <1>2, <1>5, <3>1
    <2>2. HeaderOK(Extended) /\ PayloadLength(Extended) = PayloadLength(storage)
      BY <1>2, <2>1, SameHeader
    <2>3. storage'[1] = MagicLow /\ storage'[2] = MagicHigh BY <1>1, <1>2, <2>1
    <2>4. used' < expected /\ used <= used'
      <3>1. used' < expected BY <1>1 DEF used
      <3> QED BY <1>4, <1>5, <3>1
    <2>5. HeaderBytes <= used' BY <1>2, <1>4, <1>5, <2>4, Format
    <2>6. /\ expected' \in Nat /\ expected' # 0 /\ used' < expected'
          /\ HeaderOK(storage') /\ expected' = Overhead + PayloadLength(storage')
      BY <1>1, <1>2, <2>2, <2>4
    <2> QED BY <2>3, <2>5, <2>6 DEF Framing
  <1>7. Covered'
    <2>1. crc' = CrcFold(CrcInit, SubSeq(storage', 1, crc_bytes'))
      BY <1>1, BodyCrc
    <2>2. crc_bytes' = Min({used', expected' - TrailerBytes})
      BY <1>1 DEF CaughtUp, used
    <2>3. expected' # 0 BY <1>1
    <2> QED BY <2>1, <2>2, <2>3 DEF Covered
  <1> QED BY <1>4, <1>6, <1>7 DEF ParserInv

\* The whole frame leaves the storage.
LEMMA BodyCompleteKeeps == ASSUME ParserInv, BodyComplete PROVE ParserInv'
  <1>1. /\ input # <<>> /\ expected # 0
        /\ input' = After(input, BodyCount) /\ storage' = <<>> /\ fed' = fed
        /\ expected' = 0 /\ crc' = CrcInit /\ crc_bytes' = 0
    BY DEF BodyComplete
  <1>2. BodyCount \in 0..Len(input) /\ Extended \in Seq(Byte) BY <1>1, BodyFacts
  <1>3. used \in Nat /\ Len(input) \in Nat /\ BodyCount \in Nat
    <2>1. used \in Nat /\ Len(input) \in Nat BY Lengths
    <2> QED BY <1>2, <2>1
  <1> DEFINE k == used + BodyCount
  <1>4. k \in 0..(used + BodyCount) BY <1>3
  <1>5. Moved(input, storage, storage', BodyCount, k)
    <2>1. Len(storage') = 0 BY <1>1
    <2>2. Len(storage) + BodyCount - k = 0 BY <1>3 DEF used
    <2> HIDE DEF k
    <2> QED BY <2>1, <2>2 DEF Moved
  <1>6. storage' \in Seq(Byte) BY <1>1
  <1> HIDE DEF k
  <1>7. Tape' /\ Window' BY <1>1, <1>2, <1>4, <1>5, <1>6, WindowStep DEF ParserInv
  <1>8. Framing'
    <2>1. used' = 0 BY <1>1 DEF used
    <2> QED BY <1>1, <2>1, Format DEF Framing
  <1>9. Covered' BY <1>1, ResetCovers
  <1> QED BY <1>7, <1>8, <1>9 DEF ParserInv

\* Every turn of the loop keeps them.
LEMMA NextParser == ParserInv /\ [Next]_vars => ParserInv'
  <1> SUFFICES ASSUME ParserInv, [Next]_vars PROVE ParserInv' OBVIOUS
  <1>1. CASE Feed BY <1>1, FeedKeeps
  <1>2. CASE Hunt BY <1>2, HuntKeeps
  <1>3. CASE SecondMagic BY <1>3, SecondMagicKeeps
  <1>4. CASE HeaderPart BY <1>4, HeaderPartKeeps
  <1>5. CASE HeaderAccepted BY <1>5, HeaderAcceptedKeeps
  <1>6. CASE HeaderRejected BY <1>6, HeaderRejectedKeeps
  <1>7. CASE BodyPart BY <1>7, BodyPartKeeps
  <1>8. CASE BodyComplete BY <1>8, BodyCompleteKeeps
  <1>9. CASE UNCHANGED vars
    <2>1. UNCHANGED <<input, storage, expected, crc, crc_bytes, fed>> BY <1>9 DEF vars
    <2>2. used' = used BY <2>1 DEF used
    <2>3. Tape' /\ Window' BY <2>1, <2>2 DEF ParserInv, Tape, Window
    <2>4. Framing' /\ Covered' BY <2>1, <2>2 DEF ParserInv, Framing, Covered
    <2> QED BY <2>3, <2>4 DEF ParserInv
  <1> QED BY <1>1, <1>2, <1>3, <1>4, <1>5, <1>6, <1>7, <1>8, <1>9 DEF Next

-----------------------------------------------------------------------------
(* What holds of the storage and the checksum. *)

\* ParserInv holds in every reachable state.
THEOREM ParserInvariance == Spec => []ParserInv
  <1> QED BY InitParser, NextParser, PTL DEF Spec

\* The stream up to where it is consumed.
LEMMA ConsumedFacts ==
  ASSUME ParserInv
  PROVE  LET c == Len(fed) - Len(input)
         IN /\ c \in Nat /\ c <= Len(fed)
            /\ consumed \in Seq(Byte) /\ Len(consumed) = c
            /\ \A i \in 1..c : consumed[i] = fed[i]
  <1> DEFINE c == Len(fed) - Len(input)
  <1>1. fed \in Seq(Byte) /\ input \in Seq(Byte) /\ Len(input) <= Len(fed)
    BY DEF ParserInv, Tape
  <1>2. c \in Nat /\ c <= Len(fed)
    <2>1. Len(fed) \in Nat /\ Len(input) \in Nat BY <1>1, LenProperties
    <2> QED BY <1>1, <2>1
  <1>3. consumed = SubSeq(fed, 1, c) BY DEF consumed
  <1> HIDE DEF c
  <1>4. consumed \in Seq(Byte) /\ Len(consumed) = c /\ \A i \in 1..c : consumed[i] = fed[i]
    <2>1. \A i \in 1..c : fed[i] \in Byte
      <3> SUFFICES ASSUME NEW i \in 1..c PROVE fed[i] \in Byte OBVIOUS
      <3>1. Len(fed) \in Nat BY <1>1, LenProperties
      <3>2. i \in 1..Len(fed) BY <1>2, <3>1
      <3> QED BY <1>1, <3>2, ElementOfSeq
    <2>2. 1 \in Int /\ c \in Int BY <1>2
    <2>3. /\ consumed \in Seq(Byte)
          /\ Len(consumed) = IF 1 <= c THEN c - 1 + 1 ELSE 0
          /\ \A i \in 1..(c - 1 + 1) : consumed[i] = fed[1 + i - 1]
      BY <1>3, <2>1, <2>2, SubSeqProperties
    <2> QED BY <1>2, <2>3
  <1> QED BY <1>2, <1>4 DEF c

\* What the invariant says of the storage.
LEMMA StorageIsSuffix == ParserInv => WindowIsSuffix
  <1> SUFFICES ASSUME ParserInv PROVE WindowIsSuffix OBVIOUS
  <1>1. Tape /\ Window /\ Framing BY DEF ParserInv
  <1> DEFINE c == Len(fed) - Len(input)
  <1>2. /\ fed \in Seq(Byte) /\ storage \in Seq(Byte) /\ used = Len(storage)
        /\ Len(input) <= Len(fed) /\ used <= c
        /\ \A i \in 1..used : storage[i] = fed[c - used + i]
    BY <1>1 DEF Tape, Window, used
  <1>3. /\ used \in Nat /\ c \in Nat
        /\ consumed \in Seq(Byte) /\ Len(consumed) = c
        /\ \A i \in 1..c : consumed[i] = fed[i]
    BY ConsumedFacts, Lengths
  <1> HIDE DEF c
  <1>4. IsSuffix(storage, consumed)
    <2>1. \A i \in 1..Len(storage) :
             storage[i] = consumed[Len(consumed) - Len(storage) + i]
      <3> SUFFICES ASSUME NEW i \in 1..used
                   PROVE  storage[i] = consumed[c - used + i]
        BY <1>2, <1>3
      <3>1. c - used + i \in 1..c BY <1>2, <1>3
      <3> QED BY <1>2, <1>3, <3>1
    <2>2. Len(storage) <= Len(consumed) BY <1>2, <1>3
    <2> QED BY <1>2, <1>3, <2>1, <2>2, SuffixByElements
  <1>5. IF expected = 0 THEN used < HeaderBytes
        ELSE used < expected /\ expected <= StorageCapacity
    <2>1. HeaderOK(storage) => Overhead + PayloadLength(storage) <= StorageCapacity
      BY DEF HeaderOK
    <2> QED BY <1>1, <2>1 DEF Framing
  <1>6. (used >= 1 => storage[1] = MagicLow) /\ (used >= 2 => storage[2] = MagicHigh)
    BY <1>1 DEF Framing
  <1> QED BY <1>4, <1>5, <1>6 DEF WindowIsSuffix

\* However the stream is cut into calls, noise skipped and headers rejected,
\* the storage is the end of what was consumed, begins like a frame and has
\* room for the rest of the frame that is expected (zs407_protocol.c:346-349,
\* 443-491).
THEOREM WindowSlides == Spec => []WindowIsSuffix
  <1> QED BY ParserInvariance, StorageIsSuffix, PTL

\* However the frame is cut into fragments, the running checksum is that of
\* the bytes before the trailer, each once and in order
\* (zs407_protocol.c:376-385).
THEOREM CrcCovers == Spec => []CrcCoversPrefix
  <1>1. ParserInv => CrcCoversPrefix BY DEF ParserInv, Covered, CrcCoversPrefix
  <1> QED BY <1>1, ParserInvariance, PTL

-----------------------------------------------------------------------------
(* The scan of a whole stream. *)

\* The header at p: whether it is valid, and the frame it announces.
ValidAt(s, p) == HeaderOK(SubSeq(s, p, p + HeaderBytes - 1))
LengthAt(s, p) == Overhead + PayloadLength(SubSeq(s, p, p + HeaderBytes - 1))
FrameAt(s, p) == SubSeq(s, p, p + LengthAt(s, p) - 1)

\* What is claimed from p on, if g says what is claimed from later places on.
ClaimedFrom(g, s, p) ==
  IF p + HeaderBytes - 1 > Len(s) THEN <<>>
  ELSE IF ~ValidAt(s, p) THEN g[p + 1]
  ELSE IF p + LengthAt(s, p) - 1 > Len(s) THEN <<>>
  ELSE <<FrameAt(s, p)>> \o g[p + LengthAt(s, p)]

\* g is a scan of s from right to left.
Scan(g, s) == \A p \in 1..(Len(s) + 1) : g[p] = ClaimedFrom(g, s, p)

\* A header byte by byte.
LEMMA HeaderAt ==
  ASSUME NEW s \in Seq(Byte), NEW p \in 1..Len(s), p + 3 <= Len(s)
  PROVE  /\ ValidAt(s, p) <=> /\ s[p] = MagicLow /\ s[p + 1] = MagicHigh
                              /\ s[p + 2] \in Versions /\ s[p + 3] <= MaxPayload
                              /\ Overhead + s[p + 3] <= StorageCapacity
         /\ LengthAt(s, p) = 6 + s[p + 3] /\ s[p + 3] \in Nat
  <1> DEFINE h == SubSeq(s, p, p + HeaderBytes - 1)
  <1>1. Len(s) \in Nat /\ p \in Nat BY LenProperties
  <1>2. p + HeaderBytes - 1 = p + 3 BY <1>1, Format
  <1>3. \A i \in p..(p + 3) : s[i] \in Byte
    <2> SUFFICES ASSUME NEW i \in p..(p + 3) PROVE s[i] \in Byte OBVIOUS
    <2>1. i \in 1..Len(s) BY <1>1
    <2> QED BY <2>1, ElementOfSeq
  <1>4. \A i \in 1..4 : h[i] = s[p + i - 1]
    <2>1. p \in Int /\ p + 3 \in Int BY <1>1
    <2>2. \A i \in 1..((p + 3) - p + 1) : SubSeq(s, p, p + 3)[i] = s[p + i - 1]
      BY <1>3, <2>1, SubSeqProperties
    <2>3. (p + 3) - p + 1 = 4 BY <1>1
    <2> QED BY <1>2, <2>2, <2>3
  <1>5. h[1] = s[p] /\ h[2] = s[p + 1] /\ h[3] = s[p + 2] /\ h[4] = s[p + 3]
    <2>1. p + 1 - 1 = p /\ p + 2 - 1 = p + 1 /\ p + 3 - 1 = p + 2 /\ p + 4 - 1 = p + 3
      BY <1>1
    <2> HIDE DEF h
    <2>2. h[1] = s[p + 1 - 1] /\ h[2] = s[p + 2 - 1] BY <1>4
    <2>3. h[3] = s[p + 3 - 1] /\ h[4] = s[p + 4 - 1] BY <1>4
    <2> QED BY <2>1, <2>2, <2>3
  <1>6. s[p + 3] \in Nat
    <2>1. p + 3 \in p..(p + 3) BY <1>1
    <2> QED BY <1>3, <2>1, Format
  <1>7. PayloadLength(h) = s[p + 3] BY <1>5 DEF PayloadLength, HeaderBytes
  <1> HIDE DEF h
  <1>8. HeaderOK(h) <=> /\ s[p] = MagicLow /\ s[p + 1] = MagicHigh
                        /\ s[p + 2] \in Versions /\ s[p + 3] <= MaxPayload
                        /\ Overhead + s[p + 3] <= StorageCapacity
    BY <1>5, <1>7 DEF HeaderOK
  <1>9. ValidAt(s, p) <=> HeaderOK(h) BY DEF ValidAt, h
  <1>10. LengthAt(s, p) = Overhead + PayloadLength(h) BY DEF LengthAt, h
  <1>11. LengthAt(s, p) = 6 + s[p + 3] BY <1>7, <1>10, Format
  <1> QED BY <1>6, <1>8, <1>9, <1>11

\* Where ClaimedFrom looks: not behind the end, and always behind p.
LEMMA LooksAhead ==
  ASSUME NEW s \in Seq(Byte), NEW p \in 1..(Len(s) + 1), p + HeaderBytes - 1 <= Len(s)
  PROVE  /\ p + 1 \in 1..(Len(s) + 1)
         /\ LengthAt(s, p) \in Nat /\ LengthAt(s, p) >= 6
         /\ p + LengthAt(s, p) - 1 <= Len(s) => p + LengthAt(s, p) \in 1..(Len(s) + 1)
  <1>1. Len(s) \in Nat /\ p \in Nat /\ HeaderBytes = 4 BY LenProperties, Format
  <1>2. p \in 1..Len(s) /\ p + 3 <= Len(s) BY <1>1
  <1>3. LengthAt(s, p) \in Nat /\ LengthAt(s, p) >= 6
    <2>1. LengthAt(s, p) = 6 + s[p + 3] /\ s[p + 3] \in Nat BY <1>2, HeaderAt
    <2> QED BY <2>1
  <1> QED BY <1>1, <1>2, <1>3

\* ClaimedFrom(g, s, p) depends on g behind p only.
LEMMA ClaimedFromLater ==
  ASSUME NEW s \in Seq(Byte), NEW p \in 1..(Len(s) + 1), NEW g, NEW h,
         \A q \in 1..(Len(s) + 1) : q > p => g[q] = h[q]
  PROVE  ClaimedFrom(g, s, p) = ClaimedFrom(h, s, p)
  <1> DEFINE l == LengthAt(s, p)
  <1>1. Len(s) \in Nat /\ p \in Nat /\ HeaderBytes = 4 BY LenProperties, Format
  <1>2. CASE p + HeaderBytes - 1 > Len(s) BY <1>2 DEF ClaimedFrom
  <1>3. CASE p + HeaderBytes - 1 <= Len(s)
    <2>1. /\ p + 1 \in 1..(Len(s) + 1) /\ l \in Nat /\ l >= 6
          /\ p + l - 1 <= Len(s) => p + l \in 1..(Len(s) + 1)
      BY <1>3, LooksAhead
    <2> HIDE DEF l
    <2>2. p + 1 > p /\ p + l > p BY <1>1, <2>1
    <2>3. g[p + 1] = h[p + 1] BY <2>1, <2>2
    <2>4. CASE p + l - 1 <= Len(s)
      <3>1. g[p + l] = h[p + l] BY <2>1, <2>2, <2>4
      <3> QED BY <2>3, <3>1 DEF ClaimedFrom, l
    <2>5. CASE p + l - 1 > Len(s) BY <2>3, <2>5 DEF ClaimedFrom, l
    <2> QED BY <1>1, <2>1, <2>4, <2>5
  <1> QED BY <1>1, <1>2, <1>3

\* Claims(s) is what a scan of s claims from the first place on.
LEMMA ClaimsScan ==
  ASSUME NEW s \in Seq(Byte)
  PROVE  \E g : Scan(g, s) /\ Claims(s) = g[1]
  <1> DEFINE L == Len(s)
             D == 1..(L + 1)
             Done(g, n) == /\ g = [p \in D |-> g[p]]
                           /\ \A p \in D : p > L - n => g[p] = ClaimedFrom(g, s, p)
             S == {n \in 0..L : \E g : Done(g, n)}
  <1>1. L \in Nat BY LenProperties
  <1>2. 0 \in S
    <2> DEFINE g == [p \in D |-> <<>>]
    <2>1. \A p \in D : p > L - 0 => g[p] = ClaimedFrom(g, s, p)
      <3> SUFFICES ASSUME NEW p \in D, p > L PROVE g[p] = ClaimedFrom(g, s, p)
        BY <1>1
      <3>1. p + HeaderBytes - 1 > Len(s) BY <1>1, Format
      <3>2. ClaimedFrom(g, s, p) = <<>> BY <3>1 DEF ClaimedFrom
      <3> QED BY <3>2
    <2>2. g = [p \in D |-> g[p]] OBVIOUS
    <2> HIDE DEF g
    <2>3. Done(g, 0) BY <2>1, <2>2
    <2>4. 0 \in 0..L BY <1>1
    <2> HIDE DEF Done
    <2> QED BY <2>3, <2>4
  <1>3. \A n \in 1..L : n - 1 \in S => n \in S
    <2> SUFFICES ASSUME NEW n \in 1..L, n - 1 \in S PROVE n \in S OBVIOUS
    <2>1. PICK g : Done(g, n - 1) OBVIOUS
    <2> DEFINE k == L - n + 1
               h == [p \in D |-> IF p = k THEN ClaimedFrom(g, s, k) ELSE g[p]]
    <2>2. k \in D /\ k \in Nat /\ n \in Nat BY <1>1
    <2>3. \A p \in D : p # k => h[p] = g[p] OBVIOUS
    <2>4. h[k] = ClaimedFrom(g, s, k) BY <2>2
    <2>5. h = [p \in D |-> h[p]] OBVIOUS
    <2> HIDE DEF h
    <2>6. \A p \in D : p > L - n => h[p] = ClaimedFrom(h, s, p)
      <3> SUFFICES ASSUME NEW p \in D, p > L - n PROVE h[p] = ClaimedFrom(h, s, p)
        OBVIOUS
      <3>1. p >= k BY <1>1, <2>2
      <3>2. \A q \in 1..(Len(s) + 1) : q > p => g[q] = h[q]
        <4> SUFFICES ASSUME NEW q \in D, q > p PROVE g[q] = h[q] OBVIOUS
        <4>1. q # k BY <1>1, <2>2, <3>1
        <4> QED BY <2>3, <4>1
      <3>3. p \in 1..(Len(s) + 1) OBVIOUS
      <3>4. ClaimedFrom(g, s, p) = ClaimedFrom(h, s, p)
        BY <3>2, <3>3, ClaimedFromLater
      <3>5. CASE p = k BY <2>4, <3>4, <3>5
      <3>6. CASE p # k
        <4>1. p > L - (n - 1) BY <1>1, <2>2, <3>1, <3>6
        <4>2. g[p] = ClaimedFrom(g, s, p) BY <2>1, <4>1
        <4> QED BY <2>3, <3>4, <3>6, <4>2
      <3> QED BY <3>5, <3>6
    <2>7. Done(h, n) BY <2>5, <2>6
    <2>8. n \in 0..L BY <1>1
    <2> HIDE DEF Done
    <2> QED BY <2>7, <2>8
  <1>4. L \in S
    <2> HIDE DEF S
    <2>1. \A n \in 0..L : n \in S BY <1>1, <1>2, <1>3, Induction
    <2> QED BY <1>1, <2>1
  <1>5. PICK g : Done(g, L) BY <1>4
  <1>6. \A p \in D : g[p] = ClaimedFrom(g, s, p)
    <2> SUFFICES ASSUME NEW p \in D PROVE g[p] = ClaimedFrom(g, s, p) OBVIOUS
    <2>1. p > L - L BY <1>1
    <2> QED BY <1>5, <2>1
  <1>7. g = [p \in D |-> ClaimedFrom(g, s, p)] BY <1>5, <1>6, Zenon
  <1> DEFINE from == CHOOSE f : f = [p \in D |-> ClaimedFrom(f, s, p)]
  <1>8. Claims(s) = from[1]
    BY DEF Claims, ClaimedFrom, ValidAt, LengthAt, FrameAt
  <1>9. from = [p \in D |-> ClaimedFrom(from, s, p)] BY <1>7
  <1> HIDE DEF from
  <1>10. Scan(from, s) BY <1>9 DEF Scan
  <1> QED BY <1>8, <1>10

\* Behind a place where no valid header begins, the scan claims the same.
LEMMA SkipOne ==
  ASSUME NEW s \in Seq(Byte), NEW g, Scan(g, s), NEW p \in 1..Len(s),
         p + 3 <= Len(s) => ~ValidAt(s, p)
  PROVE  g[p + 1] = g[p]
  <1>1. Len(s) \in Nat /\ p \in Nat /\ HeaderBytes = 4 BY LenProperties, Format
  <1>2. p \in 1..(Len(s) + 1) /\ p + 1 \in 1..(Len(s) + 1) BY <1>1
  <1>3. g[p] = ClaimedFrom(g, s, p) /\ g[p + 1] = ClaimedFrom(g, s, p + 1)
    BY <1>2 DEF Scan
  <1>4. CASE p + 3 <= Len(s)
    <2>1. ~(p + HeaderBytes - 1 > Len(s)) BY <1>1, <1>4
    <2> QED BY <1>3, <1>4, <2>1 DEF ClaimedFrom
  <1>5. CASE p + 3 > Len(s)
    <2>1. p + HeaderBytes - 1 > Len(s) /\ p + 1 + HeaderBytes - 1 > Len(s) BY <1>1, <1>5
    <2> QED BY <1>3, <2>1 DEF ClaimedFrom
  <1> QED BY <1>1, <1>4, <1>5

LEMMA SkipMany ==
  ASSUME NEW s \in Seq(Byte), NEW g, Scan(g, s), NEW a \in 1..(Len(s) + 1),
         NEW k \in 0..(Len(s) + 1 - a),
         \A p \in a..(a + k - 1) : p + 3 <= Len(s) => ~ValidAt(s, p)
  PROVE  g[a + k] = g[a]
  <1> DEFINE S == {i \in 0..k : g[a + i] = g[a]}
  <1>1. Len(s) \in Nat /\ a \in Nat /\ k \in Nat /\ a + k <= Len(s) + 1 /\ a >= 1
    BY LenProperties
  <1>2. 0 \in S BY <1>1
  <1>3. \A i \in 1..k : i - 1 \in S => i \in S
    <2> SUFFICES ASSUME NEW i \in 1..k, i - 1 \in S PROVE i \in S OBVIOUS
    <2>1. g[a + (i - 1)] = g[a] OBVIOUS
    <2> DEFINE p == a + (i - 1)
    <2>2. p \in a..(a + k - 1) /\ p \in 1..Len(s) /\ p + 1 = a + i BY <1>1
    <2> HIDE DEF p
    <2>3. g[p + 1] = g[p] BY <2>2, SkipOne
    <2> QED BY <2>1, <2>2, <2>3 DEF p
  <1>4. k \in S
    <2> HIDE DEF S
    <2>1. \A i \in 0..k : i \in S BY <1>1, <1>2, <1>3, Induction
    <2> QED BY <1>1, <2>1
  <1> QED BY <1>4

\* What a scan claims is a sequence of frames.
LEMMA ScanTyped ==
  ASSUME NEW s \in Seq(Byte), NEW g, Scan(g, s)
  PROVE  \A p \in 1..(Len(s) + 1) : g[p] \in Seq(Seq(Byte))
  <1> DEFINE L == Len(s)
             D == 1..(L + 1)
             S == {n \in 0..L : \A p \in D : p > L - n => g[p] \in Seq(Seq(Byte))}
  <1>1. L \in Nat /\ HeaderBytes = 4 BY LenProperties, Format
  <1>2. \A p \in D : g[p] = ClaimedFrom(g, s, p) BY DEF Scan
  <1>3. 0 \in S
    <2> SUFFICES ASSUME NEW p \in D, p > L PROVE g[p] \in Seq(Seq(Byte)) BY <1>1
    <2>1. p + HeaderBytes - 1 > Len(s) BY <1>1
    <2>2. g[p] = <<>> BY <1>2, <2>1 DEF ClaimedFrom
    <2> QED BY <2>2
  <1>4. \A n \in 1..L : n - 1 \in S => n \in S
    <2> SUFFICES ASSUME NEW n \in 1..L, n - 1 \in S, NEW p \in D, p > L - n
                 PROVE  g[p] \in Seq(Seq(Byte))
      BY <1>1
    <2>1. \A q \in D : q > p => g[q] \in Seq(Seq(Byte))
      <3> SUFFICES ASSUME NEW q \in D, q > p PROVE g[q] \in Seq(Seq(Byte)) OBVIOUS
      <3>1. q > L - (n - 1) BY <1>1
      <3> QED BY <3>1
    <2>2. g[p] = ClaimedFrom(g, s, p) BY <1>2
    <2> HIDE DEF S
    <2>3. CASE p + HeaderBytes - 1 > L
      <3>1. g[p] = <<>> BY <2>2, <2>3 DEF ClaimedFrom
      <3> QED BY <3>1
    <2>4. CASE p + HeaderBytes - 1 <= L
      <3> DEFINE l == LengthAt(s, p)
                 frame == SubSeq(s, p, p + l - 1)
      <3>1. /\ p + 1 \in D /\ l \in Nat /\ l >= 6
            /\ p + l - 1 <= L => p + l \in D
        BY <2>4, LooksAhead
      <3>2. p \in Nat /\ p + 1 > p /\ p + l > p
        <4> HIDE DEF l
        <4> QED BY <1>1, <3>1
      <3>3. g[p + 1] \in Seq(Seq(Byte)) BY <2>1, <3>1, <3>2
      <3>4. CASE p + l - 1 > L
        <4>1. g[p] = <<>> \/ g[p] = g[p + 1]
          <5>1. CASE ValidAt(s, p) BY <2>2, <3>4, <5>1 DEF ClaimedFrom
          <5>2. CASE ~ValidAt(s, p) BY <2>2, <5>2 DEF ClaimedFrom
          <5> QED BY <5>1, <5>2
        <4>2. <<>> \in Seq(Seq(Byte)) OBVIOUS
        <4> QED BY <3>3, <4>1, <4>2, Zenon
      <3>5. CASE p + l - 1 <= L
        <4>1. g[p + l] \in Seq(Seq(Byte)) BY <2>1, <3>1, <3>2, <3>5
        <4>2. frame \in Seq(Byte)
          <5>1. \A i \in p..(p + l - 1) : s[i] \in Byte
            <6> SUFFICES ASSUME NEW i \in p..(p + l - 1) PROVE s[i] \in Byte OBVIOUS
            <6>1. i \in 1..Len(s)
              <7> HIDE DEF l
              <7> QED BY <1>1, <3>1, <3>2, <3>5
            <6> QED BY <6>1, ElementOfSeq
          <5>2. p \in Int /\ p + l - 1 \in Int
            <6> HIDE DEF l
            <6> QED BY <3>1, <3>2
          <5> QED BY <5>1, <5>2, SubSeqProperties
        <4>3. g[p] = g[p + 1] \/ g[p] = <<frame>> \o g[p + l]
          <5>1. ~(p + HeaderBytes - 1 > Len(s)) BY <1>1, <2>4, <3>2
          <5>2. ~(p + l - 1 > Len(s))
            <6> HIDE DEF l
            <6> QED BY <1>1, <3>1, <3>2, <3>5
          <5> QED BY <2>2, <5>1, <5>2 DEF ClaimedFrom, FrameAt
        <4> HIDE DEF frame, l
        <4>4. <<frame>> \o g[p + l] \in Seq(Seq(Byte)) BY <4>1, <4>2
        <4> QED BY <3>3, <4>3, <4>4
      <3>6. p + l - 1 \in Int
        <4> HIDE DEF l
        <4> QED BY <3>1, <3>2
      <3> HIDE DEF l, frame
      <3> QED BY <1>1, <3>4, <3>5, <3>6
    <2>5. p \in Int /\ p + HeaderBytes - 1 \in Int BY <1>1
    <2> QED BY <1>1, <2>3, <2>4, <2>5
  <1>5. L \in S
    <2> HIDE DEF S
    <2>1. \A n \in 0..L : n \in S BY <1>1, <1>3, <1>4, Induction
    <2> QED BY <1>1, <2>1
  <1> SUFFICES ASSUME NEW p \in D PROVE g[p] \in Seq(Seq(Byte)) OBVIOUS
  <1>6. p > L - L BY <1>1
  <1> QED BY <1>5, <1>6

-----------------------------------------------------------------------------
(* The frames of a sequence of claims, and its bytes. *)

\* Decoded is the last of a row of sequences, each made from the one before.
LEMMA DecodedIsLast ==
  ASSUME NEW claims \in Seq(Seq(Byte))
  PROVE  \E g \in [0..Len(claims) -> Seq(Seq(Byte))] :
           /\ Decoded(claims) = g[Len(claims)] /\ g[0] = <<>>
           /\ \A i \in 1..Len(claims) :
                g[i] = IF Decodes(claims[i]) THEN Append(g[i - 1], claims[i]) ELSE g[i - 1]
  <1> DEFINE n == Len(claims)
             X == Seq(Seq(Byte))
             G(g, i) == IF i = 0 THEN <<>>
                        ELSE IF Decodes(claims[i]) THEN Append(g[i - 1], claims[i])
                        ELSE g[i - 1]
             step == [i \in 1..n |-> [x \in X |->
                        IF Decodes(claims[i]) THEN Append(x, claims[i]) ELSE x]]
             state == CHOOSE g : g = [i \in 0..n |-> G(g, i)]
  <1>1. n \in Nat BY LenProperties
  <1>2. step \in [1..n -> [X -> X]]
    <2> SUFFICES ASSUME NEW i \in 1..n, NEW x \in X
                 PROVE  (IF Decodes(claims[i]) THEN Append(x, claims[i]) ELSE x) \in X
      OBVIOUS
    <2>1. claims[i] \in Seq(Byte) BY ElementOfSeq
    <2>2. Append(x, claims[i]) \in X BY <2>1, AppendProperties
    <2> QED BY <2>2
  <1>3. \A i \in 1..n, x \in X :
           step[i][x] = IF Decodes(claims[i]) THEN Append(x, claims[i]) ELSE x
    OBVIOUS
  <1>4. <<>> \in X OBVIOUS
  <1> HIDE DEF step, X, n
  <1>5. PICK g \in [0..n -> X] : /\ g[0] = <<>>
                                 /\ \A i \in 1..n : g[i] = step[i][g[i - 1]]
    <2> DEFINE base == <<>>
    <2>1. base \in X /\ step \in StepTables(X, n) BY <1>2, <1>4 DEF StepTables
    <2> HIDE DEF base
    <2>2. \E g \in [0..n -> X] : g[0] = base /\ \A i \in 1..n : g[i] = step[i][g[i - 1]]
      BY <1>1, <2>1, Recursion
    <2> QED BY <2>2 DEF base
  <1>6. \A i \in 1..n : i - 1 \in 0..n BY <1>1
  <1>7. \A i \in 1..n :
           g[i] = IF Decodes(claims[i]) THEN Append(g[i - 1], claims[i]) ELSE g[i - 1]
    <2> SUFFICES ASSUME NEW i \in 1..n
                 PROVE  g[i] = IF Decodes(claims[i]) THEN Append(g[i - 1], claims[i])
                               ELSE g[i - 1]
      OBVIOUS
    <2>1. g[i - 1] \in X BY <1>5, <1>6
    <2> QED BY <1>3, <1>5, <2>1
  <1>8. \A i \in 0..n : g[i] = G(g, i)
    <2> SUFFICES ASSUME NEW i \in 0..n PROVE g[i] = G(g, i) OBVIOUS
    <2>1. CASE i = 0 BY <1>5, <2>1
    <2>2. CASE i # 0
      <3>1. i \in 1..n BY <1>1, <2>2
      <3> QED BY <1>7, <2>2, <3>1
    <2> QED BY <2>1, <2>2
  <1> HIDE DEF G
  <1>9. g = [i \in 0..n |-> G(g, i)] BY <1>5, <1>8
  <1>10. state = [i \in 0..n |-> G(state, i)] BY <1>9
  <1> HIDE DEF state
  <1>11. \A i \in 0..n : state[i] = G(state, i) BY <1>10
  <1>12. Decoded(claims) = state[n] BY DEF Decoded, state, G, n
  <1>13. state[0] = <<>>
    <2>1. 0 \in 0..n BY <1>1
    <2> QED BY <1>11, <2>1 DEF G
  <1>14. \A i \in 1..n :
            state[i] = IF Decodes(claims[i]) THEN Append(state[i - 1], claims[i])
                       ELSE state[i - 1]
    <2> SUFFICES ASSUME NEW i \in 1..n
                 PROVE  state[i] = IF Decodes(claims[i]) THEN Append(state[i - 1], claims[i])
                                   ELSE state[i - 1]
      OBVIOUS
    <2>1. i \in 0..n /\ i # 0 BY <1>1
    <2> QED BY <1>11, <2>1 DEF G
  <1>15. state \in [0..n -> X]
    <2> DEFINE S == {i \in 0..n : state[i] = g[i]}
    <2>1. 0 \in S BY <1>1, <1>5, <1>13
    <2>2. \A i \in 1..n : i - 1 \in S => i \in S
      <3> SUFFICES ASSUME NEW i \in 1..n, i - 1 \in S PROVE i \in S OBVIOUS
      <3>1. state[i] = g[i] BY <1>7, <1>14
      <3> QED BY <1>1, <3>1
    <2> HIDE DEF S
    <2>3. \A i \in 0..n : i \in S BY <1>1, <2>1, <2>2, Induction
    <2>4. \A i \in 0..n : state[i] \in X BY <1>5, <2>3 DEF S
    <2> QED BY <1>10, <2>4
  <1> QED BY <1>12, <1>13, <1>14, <1>15 DEF n, X

\* One more claim is decoded behind the others.
LEMMA DecodedAppend ==
  ASSUME NEW claims \in Seq(Seq(Byte)), NEW w \in Seq(Byte)
  PROVE  Decoded(Append(claims, w)) =
           IF Decodes(w) THEN Append(Decoded(claims), w) ELSE Decoded(claims)
  <1> DEFINE n == Len(claims)
             more == Append(claims, w)
  <1>1. /\ n \in Nat /\ more \in Seq(Seq(Byte)) /\ Len(more) = n + 1
        /\ \A i \in 1..n : more[i] = claims[i]
        /\ more[n + 1] = w
    BY LenProperties, AppendProperties
  <1>2. PICK f : /\ Decoded(claims) = f[n] /\ f[0] = <<>>
                 /\ \A i \in 1..n :
                      f[i] = IF Decodes(claims[i]) THEN Append(f[i - 1], claims[i])
                             ELSE f[i - 1]
    BY DecodedIsLast
  <1> HIDE DEF n, more
  <1>3. PICK g : /\ Decoded(more) = g[Len(more)] /\ g[0] = <<>>
                 /\ \A i \in 1..Len(more) :
                      g[i] = IF Decodes(more[i]) THEN Append(g[i - 1], more[i])
                             ELSE g[i - 1]
    BY <1>1, DecodedIsLast
  <1> DEFINE S == {i \in 0..n : g[i] = f[i]}
  <1>4. 0 \in S BY <1>1, <1>2, <1>3
  <1>5. \A i \in 1..n : i - 1 \in S => i \in S
    <2> SUFFICES ASSUME NEW i \in 1..n, i - 1 \in S PROVE i \in S OBVIOUS
    <2>1. i \in 1..Len(more) /\ more[i] = claims[i] BY <1>1
    <2>2. g[i - 1] = f[i - 1] OBVIOUS
    <2>3. g[i] = f[i] BY <1>2, <1>3, <2>1, <2>2
    <2> QED BY <1>1, <2>3
  <1>6. g[n] = f[n]
    <2> HIDE DEF S
    <2>1. \A i \in 0..n : i \in S BY <1>1, <1>4, <1>5, Induction
    <2>2. n \in 0..n BY <1>1
    <2> QED BY <2>1, <2>2 DEF S
  <1>7. g[n + 1] = IF Decodes(w) THEN Append(g[n], w) ELSE g[n]
    <2>1. n + 1 \in 1..Len(more) /\ n + 1 - 1 = n BY <1>1
    <2> QED BY <1>1, <1>3, <2>1
  <1> QED BY <1>1, <1>2, <1>3, <1>6, <1>7 DEF more

LEMMA DecodedEmpty == Decoded(<<>>) = <<>>
  <1>1. <<>> \in Seq(Seq(Byte)) /\ Len(<<>>) = 0 OBVIOUS
  <1> QED BY <1>1, DecodedIsLast

\* The bytes of a sequence of claims are the last of a row, too.
LEMMA FlattenIsLast ==
  ASSUME NEW claims \in Seq(Seq(Byte))
  PROVE  \E g \in [0..Len(claims) -> Seq(Byte)] :
           /\ FlattenSeq(claims) = g[Len(claims)] /\ g[0] = <<>>
           /\ \A i \in 1..Len(claims) : g[i] = g[i - 1] \o claims[i]
  <1> DEFINE n == Len(claims)
             X == Seq(Byte)
             G(g, i) == IF i = 1 THEN claims[i] ELSE g[i - 1] \o claims[i]
             step == [i \in 1..n |-> [x \in X |-> x \o claims[i]]]
             flatten == CHOOSE g : g = [i \in 1..n |-> G(g, i)]
  <1>1. n \in Nat BY LenProperties
  <1>2. \A i \in 1..n : claims[i] \in X BY ElementOfSeq
  <1>3. step \in [1..n -> [X -> X]]
    <2> SUFFICES ASSUME NEW i \in 1..n, NEW x \in X PROVE x \o claims[i] \in X OBVIOUS
    <2>1. claims[i] \in Seq(Byte) BY <1>2
    <2> QED BY <2>1, ConcatProperties
  <1>4. \A i \in 1..n, x \in X : step[i][x] = x \o claims[i] OBVIOUS
  <1>5. <<>> \in X OBVIOUS
  <1> HIDE DEF step, n
  <1>6. PICK g \in [0..n -> X] : /\ g[0] = <<>>
                                 /\ \A i \in 1..n : g[i] = step[i][g[i - 1]]
    <2> DEFINE base == <<>>
    <2>1. base \in X /\ step \in StepTables(X, n) BY <1>3, <1>5 DEF StepTables
    <2> HIDE DEF base, X
    <2>2. \E g \in [0..n -> X] : g[0] = base /\ \A i \in 1..n : g[i] = step[i][g[i - 1]]
      BY <1>1, <2>1, Recursion
    <2> QED BY <2>2 DEF base
  <1>7. \A i \in 1..n : g[i] = g[i - 1] \o claims[i]
    <2> SUFFICES ASSUME NEW i \in 1..n PROVE g[i] = g[i - 1] \o claims[i] OBVIOUS
    <2>1. i - 1 \in 0..n BY <1>1
    <2> HIDE DEF X
    <2>2. g[i - 1] \in X BY <1>6, <2>1
    <2> QED BY <1>4, <1>6, <2>2
  <1> SUFFICES FlattenSeq(claims) = g[n] BY <1>6, <1>7 DEF n
  <1>8. CASE n = 0
    <2>1. claims = <<>> BY <1>8, EmptySeq DEF n
    <2>2. FlattenSeq(claims) = <<>> BY <1>8, <2>1 DEF FlattenSeq, n
    <2> QED BY <1>6, <1>8, <2>2
  <1>9. CASE n # 0
    <2> DEFINE h == [i \in 1..n |-> g[i]]
    <2>1. \A i \in 1..n : g[i] = G(h, i)
      <3> SUFFICES ASSUME NEW i \in 1..n PROVE g[i] = G(h, i) OBVIOUS
      <3>1. CASE i = 1
        <4>1. i - 1 = 0 /\ g[0] = <<>> BY <1>6, <3>1
        <4>2. g[i] = <<>> \o claims[i] BY <1>7, <4>1
        <4>3. claims[i] \in Seq(Byte) BY <1>2
        <4>4. <<>> \o claims[i] = claims[i] BY <4>3, ConcatEmptySeq
        <4> QED BY <3>1, <4>2, <4>4
      <3>2. CASE i # 1
        <4>1. i - 1 \in 1..n BY <1>1, <3>2
        <4>2. h[i - 1] = g[i - 1] BY <4>1
        <4> QED BY <1>7, <3>2, <4>2
      <3> QED BY <3>1, <3>2
    <2>2. h = [i \in 1..n |-> G(h, i)]
      <3> HIDE DEF G
      <3> QED BY <2>1
    <2>3. flatten = [i \in 1..n |-> G(flatten, i)] BY <2>2
    <2>4. FlattenSeq(claims) = flatten[n] BY <1>9 DEF FlattenSeq, n
    <2> HIDE DEF flatten
    <2>5. \A i \in 1..n : flatten[i] = G(flatten, i)
      <3> HIDE DEF G
      <3> QED BY <2>3
    <2> DEFINE S == {i \in 0..n : i = 0 \/ flatten[i] = g[i]}
    <2>6. 0 \in S BY <1>1
    <2>7. \A i \in 1..n : i - 1 \in S => i \in S
      <3> SUFFICES ASSUME NEW i \in 1..n, i - 1 \in S PROVE i \in S OBVIOUS
      <3>1. flatten[i] = G(flatten, i) BY <2>5
      <3>2. CASE i = 1
        <4>1. flatten[i] = claims[i] BY <3>1, <3>2
        <4>2. i - 1 = 0 /\ g[0] = <<>> BY <1>6, <3>2
        <4>3. g[i] = <<>> \o claims[i] BY <1>7, <4>2
        <4>4. claims[i] \in Seq(Byte) BY <1>2
        <4>5. <<>> \o claims[i] = claims[i] BY <4>4, ConcatEmptySeq
        <4>6. i \in 0..n BY <1>1
        <4> QED BY <4>1, <4>3, <4>5, <4>6
      <3>3. CASE i # 1
        <4>1. flatten[i - 1] = g[i - 1] BY <3>3
        <4>2. flatten[i] = g[i] BY <1>7, <3>1, <3>3, <4>1
        <4> QED BY <1>1, <4>2
      <3> QED BY <3>2, <3>3
    <2> HIDE DEF S
    <2>8. \A i \in 0..n : i \in S BY <1>1, <2>6, <2>7, Induction
    <2>9. flatten[n] = g[n]
      <3>1. n \in 0..n BY <1>1
      <3> QED BY <1>9, <2>8, <3>1 DEF S
    <2> QED BY <2>4, <2>9
  <1> QED BY <1>8, <1>9

\* One more claim adds its bytes.
LEMMA FlattenAppend ==
  ASSUME NEW claims \in Seq(Seq(Byte)), NEW w \in Seq(Byte)
  PROVE  Len(FlattenSeq(Append(claims, w))) = Len(FlattenSeq(claims)) + Len(w)
  <1> DEFINE n == Len(claims)
             more == Append(claims, w)
  <1>1. /\ n \in Nat /\ more \in Seq(Seq(Byte)) /\ Len(more) = n + 1
        /\ \A i \in 1..n : more[i] = claims[i]
        /\ more[n + 1] = w
    BY LenProperties, AppendProperties
  <1>2. PICK f \in [0..n -> Seq(Byte)] :
           /\ FlattenSeq(claims) = f[n] /\ f[0] = <<>>
           /\ \A i \in 1..n : f[i] = f[i - 1] \o claims[i]
    BY FlattenIsLast
  <1> HIDE DEF n, more
  <1>3. PICK g : /\ FlattenSeq(more) = g[Len(more)] /\ g[0] = <<>>
                 /\ \A i \in 1..Len(more) : g[i] = g[i - 1] \o more[i]
    BY <1>1, FlattenIsLast
  <1> DEFINE S == {i \in 0..n : g[i] = f[i]}
  <1>4. 0 \in S
    <2>1. g[0] = f[0] BY <1>2, <1>3, Zenon
    <2> QED BY <1>1, <2>1
  <1>5. \A i \in 1..n : i - 1 \in S => i \in S
    <2> SUFFICES ASSUME NEW i \in 1..n, i - 1 \in S PROVE i \in S OBVIOUS
    <2>1. i \in 1..Len(more) /\ more[i] = claims[i] BY <1>1
    <2>2. g[i - 1] = f[i - 1] OBVIOUS
    <2>3. g[i] = f[i] BY <1>2, <1>3, <2>1, <2>2
    <2> QED BY <1>1, <2>3
  <1>6. n \in 0..n BY <1>1
  <1>7. g[n] = f[n]
    <2> HIDE DEF S
    <2>1. \A i \in 0..n : i \in S BY <1>1, <1>4, <1>5, Induction
    <2> QED BY <1>6, <2>1 DEF S
  <1>8. g[n + 1] = f[n] \o w
    <2> DEFINE k == n + 1
    <2>1. k \in 1..Len(more) /\ k - 1 = n /\ more[k] = w BY <1>1
    <2> HIDE DEF k
    <2>2. g[k] = g[k - 1] \o more[k] BY <1>3, <2>1
    <2>3. g[k] = f[n] \o w BY <1>7, <2>1, <2>2
    <2> QED BY <2>3 DEF k
  <1>9. f[n] \in Seq(Byte) BY <1>2, <1>6
  <1>10. Len(f[n] \o w) = Len(f[n]) + Len(w) BY <1>9, ConcatProperties
  <1> QED BY <1>1, <1>2, <1>3, <1>8, <1>10 DEF more

LEMMA FlattenEmpty == FlattenSeq(<<>>) = <<>>
  <1>1. Len(<<>>) = 0 OBVIOUS
  <1> QED BY <1>1 DEF FlattenSeq

\* The bytes of claims are bytes.
LEMMA FlattenTyped ==
  ASSUME NEW claims \in Seq(Seq(Byte)) PROVE FlattenSeq(claims) \in Seq(Byte)
  <1>1. PICK g \in [0..Len(claims) -> Seq(Byte)] : FlattenSeq(claims) = g[Len(claims)]
    BY FlattenIsLast
  <1>2. Len(claims) \in 0..Len(claims) BY LenProperties
  <1> QED BY <1>1, <1>2

-----------------------------------------------------------------------------
(* How far the scan has come. *)

\* u begins with the first c bytes of f.
Agree(u, f, c) == Len(u) >= c /\ \A i \in 1..c : u[i] = f[i]

\* However the stream goes on behind its first c bytes, what a scan of it
\* claims is claimed and what it claims from p on.
Leads(claimed, f, c, p) ==
  \A u \in Seq(Byte) : \A g : Agree(u, f, c) /\ Scan(g, u) => g[1] = claimed \o g[p]

\* No valid header begins at the i-th byte of w, however w goes on.
Refuted(w, i) ==
  \/ w[i] # MagicLow
  \/ i + 1 <= Len(w) /\ w[i + 1] # MagicHigh
  \/ i + 2 <= Len(w) /\ w[i + 2] \notin Versions
  \/ i + 3 <= Len(w) /\ ~(/\ w[i + 3] <= MaxPayload
                          /\ Overhead + w[i + 3] <= StorageCapacity)

\* w lies on f behind its first b bytes and ends with its first d.
OnStream(w, f, b, d) == Len(w) = d - b /\ \A i \in 1..Len(w) : w[i] = f[b + i]

\* Then it lies on everything that agrees with f up to there.
LEMMA OnAgreeing ==
  ASSUME NEW u, NEW f, NEW w, NEW b \in Nat, NEW d \in Nat, b <= d,
         OnStream(w, f, b, d), Agree(u, f, d)
  PROVE  \A i \in 1..(d - b) : u[b + i] = w[i]
  <1> SUFFICES ASSUME NEW i \in 1..(d - b) PROVE u[b + i] = w[i] OBVIOUS
  <1>1. b + i \in 1..d OBVIOUS
  <1>2. u[b + i] = f[b + i] BY <1>1 DEF Agree
  <1>3. w[i] = f[b + i] BY DEF OnStream
  <1> QED BY <1>2, <1>3

\* The scan passes over the places where no valid header begins.
LEMMA LeadsOn ==
  ASSUME NEW claimed, NEW f, NEW c \in Nat, NEW d \in Nat, c <= d, NEW b \in 0..c,
         NEW w, OnStream(w, f, b, d), NEW k \in 0..(d - b),
         \A i \in 1..k : Refuted(w, i), Leads(claimed, f, c, b + 1)
  PROVE  Leads(claimed, f, d, b + k + 1)
  <1> SUFFICES ASSUME NEW u \in Seq(Byte), NEW g, Agree(u, f, d), Scan(g, u)
               PROVE  g[1] = claimed \o g[b + k + 1]
    BY DEF Leads
  <1>1. Len(u) \in Nat /\ Len(u) >= d /\ b \in Nat /\ b <= d /\ k \in Nat /\ k <= d - b
    BY LenProperties DEF Agree
  <1>2. Agree(u, f, c) BY <1>1 DEF Agree
  <1>3. g[1] = claimed \o g[b + 1] BY <1>2 DEF Leads
  <1>4. Len(w) = d - b /\ \A i \in 1..(d - b) : u[b + i] = w[i]
    BY <1>1, OnAgreeing DEF OnStream
  <1>5. \A p \in (b + 1)..(b + 1 + k - 1) : p + 3 <= Len(u) => ~ValidAt(u, p)
    <2> SUFFICES ASSUME NEW p \in (b + 1)..(b + 1 + k - 1), p + 3 <= Len(u), ValidAt(u, p)
                 PROVE  FALSE
      OBVIOUS
    <2> DEFINE i == p - b
    <2>1. i \in 1..k /\ i \in 1..(d - b) /\ b + i = p /\ p \in 1..Len(u) /\ p \in Nat
      BY <1>1
    <2>2. /\ u[p] = MagicLow /\ u[p + 1] = MagicHigh /\ u[p + 2] \in Versions
          /\ u[p + 3] <= MaxPayload /\ Overhead + u[p + 3] <= StorageCapacity
      BY <2>1, HeaderAt
    <2>3. Refuted(w, i) BY <2>1
    <2> HIDE DEF i
    <2>4. b + (i + 1) = p + 1 /\ b + (i + 2) = p + 2 /\ b + (i + 3) = p + 3 /\ i \in Nat
      BY <1>1, <2>1
    <2>5. w[i] = u[p] BY <1>4, <2>1
    <2>6. \A j \in Nat : 1 <= j /\ j <= d - b => w[j] = u[b + j]
      <3> SUFFICES ASSUME NEW j \in Nat, 1 <= j, j <= d - b PROVE w[j] = u[b + j]
        OBVIOUS
      <3>1. j \in 1..(d - b) BY <1>1
      <3> QED BY <1>4, <3>1
    <2>7. i + 1 <= d - b => w[i + 1] = u[p + 1]
      <3>1. i + 1 \in Nat /\ 1 <= i + 1 BY <2>4
      <3> QED BY <2>4, <2>6, <3>1
    <2>8. i + 2 <= d - b => w[i + 2] = u[p + 2]
      <3>1. i + 2 \in Nat /\ 1 <= i + 2 BY <2>4
      <3> QED BY <2>4, <2>6, <3>1
    <2>9. i + 3 <= d - b => w[i + 3] = u[p + 3]
      <3>1. i + 3 \in Nat /\ 1 <= i + 3 BY <2>4
      <3> QED BY <2>4, <2>6, <3>1
    <2> QED BY <1>4, <2>2, <2>3, <2>5, <2>7, <2>8, <2>9 DEF Refuted
  <1>6. b + 1 \in 1..(Len(u) + 1) /\ k \in 0..(Len(u) + 1 - (b + 1)) BY <1>1
  <1>7. g[b + 1 + k] = g[b + 1] BY <1>5, <1>6, SkipMany
  <1>8. b + 1 + k = b + k + 1 BY <1>1
  <1> QED BY <1>3, <1>7, <1>8

\* One more in front of the rest is one more behind what comes first.
LEMMA OneMore ==
  ASSUME NEW S, NEW first \in Seq(S), NEW e \in S, NEW rest \in Seq(S)
  PROVE  first \o (<<e>> \o rest) = Append(first, e) \o rest
  <1> DEFINE one == <<e>>
  <1>1. one \in Seq(S) OBVIOUS
  <1>2. Append(first, e) = first \o one BY AppendIsConcat
  <1> HIDE DEF one
  <1>3. (first \o one) \o rest = first \o (one \o rest) BY <1>1, ConcatAssociative
  <1> QED BY <1>2, <1>3 DEF one

LEMMA OneMoreClaim ==
  \A claimed, rest \in Seq(Seq(Byte)) : \A w \in Seq(Byte) :
    claimed \o (<<w>> \o rest) = Append(claimed, w) \o rest
  BY OneMore

\* A whole frame with a valid header is claimed.
LEMMA LeadsClaim ==
  ASSUME NEW claimed \in Seq(Seq(Byte)), NEW f, NEW c \in Nat, NEW d \in Nat, c <= d,
         NEW b \in 0..c, NEW w \in Seq(Byte), OnStream(w, f, b, d),
         HeaderOK(w), 4 <= Len(w), Len(w) = Overhead + PayloadLength(w),
         Leads(claimed, f, c, b + 1)
  PROVE  Leads(Append(claimed, w), f, d, d + 1)
  <1> SUFFICES ASSUME NEW u \in Seq(Byte), NEW g, Agree(u, f, d), Scan(g, u)
               PROVE  g[1] = Append(claimed, w) \o g[d + 1]
    BY DEF Leads
  <1> DEFINE p == b + 1
  <1>1. Len(u) \in Nat /\ Len(u) >= d /\ b \in Nat /\ b <= d
    BY LenProperties DEF Agree
  <1>2. Agree(u, f, c) BY <1>1 DEF Agree
  <1>3. g[1] = claimed \o g[p] BY <1>2 DEF Leads
  <1>4. Len(w) = d - b /\ \A i \in 1..(d - b) : u[b + i] = w[i]
    <2>1. Len(w) = d - b BY DEF OnStream
    <2>2. b \in Nat /\ d \in Nat /\ b <= d BY <1>1
    <2>3. \A i \in 1..(d - b) : u[b + i] = w[i]
      <3> SUFFICES ASSUME NEW i \in 1..(d - b) PROVE u[b + i] = w[i] OBVIOUS
      <3>1. b + i \in 1..d BY <2>2
      <3>2. u[b + i] = f[b + i] BY <3>1 DEF Agree
      <3>3. w[i] = f[b + i] BY <2>1 DEF OnStream
      <3> QED BY <3>2, <3>3
    <2> QED BY <2>1, <2>3
  <1>5. PayloadLength(w) = w[4] /\ PayloadLength(w) <= MaxPayload
    BY DEF PayloadLength, HeaderBytes, HeaderOK
  <1>6. w[4] \in Nat /\ d - b = 6 + w[4]
    <2>1. d - b = 6 + w[4] BY <1>4, <1>5, Format
    <2>2. 4 \in 1..Len(w) BY LenProperties
    <2>3. w[4] \in Byte BY <2>2, ElementOfSeq
    <2>4. w[4] \in Nat BY <2>3, Format
    <2> QED BY <2>1, <2>4
  <1>7. p \in 1..Len(u) /\ p + 3 <= Len(u) /\ d = b + 6 + w[4] /\ p <= d
    <2>1. \A x, y, m, l \in Nat :
            l >= y /\ y - x = 6 + m
            => x + 1 \in 1..l /\ (x + 1) + 3 <= l /\ y = x + 6 + m /\ x + 1 <= y
      OBVIOUS
    <2> QED BY <1>1, <1>6, <2>1
  <1>8. u[p] = w[1] /\ u[p + 1] = w[2] /\ u[p + 2] = w[3] /\ u[p + 3] = w[4]
    <2>1. p = b + 1 /\ p + 1 = b + 2 /\ p + 2 = b + 3 /\ p + 3 = b + 4 BY <1>1
    <2>2. 1 \in 1..(d - b) /\ 2 \in 1..(d - b) /\ 3 \in 1..(d - b) /\ 4 \in 1..(d - b)
      BY <1>6
    <2>3. u[b + 1] = w[1] /\ u[b + 2] = w[2] BY <1>4, <2>2
    <2>4. u[b + 3] = w[3] /\ u[b + 4] = w[4] BY <1>4, <2>2
    <2> QED BY <2>1, <2>3, <2>4
  <1>9. ValidAt(u, p)
    <2>1. /\ w[1] = MagicLow /\ w[2] = MagicHigh /\ w[3] \in Versions
          /\ w[4] <= MaxPayload /\ Overhead + w[4] <= StorageCapacity
      BY <1>5 DEF HeaderOK
    <2> QED BY <1>7, <1>8, <2>1, HeaderAt
  <1>10. LengthAt(u, p) = d - b
    <2>1. LengthAt(u, p) = 6 + u[p + 3] BY <1>7, HeaderAt
    <2>2. u[p + 3] = w[4] BY <1>8
    <2>3. d - b = 6 + w[4] BY <1>6
    <2> HIDE DEF p
    <2> QED BY <2>1, <2>2, <2>3, Zenon
  <1>11. p + LengthAt(u, p) - 1 = d /\ p + LengthAt(u, p) = d + 1
    <2>1. \A x, y \in Nat : y >= x => /\ (x + 1) + (y - x) - 1 = y
                                     /\ (x + 1) + (y - x) = y + 1
      OBVIOUS
    <2>2. p + (d - b) - 1 = d /\ p + (d - b) = d + 1 BY <1>1, <2>1
    <2> HIDE DEF p
    <2> QED BY <1>10, <2>2, Zenon
  <1>12. FrameAt(u, p) = w
    <2>1. FrameAt(u, p) = SubSeq(u, p, d) BY <1>11 DEF FrameAt
    <2>2. \A i \in p..d : u[i] \in Byte
      <3> SUFFICES ASSUME NEW i \in p..d PROVE u[i] \in Byte OBVIOUS
      <3>1. i \in 1..Len(u) BY <1>1
      <3> QED BY <3>1, ElementOfSeq
    <2>3. p \in Int /\ d \in Int /\ d - p + 1 = d - b BY <1>1
    <2>30. p <= d BY <1>7
    <2>4. /\ SubSeq(u, p, d) \in Seq(Byte) /\ Len(SubSeq(u, p, d)) = d - b
          /\ \A i \in 1..(d - b) : SubSeq(u, p, d)[i] = u[p + i - 1]
      BY <2>2, <2>3, <2>30, SubSeqProperties
    <2>5. \A i \in 1..(d - b) : SubSeq(u, p, d)[i] = w[i]
      <3> SUFFICES ASSUME NEW i \in 1..(d - b) PROVE SubSeq(u, p, d)[i] = w[i] OBVIOUS
      <3>1. p + i - 1 = b + i BY <1>1
      <3> QED BY <1>4, <2>4, <3>1
    <2> DEFINE v == SubSeq(u, p, d)
    <2> HIDE DEF v, p
    <2>6. v = w
      <3>1. v \in Seq(Byte) /\ Len(v) = Len(w) BY <1>4, <2>4 DEF v
      <3>2. \A i \in 1..Len(v) : v[i] = w[i] BY <2>4, <2>5 DEF v
      <3> QED BY <3>1, <3>2, SeqEqual
    <2> QED BY <2>1, <2>6 DEF v
  <1>13. g[p] = <<w>> \o g[d + 1]
    <2>1. p \in 1..(Len(u) + 1) BY <1>1
    <2>2. g[p] = ClaimedFrom(g, u, p) BY <2>1 DEF Scan
    <2>3. ~(p + HeaderBytes - 1 > Len(u)) BY <1>1, <1>7, Format
    <2>4. ~(d > Len(u)) BY <1>1
    <2> HIDE DEF p
    <2> QED BY <1>9, <1>11, <1>12, <2>2, <2>3, <2>4 DEF ClaimedFrom
  <1>14. g[d + 1] \in Seq(Seq(Byte))
    <2>1. d + 1 \in 1..(Len(u) + 1) BY <1>1
    <2> QED BY <2>1, ScanTyped
  <1>15. claimed \o (<<w>> \o g[d + 1]) = Append(claimed, w) \o g[d + 1]
    BY <1>14, OneMoreClaim
  <1> QED BY <1>3, <1>13, <1>15

\* A scan of what was consumed claims nothing behind claimed, if what follows
\* is too short for a header or for the frame that its header announces.
LEMMA LeadsToEnd ==
  ASSUME NEW claimed \in Seq(Seq(Byte)), NEW t \in Seq(Byte), NEW b \in 0..Len(t),
         NEW w \in Seq(Byte), OnStream(w, t, b, Len(t)),
         Len(w) < 4 \/ (HeaderOK(w) /\ 4 <= Len(w) /\ Len(w) < Overhead + PayloadLength(w)),
         Leads(claimed, t, Len(t), b + 1)
  PROVE  Claims(t) = claimed
  <1> DEFINE p == b + 1
  <1>1. Len(t) \in Nat /\ b \in Nat /\ b <= Len(t) /\ HeaderBytes = 4
    BY LenProperties, Format
  <1>2. PICK g : Scan(g, t) /\ Claims(t) = g[1] BY ClaimsScan
  <1>3. Agree(t, t, Len(t)) BY <1>1 DEF Agree
  <1>4. Claims(t) = claimed \o g[p] BY <1>2, <1>3 DEF Leads
  <1>5. Len(w) = Len(t) - b /\ \A i \in 1..(Len(t) - b) : w[i] = t[b + i]
    BY DEF OnStream
  <1>6. p \in 1..(Len(t) + 1) BY <1>1
  <1>7. g[p] = ClaimedFrom(g, t, p) BY <1>2, <1>6 DEF Scan
  <1>8. g[p] = <<>>
    <2>1. CASE Len(w) < 4
      <3>1. p + HeaderBytes - 1 > Len(t) BY <1>1, <1>5, <2>1
      <3> QED BY <1>7, <3>1 DEF ClaimedFrom
    <2>2. CASE HeaderOK(w) /\ 4 <= Len(w) /\ Len(w) < Overhead + PayloadLength(w)
      <3>1. 4 <= Len(t) - b BY <1>5, <2>2
      <3>2. p \in 1..Len(t) /\ p + 3 <= Len(t) BY <1>1, <3>1
      <3>3. t[p] = w[1] /\ t[p + 1] = w[2] /\ t[p + 2] = w[3] /\ t[p + 3] = w[4]
        <4>1. p = b + 1 /\ p + 1 = b + 2 /\ p + 2 = b + 3 /\ p + 3 = b + 4 BY <1>1
        <4>2. /\ 1 \in 1..(Len(t) - b) /\ 2 \in 1..(Len(t) - b)
              /\ 3 \in 1..(Len(t) - b) /\ 4 \in 1..(Len(t) - b)
          BY <1>1, <3>1
        <4>3. t[b + 1] = w[1] /\ t[b + 2] = w[2] BY <1>5, <4>2
        <4>4. t[b + 3] = w[3] /\ t[b + 4] = w[4] BY <1>5, <4>2
        <4> QED BY <4>1, <4>3, <4>4
      <3>4. PayloadLength(w) = w[4] BY DEF PayloadLength, HeaderBytes
      <3>5. ValidAt(t, p)
        <4>1. /\ w[1] = MagicLow /\ w[2] = MagicHigh /\ w[3] \in Versions
              /\ w[4] <= MaxPayload /\ Overhead + w[4] <= StorageCapacity
          BY <2>2, <3>4 DEF HeaderOK
        <4> QED BY <3>2, <3>3, <4>1, HeaderAt
      <3>6. LengthAt(t, p) = Overhead + PayloadLength(w)
        <4>1. LengthAt(t, p) = 6 + t[p + 3] BY <3>2, HeaderAt
        <4> QED BY <3>3, <3>4, <4>1, Format
      <3>7. LengthAt(t, p) \in Nat
        <4>1. LengthAt(t, p) = 6 + t[p + 3] /\ t[p + 3] \in Nat BY <3>2, HeaderAt
        <4> QED BY <4>1
      <3>8. p + LengthAt(t, p) - 1 > Len(t)
        <4>1. Len(t) - b < LengthAt(t, p) BY <1>5, <2>2, <3>6
        <4> QED BY <1>1, <3>7, <4>1
      <3> HIDE DEF p
      <3> QED BY <1>7, <3>5, <3>8 DEF ClaimedFrom
    <2> QED BY <2>1, <2>2
  <1>9. claimed \o <<>> = claimed BY ConcatEmptySeq
  <1> QED BY <1>4, <1>8, <1>9

-----------------------------------------------------------------------------
(* The parser scans. *)

\* Where the parser is in the stream.
Place == Len(fed) - Len(input)

\* The bytes stored and the next n of the input.
Ahead(n) == storage \o SubSeq(input, 1, n)

\* So far claimed is what the scan claims, and the parser has delivered its
\* frames and dropped or stored all other bytes.
Scans(claimed) ==
  /\ delivered = Decoded(claimed)
  /\ discarded_bytes \in Nat
  /\ Place = discarded_bytes + used + Len(FlattenSeq(claimed))
  /\ Leads(claimed, fed, Place, Place - used + 1)

Scanned == \E claimed \in Seq(Seq(Byte)) : Scans(claimed)

\* Where the parser is, what it stores and what comes next.
LEMMA Places ==
  ASSUME ParserInv
  PROVE  /\ Place \in Nat /\ used \in Nat /\ used <= Place /\ used = Len(storage)
         /\ Len(input) \in Nat /\ Len(fed) \in Nat /\ Place + Len(input) = Len(fed)
  <1>1. /\ input \in Seq(Byte) /\ fed \in Seq(Byte) /\ Len(input) <= Len(fed)
        /\ used <= Place
    BY DEF ParserInv, Tape, Window, Place
  <1>2. Len(fed) \in Nat /\ Len(input) \in Nat BY <1>1, LenProperties
  <1>3. Place \in Nat /\ Place + Len(input) = Len(fed) BY <1>1, <1>2 DEF Place
  <1> QED BY <1>1, <1>2, <1>3, Lengths

\* What the parser has stored and what it reads lie on the stream.
LEMMA AheadOnStream ==
  ASSUME ParserInv, NEW n \in 0..Len(input)
  PROVE  /\ Ahead(n) \in Seq(Byte) /\ Len(Ahead(n)) = used + n
         /\ \A i \in 1..used : Ahead(n)[i] = storage[i]
         /\ \A i \in 1..n : Ahead(n)[used + i] = input[i]
         /\ OnStream(Ahead(n), fed, Place - used, Place + n)
  <1> DEFINE w == Ahead(n)
  <1>1. /\ Place \in Nat /\ used \in Nat /\ used <= Place /\ used = Len(storage)
        /\ n \in Nat /\ Len(input) \in Nat /\ n <= Len(input)
    BY Places
  <1>2. input \in Seq(Byte) /\ storage \in Seq(Byte) BY Lengths
  <1>3. /\ w \in Seq(Byte) /\ Len(w) = used + n
        /\ \A i \in 1..used : w[i] = storage[i]
        /\ \A i \in 1..n : w[used + i] = input[i]
    BY <1>1, <1>2, JoinFacts DEF Ahead
  <1>4. /\ \A i \in 1..used : storage[i] = fed[Place - used + i]
        /\ \A i \in 1..Len(input) : input[i] = fed[Place + i]
    BY DEF ParserInv, Tape, Window, Place
  <1> HIDE DEF w
  <1>5. \A i \in 1..Len(w) : w[i] = fed[(Place - used) + i]
    <2> SUFFICES ASSUME NEW i \in 1..Len(w) PROVE w[i] = fed[(Place - used) + i] OBVIOUS
    <2>1. i \in Nat /\ 1 <= i /\ i <= used + n BY <1>1, <1>3
    <2>2. CASE i <= used
      <3>1. i \in 1..used BY <1>1, <2>1, <2>2
      <3> QED BY <1>3, <1>4, <3>1
    <2>3. CASE ~(i <= used)
      <3> DEFINE j == i - used
      <3>1. /\ j \in 1..n /\ j \in 1..Len(input) /\ used + j = i
            /\ Place + j = (Place - used) + i
        BY <1>1, <2>1, <2>3
      <3> HIDE DEF j
      <3>2. w[used + j] = input[j] BY <1>3, <3>1
      <3>3. input[j] = fed[Place + j] BY <1>4, <3>1
      <3> QED BY <3>1, <3>2, <3>3
    <2> QED BY <2>2, <2>3
  <1>6. (Place + n) - (Place - used) = used + n BY <1>1
  <1>7. OnStream(w, fed, Place - used, Place + n) BY <1>3, <1>5, <1>6 DEF OnStream
  <1> QED BY <1>3, <1>7 DEF w

\* A turn that consumes n bytes and drops, of what it had stored and these,
\* the first k, where no valid header begins.
LEMMA ScanStep ==
  ASSUME ParserInv, NEW claimed \in Seq(Seq(Byte)), Scans(claimed),
         NEW n \in 0..Len(input), NEW k \in 0..(used + n),
         \A i \in 1..k : Refuted(Ahead(n), i),
         input' = After(input, n), used' = used + n - k,
         discarded_bytes' = discarded_bytes + k, UNCHANGED <<delivered, fed>>
  PROVE  Scans(claimed)'
  <1>1. /\ Place \in Nat /\ used \in Nat /\ used <= Place
        /\ Len(input) \in Nat /\ Len(fed) \in Nat /\ Place + Len(input) = Len(fed)
        /\ n \in Nat /\ k \in Nat /\ k <= used + n
    BY Places
  <1>2. /\ delivered = Decoded(claimed) /\ discarded_bytes \in Nat
        /\ Place = discarded_bytes + used + Len(FlattenSeq(claimed))
        /\ Leads(claimed, fed, Place, Place - used + 1)
    BY DEF Scans
  <1>3. Place' = Place + n
    <2>1. input \in Seq(Byte) BY Lengths
    <2>2. Len(input') = Len(input) - n BY <2>1, AfterFacts
    <2> QED BY <1>1, <2>2 DEF Place
  <1>4. Leads(claimed, fed, Place + n, (Place - used) + k + 1)
    <2> DEFINE b == Place - used
               d == Place + n
               w == Ahead(n)
    <2>1. OnStream(w, fed, b, d) BY AheadOnStream
    <2>2. b \in 0..Place /\ d \in Nat /\ Place <= d /\ d - b = used + n BY <1>1
    <2>3. k \in 0..(d - b) BY <1>1, <2>2
    <2>4. Leads(claimed, fed, Place, b + 1) BY <1>2
    <2>5. \A i \in 1..k : Refuted(w, i) OBVIOUS
    <2> HIDE DEF b, d, w
    <2>6. Leads(claimed, fed, d, b + k + 1) BY <1>1, <2>1, <2>2, <2>3, <2>4, <2>5, LeadsOn
    <2> QED BY <2>6 DEF b, d
  <1>5. Place' - used' + 1 = (Place - used) + k + 1 BY <1>1, <1>3
  <1>6. Leads(claimed, fed', Place', Place' - used' + 1) BY <1>3, <1>4, <1>5
  <1>7. discarded_bytes' \in Nat BY <1>1, <1>2
  <1>8. Place' = discarded_bytes' + used' + Len(FlattenSeq(claimed))
    <2> DEFINE l == Len(FlattenSeq(claimed))
    <2>1. l \in Nat
      <3>1. FlattenSeq(claimed) \in Seq(Byte) BY FlattenTyped
      <3> QED BY <3>1, LenProperties
    <2>2. Place = discarded_bytes + used + l BY <1>2
    <2> HIDE DEF l
    <2>3. \A p, d, u, m, j, x \in Nat :
             j <= u + m /\ p = d + u + x => p + m = (d + j) + (u + m - j) + x
      OBVIOUS
    <2>4. /\ Place \in Nat /\ discarded_bytes \in Nat /\ used \in Nat /\ n \in Nat
          /\ k \in Nat /\ k <= used + n
      BY <1>1, <1>2
    <2>5. Place + n = (discarded_bytes + k) + (used + n - k) + l
      BY <2>1, <2>2, <2>3, <2>4
    <2>6. Place' = discarded_bytes' + used' + l BY <1>3, <2>5
    <2> QED BY <2>6 DEF l
  <1> QED BY <1>2, <1>6, <1>7, <1>8 DEF Scans

\* A turn that stores all it consumes.
LEMMA StoreStep ==
  ASSUME ParserInv, Scanned, NEW n \in 0..Len(input),
         input' = After(input, n), used' = used + n,
         UNCHANGED <<discarded_bytes, delivered, fed>>
  PROVE  Scanned'
  <1>1. PICK claimed \in Seq(Seq(Byte)) : Scans(claimed) BY DEF Scanned
  <1>2. used \in Nat /\ n \in Nat /\ discarded_bytes \in Nat
    BY <1>1, Places DEF Scans
  <1>3. /\ 0 \in 0..(used + n) /\ used' = used + n - 0
        /\ discarded_bytes' = discarded_bytes + 0
    BY <1>2
  <1>4. \A i \in 1..0 : Refuted(Ahead(n), i) OBVIOUS
  <1>5. Scans(claimed)' BY <1>1, <1>3, <1>4, ScanStep
  <1> QED BY <1>5 DEF Scanned

\* At first nothing is claimed.
LEMMA InitScanned == Init => Scanned
  <1> SUFFICES ASSUME Init PROVE Scanned OBVIOUS
  <1>1. /\ input = <<>> /\ storage = <<>> /\ fed = <<>>
        /\ discarded_bytes = 0 /\ delivered = <<>>
    BY DEF Init
  <1>2. Place = 0 /\ used = 0 BY <1>1 DEF Place, used
  <1> DEFINE none == <<>>
  <1>3. none \in Seq(Seq(Byte)) OBVIOUS
  <1>4. delivered = Decoded(none) BY <1>1, DecodedEmpty
  <1>5. Len(FlattenSeq(none)) = 0
    <2>1. FlattenSeq(none) = <<>> BY FlattenEmpty
    <2> QED BY <2>1
  <1>6. Place - used + 1 = 1 BY <1>2
  <1>7. Leads(none, fed, Place, 1)
    <2> SUFFICES ASSUME NEW u \in Seq(Byte), NEW g, Scan(g, u) PROVE g[1] = none \o g[1]
      BY DEF Leads
    <2>1. 1 \in 1..(Len(u) + 1) BY LenProperties
    <2>2. g[1] \in Seq(Seq(Byte)) BY <2>1, ScanTyped
    <2> QED BY <2>2, ConcatEmptySeq
  <1> HIDE DEF none
  <1>8. Scans(none) BY <1>1, <1>2, <1>4, <1>5, <1>6, <1>7 DEF Scans
  <1> QED BY <1>3, <1>8 DEF Scanned

\* What a new call brings lies behind the parser's place.
LEMMA FeedScans == ASSUME ParserInv, Scanned, Feed PROVE Scanned'
  <1>1. PICK claimed \in Seq(Seq(Byte)) : Scans(claimed) BY DEF Scanned
  <1>2. /\ input = <<>> /\ fed' = fed \o input'
        /\ UNCHANGED <<storage, discarded_bytes, delivered>>
    BY DEF Feed, counters
  <1>3. /\ fed \in Seq(Byte) /\ input' \in Seq(Byte)
    BY FeedKeeps DEF ParserInv, Tape
  <1>4. /\ Len(fed') = Len(fed) + Len(input') /\ \A i \in 1..Len(fed) : fed'[i] = fed[i]
        /\ Len(fed) \in Nat /\ Len(input') \in Nat
    BY <1>2, <1>3, LenProperties, ConcatProperties
  <1>5. Place = Len(fed) /\ Place' = Place /\ used' = used
    <2>1. Place = Len(fed) BY <1>2, <1>4 DEF Place
    <2>2. Place' = Len(fed) BY <1>4 DEF Place
    <2> QED BY <1>2, <2>1, <2>2 DEF used
  <1>6. Leads(claimed, fed', Place, Place - used + 1)
    <2>1. Leads(claimed, fed, Place, Place - used + 1) BY <1>1 DEF Scans
    <2>2. \A u : Agree(u, fed', Place) => Agree(u, fed, Place) BY <1>4, <1>5 DEF Agree
    <2> QED BY <2>1, <2>2 DEF Leads
  <1>7. Scans(claimed)' BY <1>1, <1>2, <1>5, <1>6 DEF Scans
  <1> QED BY <1>7 DEF Scanned

\* What is skipped does not begin with the first magic byte.
LEMMA HuntScans == ASSUME ParserInv, Scanned, Hunt PROVE Scanned'
  <1>1. PICK claimed \in Seq(Seq(Byte)) : Scans(claimed) BY DEF Scanned
  <1> DEFINE found == {i \in 1..Len(input) : input[i] = MagicLow}
             skipped == IF found = {} THEN Len(input) ELSE Min(found) - 1
             n == skipped + Len(storage')
  <1>2. /\ used = 0 /\ UNCHANGED <<delivered, fed>>
        /\ storage' = (IF found = {} THEN <<>> ELSE <<MagicLow>>)
        /\ input' = After(input, n) /\ discarded_bytes' = discarded_bytes + skipped
    BY DEF Hunt
  <1>3. Len(input) \in Nat BY Lengths
  <1>4. /\ skipped \in 0..Len(input) /\ n \in 0..Len(input)
        /\ used' = n - skipped /\ skipped <= n
        /\ \A i \in 1..skipped : i \notin found
    <2>1. CASE found = {}
      <3>1. Len(storage') = 0 BY <1>2, <2>1
      <3> QED BY <1>3, <2>1, <3>1 DEF used
    <2>2. CASE found # {}
      <3>1. found \in SUBSET (0..Len(input)) /\ Len(input) \in Int BY <1>3
      <3>2. skipped = Min(found) - 1 BY <2>2
      <3>3. Len(storage') = 1 BY <1>2, <2>2
      <3>4. found \subseteq 1..Len(input) OBVIOUS
      <3> HIDE DEF found, skipped
      <3>5. Min(found) \in found /\ \A i \in found : Min(found) <= i
        BY <2>2, <3>1, LeastNumber
      <3>6. Min(found) \in 1..Len(input) BY <3>4, <3>5
      <3>7. skipped \in 0..Len(input) /\ skipped \in Nat /\ n \in 0..Len(input)
        BY <1>3, <3>2, <3>3, <3>6
      <3>8. \A i \in 1..skipped : i \notin found BY <3>2, <3>5, <3>6
      <3>9. used' = n - skipped /\ skipped <= n BY <3>3, <3>7 DEF used
      <3> QED BY <3>7, <3>8, <3>9
    <2> QED BY <2>1, <2>2
  <1>5. \A i \in 1..skipped : input[i] # MagicLow
    <2> SUFFICES ASSUME NEW i \in 1..skipped PROVE input[i] # MagicLow OBVIOUS
    <2>1. i \in 1..Len(input) BY <1>3, <1>4
    <2> QED BY <1>4, <2>1
  <1> HIDE DEF found, skipped, n
  <1>6. n \in Nat /\ skipped \in Nat /\ skipped <= n BY <1>3, <1>4
  <1>7. \A i \in 1..skipped : Refuted(Ahead(n), i)
    <2> SUFFICES ASSUME NEW i \in 1..skipped PROVE Refuted(Ahead(n), i) OBVIOUS
    <2>1. i \in 1..n /\ used + i = i BY <1>2, <1>6
    <2>2. Ahead(n)[used + i] = input[i] BY <1>4, <2>1, AheadOnStream
    <2> QED BY <1>5, <2>1, <2>2 DEF Refuted
  <1>8. skipped \in 0..(used + n) /\ used' = used + n - skipped BY <1>2, <1>4, <1>6
  <1>9. Scans(claimed)' BY <1>1, <1>2, <1>4, <1>7, <1>8, ScanStep
  <1> QED BY <1>9 DEF Scanned

\* A byte that does not go on with the magic leaves no header that begins with
\* the byte before it.
LEMMA SecondMagicScans == ASSUME ParserInv, Scanned, SecondMagic PROVE Scanned'
  <1>1. PICK claimed \in Seq(Seq(Byte)) : Scans(claimed) BY DEF Scanned
  <1>2. /\ input # <<>> /\ used = 1 /\ UNCHANGED <<delivered, fed>>
        /\ storage' = CASE Head(input) = MagicHigh -> <<MagicLow, MagicHigh>>
                        [] Head(input) = MagicLow  -> <<MagicLow>>
                        [] OTHER                   -> <<>>
        /\ input' = Tail(input)
        /\ discarded_bytes' = discarded_bytes + 2 - Len(storage')
    BY DEF SecondMagic
  <1>3. input \in Seq(Byte) /\ Len(input) \in Nat /\ Len(input) > 0 BY <1>2, Lengths
  <1>4. input' = After(input, 1) /\ Head(input) = input[1] BY <1>2, <1>3 DEF After
  <1> DEFINE w == Ahead(1)
  <1>5. 1 \in 0..Len(input) BY <1>3
  <1>6. w[2] = input[1] /\ Len(w) = 2
    <2>1. 1 \in 1..1 /\ used + 1 = 2 BY <1>2
    <2>2. w[used + 1] = input[1] /\ Len(w) = used + 1 BY <1>5, <2>1, AheadOnStream
    <2> QED BY <2>1, <2>2
  <1> HIDE DEF w
  <1>7. \E k \in 0..2 : Len(storage') = 2 - k /\ \A i \in 1..k : Refuted(w, i)
    <2>1. CASE input[1] = MagicHigh
      <3>1. storage' = <<MagicLow, MagicHigh>> BY <1>2, <1>4, <2>1, Format
      <3>2. Len(storage') = 2 - 0 /\ \A i \in 1..0 : Refuted(w, i) BY <3>1
      <3> QED BY <3>2
    <2>2. CASE input[1] # MagicHigh /\ input[1] = MagicLow
      <3>1. storage' = <<MagicLow>> BY <1>2, <1>4, <2>2
      <3>2. Len(storage') = 2 - 1 BY <3>1
      <3>3. Refuted(w, 1) BY <1>6, <2>2 DEF Refuted
      <3>4. \A i \in 1..1 : Refuted(w, i) BY <3>3
      <3> QED BY <3>2, <3>4
    <2>3. CASE input[1] # MagicHigh /\ input[1] # MagicLow
      <3>1. storage' = <<>> BY <1>2, <1>4, <2>3
      <3>2. Len(storage') = 2 - 2 BY <3>1
      <3>3. Refuted(w, 1) /\ Refuted(w, 2) BY <1>6, <2>3 DEF Refuted
      <3>4. \A i \in 1..2 : Refuted(w, i) BY <3>3
      <3> QED BY <3>2, <3>4
    <2> QED BY <2>1, <2>2, <2>3
  <1>8. PICK k \in 0..2 : Len(storage') = 2 - k /\ \A i \in 1..k : Refuted(w, i) BY <1>7
  <1>9. /\ k \in 0..(used + 1) /\ used' = used + 1 - k
        /\ discarded_bytes' = discarded_bytes + k
    <2>1. used' = 2 - k BY <1>8 DEF used
    <2>2. discarded_bytes \in Nat BY <1>1 DEF Scans
    <2>3. \A x \in Nat, y \in 0..2 : x + 2 - (2 - y) = x + y OBVIOUS
    <2>4. discarded_bytes' = discarded_bytes + k BY <1>2, <1>8, <2>2, <2>3
    <2> QED BY <1>2, <2>1, <2>4
  <1>10. \A i \in 1..k : Refuted(Ahead(1), i) BY <1>8 DEF w
  <1>11. Scans(claimed)' BY <1>1, <1>2, <1>4, <1>5, <1>9, <1>10, ScanStep
  <1> QED BY <1>11 DEF Scanned

\* Of a rejected header no byte that is dropped begins a valid one.
LEMMA HeaderRejectedScans == ASSUME ParserInv, Scanned, HeaderRejected PROVE Scanned'
  <1>1. PICK claimed \in Seq(Seq(Byte)) : Scans(claimed) BY DEF Scanned
  <1>2. /\ input # <<>> /\ used \in 2..(HeaderBytes - 1) /\ Len(Filled) = HeaderBytes
        /\ ~HeaderOK(Filled)
        /\ storage' = Resynchronize(Filled) /\ input' = After(input, HeaderCount)
        /\ discarded_bytes' = discarded_bytes + HeaderBytes - Len(storage')
        /\ UNCHANGED <<delivered, fed>>
    BY DEF HeaderRejected
  <1>3. /\ HeaderCount \in 0..Len(input) /\ Filled \in Seq(Byte)
        /\ Len(Filled) = used + HeaderCount /\ Len(Filled) = 4
        /\ used \in Nat /\ HeaderCount \in Nat
        /\ Filled[1] = MagicLow /\ Filled[2] = MagicHigh
    BY <1>2, HeaderFacts, Lengths, Format
  <1>4. PICK k \in 1..4 : /\ storage' = After(Filled, k)
                          /\ \A i \in 2..k : i \notin Restarts(Filled)
    BY <1>2, <1>3, ResynchronizeFacts, Format
  <1>5. Len(storage') = 4 - k
    <2>1. k \in 0..Len(Filled)
      <3>1. k \in 0..4 OBVIOUS
      <3>2. Len(Filled) = 4 BY <1>3
      <3> QED BY <3>1, <3>2
    <2>2. Len(After(Filled, k)) = Len(Filled) - k BY <1>3, <2>1, AfterFacts
    <2> QED BY <1>3, <1>4, <2>2
  <1>6. \A i \in 1..k : Refuted(Filled, i)
    <2> SUFFICES ASSUME NEW i \in 1..k PROVE Refuted(Filled, i) OBVIOUS
    <2>1. CASE i = 1
      <3>1. ~(/\ Filled[3] \in Versions /\ Filled[4] <= MaxPayload
              /\ Overhead + Filled[4] <= StorageCapacity)
        BY <1>2, <1>3 DEF HeaderOK, PayloadLength, HeaderBytes
      <3>2. i = 1 /\ i + 2 = 3 /\ i + 3 = 4 /\ i + 3 <= 4 BY <2>1
      <3>3. Len(Filled) = 4 BY <1>3
      <3>4. i + 2 <= Len(Filled) /\ i + 3 <= Len(Filled) BY <2>1, <3>3
      <3>5. \/ Filled[i + 2] \notin Versions
            \/ ~(Filled[i + 3] <= MaxPayload /\ Overhead + Filled[i + 3] <= StorageCapacity)
        BY <3>1, <3>2
      <3> QED BY <3>4, <3>5 DEF Refuted
    <2>2. CASE i # 1
      <3>1. i \in 2..k /\ i \in 2..4 BY <2>2
      <3>2. i \notin Restarts(Filled) BY <1>4, <3>1
      <3>3. ~(/\ Filled[i] = MagicLow
              /\ i < 4 => Filled[i + 1] = MagicHigh
              /\ i + 1 < 4 => Filled[i + 2] \in Versions)
        BY <1>3, <3>1, <3>2 DEF Restarts
      <3>4. Len(Filled) = 4 BY <1>3
      <3>5. (i < 4 => i + 1 <= Len(Filled)) /\ (i + 1 < 4 => i + 2 <= Len(Filled))
        BY <3>1, <3>4
      <3> QED BY <3>3, <3>5 DEF Refuted
    <2> QED BY <2>1, <2>2
  <1>7. Filled = Ahead(HeaderCount) BY DEF Filled, Ahead
  <1>8. /\ k \in 0..(used + HeaderCount) /\ used' = used + HeaderCount - k
        /\ discarded_bytes' = discarded_bytes + k
    <2>1. used + HeaderCount = 4 BY <1>3
    <2>2. used' = 4 - k BY <1>5 DEF used
    <2>3. k \in 0..4 OBVIOUS
    <2>4. discarded_bytes \in Nat BY <1>1 DEF Scans
    <2>5. \A x \in Nat, y \in 1..4 : x + 4 - (4 - y) = x + y OBVIOUS
    <2>6. discarded_bytes' = discarded_bytes + 4 - (4 - k) BY <1>2, <1>5, Format
    <2>7. discarded_bytes' = discarded_bytes + k BY <2>4, <2>5, <2>6
    <2>8. k \in 0..(used + HeaderCount) BY <2>1, <2>3
    <2>9. used' = used + HeaderCount - k
      <3>1. \A x, y \in Nat, z \in 1..4 : x + y = 4 => x + y - z = 4 - z OBVIOUS
      <3>2. used + HeaderCount - k = 4 - k BY <1>3, <2>1, <3>1
      <3> QED BY <2>2, <3>2
    <2> QED BY <2>7, <2>8, <2>9
  <1>9. \A i \in 1..k : Refuted(Ahead(HeaderCount), i) BY <1>6, <1>7
  <1>10. Scans(claimed)' BY <1>1, <1>2, <1>3, <1>8, <1>9, ScanStep
  <1> QED BY <1>10 DEF Scanned

\* The trailer of a whole frame matches the running checksum just when
\* zs407_frame_decode accepts the frame.
LEMMA TrailerDecodes ==
  ASSUME ParserInv, input # <<>>, expected # 0, Len(Extended) = expected
  PROVE  /\ HeaderOK(Extended) /\ expected = Overhead + PayloadLength(Extended)
         /\ 4 <= Len(Extended)
         /\ Decodes(Extended) <=>
              After(Extended, expected - TrailerBytes) = Trailer(CrcCaughtUp(Extended))
  <1>1. /\ HeaderBytes <= used /\ used < expected /\ expected \in Nat
        /\ HeaderOK(storage) /\ expected = Overhead + PayloadLength(storage)
        /\ \A i \in 1..used : Extended[i] = storage[i]
        /\ used \in Nat
    BY BodyFacts, Lengths
  <1>2. HeaderOK(Extended) /\ PayloadLength(Extended) = PayloadLength(storage)
    <2>1. 4 <= used BY <1>1, Format
    <2>2. \A i \in 1..4 : Extended[i] = storage[i] BY <1>1, <2>1
    <2> QED BY <1>1, <2>2, SameHeader
  <1>3. expected >= 6
    <2>1. PayloadLength(storage) \in Nat
      <3>1. storage \in Seq(Byte) /\ used = Len(storage) BY Lengths
      <3>2. 4 \in 1..Len(storage) BY <1>1, <3>1, Format
      <3>3. storage[4] \in Byte BY <3>1, <3>2, ElementOfSeq
      <3> QED BY <3>3, Format DEF PayloadLength, HeaderBytes
    <2> QED BY <1>1, <2>1, Format
  <1>4. CaughtUp(Extended) = expected - TrailerBytes
    <2>1. \A e \in Nat : Min({e, e - 2}) = e - 2
      <3> SUFFICES ASSUME NEW e \in Nat PROVE Min({e, e - 2}) = e - 2 OBVIOUS
      <3>1. e \in Int /\ e - 2 \in Int /\ ~(e <= e - 2) OBVIOUS
      <3> QED BY <3>1, MinOfTwo
    <2> QED BY <1>1, <2>1, Format DEF CaughtUp
  <1>5. CrcCaughtUp(Extended) = CrcFold(CrcInit, SubSeq(Extended, 1, expected - TrailerBytes))
    BY <1>4, BodyCrc
  <1>6. After(Extended, expected - TrailerBytes) =
          SubSeq(Extended, expected - TrailerBytes + 1, expected)
    BY DEF After
  <1>7. /\ Extended[1] = MagicLow /\ Extended[2] = MagicHigh /\ Extended[3] \in Versions
        /\ PayloadLength(Extended) <= MaxPayload
    BY <1>2 DEF HeaderOK
  <1>8. expected = Overhead + PayloadLength(Extended) /\ expected >= Overhead
    BY <1>1, <1>2, <1>3, Format
  <1>9. Decodes(Extended) <=>
          SubSeq(Extended, expected - TrailerBytes + 1, expected) =
            Trailer(CrcFold(CrcInit, SubSeq(Extended, 1, expected - TrailerBytes)))
    BY <1>7, <1>8 DEF Decodes
  <1>10. 4 <= Len(Extended) BY <1>1, <1>3
  <1> QED BY <1>2, <1>5, <1>6, <1>8, <1>9, <1>10

\* A whole frame is claimed, and delivered if it decodes.
LEMMA BodyCompleteScans == ASSUME ParserInv, Scanned, BodyComplete PROVE Scanned'
  <1>1. PICK claimed \in Seq(Seq(Byte)) : Scans(claimed) BY DEF Scanned
  <1> DEFINE n == BodyCount
  <1>2. /\ input # <<>> /\ expected # 0 /\ Len(Extended) = expected
        /\ delivered' = IF After(Extended, expected - TrailerBytes) =
                             Trailer(CrcCaughtUp(Extended))
                        THEN Append(delivered, Extended) ELSE delivered
        /\ input' = After(input, n) /\ storage' = <<>>
        /\ UNCHANGED <<discarded_bytes, fed>>
    BY DEF BodyComplete
  <1>3. PICK w : w = Extended OBVIOUS
  <1>4. /\ n \in 0..Len(input) /\ w \in Seq(Byte) /\ Len(w) = used + n
        /\ OnStream(w, fed, Place - used, Place + n)
    <2>1. n \in 0..Len(input) BY <1>2, BodyFacts
    <2>2. Extended = Ahead(n) BY DEF Extended, Ahead
    <2> HIDE DEF n
    <2> QED BY <1>3, <2>1, <2>2, AheadOnStream
  <1>5. /\ HeaderOK(w) /\ 4 <= Len(w) /\ Len(w) = Overhead + PayloadLength(w)
        /\ delivered' = IF Decodes(w) THEN Append(delivered, w) ELSE delivered
    BY <1>2, <1>3, TrailerDecodes
  <1>6. /\ Place \in Nat /\ used \in Nat /\ used <= Place
        /\ Len(input) \in Nat /\ Len(fed) \in Nat /\ Place + Len(input) = Len(fed)
        /\ n \in Nat
    <2>1. n \in Nat BY <1>4
    <2> QED BY <2>1, Places
  <1> HIDE DEF n
  <1>7. Place' = Place + n /\ used' = 0
    <2>1. input \in Seq(Byte) BY Lengths
    <2>2. Len(input') = Len(input) - n BY <1>2, <1>4, <2>1, AfterFacts
    <2>3. Place' = Place + n BY <1>2, <1>6, <2>2 DEF Place
    <2> QED BY <1>2, <2>3 DEF used
  <1>8. PICK more : more = Append(claimed, w) OBVIOUS
  <1>9. more \in Seq(Seq(Byte)) BY <1>4, <1>8, AppendProperties
  <1>10. delivered' = Decoded(more)
    BY <1>1, <1>4, <1>5, <1>8, DecodedAppend DEF Scans
  <1>11. Place' = discarded_bytes' + used' + Len(FlattenSeq(more))
    <2>1. Len(FlattenSeq(claimed)) \in Nat
      <3>1. FlattenSeq(claimed) \in Seq(Byte) BY FlattenTyped
      <3> QED BY <3>1, LenProperties
    <2>2. Len(FlattenSeq(more)) = Len(FlattenSeq(claimed)) + (used + n)
      BY <1>4, <1>8, FlattenAppend
    <2>3. discarded_bytes \in Nat /\ Place = discarded_bytes + used + Len(FlattenSeq(claimed))
      BY <1>1 DEF Scans
    <2>4. \A p, d, u, m, x \in Nat : p = d + u + x => p + m = d + 0 + (x + (u + m))
      OBVIOUS
    <2>5. Place + n = discarded_bytes + 0 + (Len(FlattenSeq(claimed)) + (used + n))
      BY <1>6, <2>1, <2>3, <2>4
    <2> QED BY <1>2, <1>7, <2>2, <2>5
  <1>12. Leads(more, fed', Place', Place' - used' + 1)
    <2> DEFINE b == Place - used
               d == Place + n
    <2>1. OnStream(w, fed, b, d) BY <1>4
    <2>2. b \in 0..Place /\ d \in Nat /\ Place <= d BY <1>6
    <2>3. Leads(claimed, fed, Place, b + 1) BY <1>1 DEF Scans
    <2>4. Place' - used' + 1 = d + 1 BY <1>6, <1>7
    <2> HIDE DEF b, d
    <2>5. Leads(Append(claimed, w), fed, d, d + 1)
      BY <1>4, <1>5, <1>6, <2>1, <2>2, <2>3, LeadsClaim
    <2>6. Leads(more, fed, d, d + 1) BY <1>8, <2>5
    <2>7. Place' = d BY <1>7 DEF d
    <2> QED BY <1>2, <2>4, <2>6, <2>7
  <1>13. discarded_bytes' \in Nat BY <1>1, <1>2 DEF Scans
  <1>14. Scans(more)' BY <1>10, <1>11, <1>12, <1>13 DEF Scans
  <1> QED BY <1>9, <1>14 DEF Scanned

\* Every turn of the loop scans on.
LEMMA NextScanned == ParserInv /\ Scanned /\ [Next]_vars => Scanned'
  <1> SUFFICES ASSUME ParserInv, Scanned, [Next]_vars PROVE Scanned' OBVIOUS
  <1>1. CASE Feed BY <1>1, FeedScans
  <1>2. CASE Hunt BY <1>2, HuntScans
  <1>3. CASE SecondMagic BY <1>3, SecondMagicScans
  <1>4. CASE HeaderPart
    <2>1. /\ input # <<>> /\ used \in 2..(HeaderBytes - 1) /\ storage' = Filled
          /\ input' = After(input, HeaderCount)
          /\ UNCHANGED <<discarded_bytes, delivered, fed>>
      BY <1>4 DEF HeaderPart, counters
    <2>2. HeaderCount \in 0..Len(input) /\ Len(Filled) = used + HeaderCount
      BY <2>1, HeaderFacts
    <2>3. used' = used + HeaderCount BY <2>1, <2>2 DEF used
    <2> QED BY <2>1, <2>2, <2>3, StoreStep
  <1>5. CASE HeaderAccepted
    <2>1. /\ input # <<>> /\ used \in 2..(HeaderBytes - 1) /\ storage' = Filled
          /\ input' = After(input, HeaderCount)
          /\ UNCHANGED <<discarded_bytes, delivered, fed>>
      BY <1>5 DEF HeaderAccepted, counters
    <2>2. HeaderCount \in 0..Len(input) /\ Len(Filled) = used + HeaderCount
      BY <2>1, HeaderFacts
    <2>3. used' = used + HeaderCount BY <2>1, <2>2 DEF used
    <2> QED BY <2>1, <2>2, <2>3, StoreStep
  <1>6. CASE HeaderRejected BY <1>6, HeaderRejectedScans
  <1>7. CASE BodyPart
    <2>1. /\ input # <<>> /\ expected # 0 /\ storage' = Extended
          /\ input' = After(input, BodyCount)
          /\ UNCHANGED <<discarded_bytes, delivered, fed>>
      BY <1>7 DEF BodyPart, counters
    <2>2. BodyCount \in 0..Len(input) /\ Len(Extended) = used + BodyCount
      BY <2>1, BodyFacts
    <2>3. used' = used + BodyCount BY <2>1, <2>2 DEF used
    <2> QED BY <2>1, <2>2, <2>3, StoreStep
  <1>8. CASE BodyComplete BY <1>8, BodyCompleteScans
  <1>9. CASE UNCHANGED vars
    <2>1. UNCHANGED <<input, storage, discarded_bytes, delivered, fed>>
      BY <1>9 DEF vars, counters
    <2>2. PICK claimed \in Seq(Seq(Byte)) : Scans(claimed) BY DEF Scanned
    <2>3. used' = used /\ Place' = Place BY <2>1 DEF used, Place
    <2>4. Scans(claimed)' BY <2>1, <2>2, <2>3 DEF Scans
    <2> QED BY <2>4 DEF Scanned
  <1> QED BY <1>1, <1>2, <1>3, <1>4, <1>5, <1>6, <1>7, <1>8, <1>9 DEF Next

\* What is claimed so far is what a scan of the consumed stream claims.
LEMMA ClaimedIsClaims ==
  ASSUME ParserInv, NEW claimed \in Seq(Seq(Byte)), Scans(claimed)
  PROVE  Claims(consumed) = claimed /\ Len(consumed) = Place
  <1>1. /\ consumed \in Seq(Byte) /\ Len(consumed) = Place
        /\ \A i \in 1..Place : consumed[i] = fed[i]
    BY ConsumedFacts DEF Place
  <1>2. /\ Place \in Nat /\ used \in Nat /\ used <= Place /\ used = Len(storage)
        /\ storage \in Seq(Byte)
    BY Places, Lengths
  <1> DEFINE b == Place - used
  <1>3. b \in 0..Place /\ Place - b = used BY <1>2
  <1>4. OnStream(storage, consumed, b, Place)
    <2>1. \A i \in 1..used : storage[i] = fed[b + i]
      BY DEF ParserInv, Window, Place
    <2>2. \A i \in 1..used : b + i \in 1..Place BY <1>2
    <2> HIDE DEF b
    <2> QED BY <1>1, <1>2, <1>3, <2>1, <2>2 DEF OnStream
  <1>5. \/ Len(storage) < 4
        \/ /\ HeaderOK(storage) /\ 4 <= Len(storage)
           /\ Len(storage) < Overhead + PayloadLength(storage)
    BY <1>2, Format DEF ParserInv, Framing
  <1>6. Leads(claimed, consumed, Place, b + 1)
    <2>1. Leads(claimed, fed, Place, b + 1) BY DEF Scans
    <2>2. \A u : Agree(u, consumed, Place) => Agree(u, fed, Place)
      BY <1>1, <1>2 DEF Agree
    <2> QED BY <2>1, <2>2 DEF Leads
  <1> HIDE DEF b
  <1>7. Claims(consumed) = claimed
    <2> DEFINE t == consumed
    <2>1. /\ t \in Seq(Byte) /\ b \in 0..Len(t) /\ OnStream(storage, t, b, Len(t))
          /\ Leads(claimed, t, Len(t), b + 1)
      BY <1>1, <1>3, <1>4, <1>6
    <2> HIDE DEF t
    <2>2. Claims(t) = claimed BY <1>2, <1>5, <2>1, LeadsToEnd
    <2> QED BY <2>2 DEF t
  <1> QED BY <1>1, <1>7

\* However the stream is cut into calls and whatever noise, false headers and
\* damaged frames are in it, the parser delivers the frames that a scan of the
\* whole stream claims and zs407_frame_decode accepts, all of them and in
\* order (zs407_protocol.c:430-492).
THEOREM DeliversTheStream == Spec => []DeliversClaims
  <1>1. ParserInv /\ Scanned => DeliversClaims
    BY ClaimedIsClaims DEF Scanned, Scans, DeliversClaims
  <1> QED BY <1>1, ParserInvariance, InitScanned, NextScanned, PTL DEF Spec

\* No byte is lost or counted twice: each one consumed is in a frame claimed,
\* counted as discarded or in the storage (zs407_protocol.c:319, 333, 345,
\* 434-459).
THEOREM EveryByteAccounted == Spec => []BytesAccounted
  <1>1. ParserInv /\ Scanned => BytesAccounted
    BY ClaimedIsClaims DEF Scanned, Scans, BytesAccounted
  <1> QED BY <1>1, ParserInvariance, InitScanned, NextScanned, PTL DEF Spec
=============================================================================
