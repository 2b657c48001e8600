---------------------------- MODULE SweepProofs -----------------------------
(***************************************************************************)
(* Proofs about the sweep: the trace it fills and the grid of its frequencies. *)
(***************************************************************************)
EXTENDS SweepMachines, ModArithmetic

-----------------------------------------------------------------------------
(***************************************************************************)
(* The trace of SweepEngine, for any number of points.  What a pass has         *)
(* replaced so far is known from its point; the first pass ends only when all    *)
(* points are replaced (OwnInv).  In AV_100 the number of samples of a point      *)
(* keeps up with the count of scans as long as no scan is aborted or repeated      *)
(* (EvenInv).                                                                     *)
(***************************************************************************)

\* A pass begins at the first point.
AtFirst == pc \in {"first", "calculated", "count"} => point = 0

\* The first pass has replaced the points it has gone past.
OwnInv ==
  /\ ~scandirty /\ pc # "calculated" => \A k \in Indices : trace[k].own
  /\ scandirty /\ pc = "measure" => \A k \in 0 .. point - 1 : trace[k].own
  /\ scandirty /\ pc = "measured" => \A k \in Indices : trace[k].own

\* Points that all scans since the change have gone into, n of them.
Full(k, n) == trace[k].even /\ (averaging /\ scan_after_dirty < MaxScans => trace[k].n = n)

Undisturbed == calculated /\ ~disturbed /\ pc # "calculated"

EvenInv ==
  Undisturbed =>
    /\ scandirty /\ pc = "count" => scan_after_dirty = 0
    /\ scandirty /\ pc = "measure" =>
         scan_after_dirty = 1 /\ \A k \in 0 .. point - 1 : trace[k].even /\ trace[k].n = 1
    /\ scandirty /\ pc = "measured" =>
         scan_after_dirty = 1 /\ \A k \in Indices : trace[k].even /\ trace[k].n = 1
    /\ scandirty => pc \in {"count", "measure", "measured"}
    /\ ~scandirty /\ pc # "measure" => \A k \in Indices : Full(k, scan_after_dirty)
    /\ ~scandirty /\ pc = "measure" =>
         /\ scan_after_dirty > 0
         /\ \A k \in Indices : Full(k, IF k < point THEN scan_after_dirty ELSE scan_after_dirty - 1)

SweepInv == TypeOK /\ AtFirst /\ OwnInv /\ EvenInv

\* A sample leaves a point well typed, and its own if it was or if it is replaced.
LEMMA StoredPoint ==
  ASSUME NEW p \in TracePoints, TypeOK
  PROVE  /\ Stored(p) \in TracePoints
         /\ p.own \/ scandirty => Stored(p).own
         /\ scandirty => Stored(p).even /\ Stored(p).n = 1
         /\ ~averaging => Stored(p).even
         /\ ~scandirty /\ averaging /\ scan_after_dirty > 0
            /\ p.even /\ (scan_after_dirty < MaxScans => p.n = scan_after_dirty - 1) =>
              Stored(p).even /\ (scan_after_dirty < MaxScans => Stored(p).n = scan_after_dirty)
  <1>1. scan_after_dirty \in 0 .. MaxScans /\ MaxScans \in Nat /\ MaxScans >= 1
    BY SweepAssumption DEF TypeOK
  <1>2. p.own \in BOOLEAN /\ p.n \in 0 .. MaxScans /\ p.even \in BOOLEAN
    BY DEF TracePoints
  <1>3. CASE scandirty \/ ~averaging
    <2>1. Stored(p) = [own |-> TRUE, n |-> 1, even |-> TRUE] BY <1>3 DEF Stored
    <2> QED BY <2>1, <1>1, <1>3 DEF TracePoints
  <1>4. CASE ~(scandirty \/ ~averaging) /\ scan_after_dirty = MaxScans
    <2>1. Stored(p) = p BY <1>4 DEF Stored
    <2> QED BY <2>1, <1>1, <1>2, <1>4
  <1>5. CASE ~(scandirty \/ ~averaging) /\ scan_after_dirty # MaxScans
    <2> DEFINE m == IF p.n < MaxScans THEN p.n + 1 ELSE MaxScans
               e == p.even /\ scan_after_dirty = p.n + 1
    <2>1. Stored(p) = [own |-> p.own, n |-> m, even |-> e] BY <1>5 DEF Stored
    <2>2. m \in 0 .. MaxScans /\ e \in BOOLEAN BY <1>1, <1>2
    <2>3. Stored(p) \in TracePoints BY <2>1, <2>2, <1>2 DEF TracePoints
    <2>4. Stored(p).own = p.own /\ Stored(p).n = m /\ Stored(p).even = e BY <2>1
    <2> QED BY <2>3, <2>4, <1>1, <1>2, <1>5
  <1> QED BY <1>3, <1>4, <1>5

LEMMA SweepInit == Init => SweepInv
  <1> SUFFICES ASSUME Init PROVE SweepInv OBVIOUS
  <1>1. 0 \in Indices /\ 0 \in 0 .. MaxScans BY SweepAssumption DEF Indices
  <1>2. [own |-> FALSE, n |-> 0, even |-> FALSE] \in TracePoints BY <1>1 DEF TracePoints
  <1>3. trace \in [Indices -> TracePoints] BY <1>2 DEF Init
  <1>4. TypeOK BY <1>1, <1>3 DEF Init, TypeOK, Triggers
  <1>5. AtFirst /\ OwnInv /\ EvenInv BY DEF Init, AtFirst, OwnInv, EvenInv, Undisturbed
  <1> QED BY <1>4, <1>5 DEF SweepInv

\* The values of the variables, one by one.
LEMMA Typed ==
  ASSUME TypeOK
  PROVE  /\ point \in Int /\ 0 <= point /\ point < Points /\ point \in Indices
         /\ scan_after_dirty \in Int /\ 0 <= scan_after_dirty /\ scan_after_dirty <= MaxScans
         /\ MaxScans \in Nat /\ MaxScans >= 1 /\ Points \in Nat /\ Points >= 1
         /\ \A k \in Indices : trace[k] \in TracePoints
  BY SweepAssumption DEF TypeOK, Indices

LEMMA ServeKeeps == SweepInv /\ Serve => SweepInv'
  <1> SUFFICES ASSUME SweepInv, Serve PROVE SweepInv' OBVIOUS
  <1>1. TypeOK'
    <2>1. /\ dirty' \in BOOLEAN /\ calculated' \in BOOLEAN /\ averaging' \in BOOLEAN
          /\ enabled' \in BOOLEAN /\ trigger' \in Triggers
      BY DEF SweepInv, TypeOK, Serve, SetTrigger, Triggers
    <2> QED BY <2>1 DEF SweepInv, TypeOK, Serve
  <1>2. AtFirst' /\ OwnInv' BY DEF SweepInv, AtFirst, OwnInv, Serve
  <1>3. EvenInv'
    <2>1. CASE calculated' = FALSE BY <2>1 DEF EvenInv, Undisturbed
    <2>2. CASE UNCHANGED <<calculated, averaging>>
      BY <2>2 DEF SweepInv, EvenInv, Undisturbed, Full, Serve
    <2> QED BY <2>1, <2>2 DEF Serve
  <1> QED BY <1>1, <1>2, <1>3 DEF SweepInv

LEMMA LoadKeeps == SweepInv /\ Load => SweepInv'
  <1> SUFFICES ASSUME SweepInv, Load PROVE SweepInv' OBVIOUS
  <1>1. TypeOK'
    <2>1. /\ dirty' \in BOOLEAN /\ calculated' \in BOOLEAN /\ averaging' \in BOOLEAN
          /\ enabled' \in BOOLEAN /\ trigger' \in Triggers
      BY DEF Load, Triggers
    <2>2. scan_after_dirty' \in 0 .. MaxScans BY Typed DEF SweepInv, TypeOK, Load
    <2> QED BY <2>1, <2>2 DEF SweepInv, TypeOK, Load
  <1>2. AtFirst' /\ OwnInv' /\ EvenInv'
    BY DEF SweepInv, AtFirst, OwnInv, EvenInv, Undisturbed, Load
  <1> QED BY <1>1, <1>2 DEF SweepInv

\* Steps that leave the points alone and neither begin nor end a pass.
LEMMA RestKeeps == SweepInv /\ (Request \/ CmdTrigger \/ Loop \/ Begin \/ NotDirty) => SweepInv'
  <1> SUFFICES ASSUME SweepInv, Request \/ CmdTrigger \/ Loop \/ Begin \/ NotDirty PROVE SweepInv'
    OBVIOUS
  <1>0. 0 \in Indices BY SweepAssumption DEF Indices
  <1>1. UNCHANGED <<scandirty, scan_after_dirty, calculated, averaging, trace, disturbed>>
    BY DEF Request, CmdTrigger, Loop, Begin, NotDirty, settingVars, SetTrigger
  <1>2. TypeOK'
    <2>1. CASE Request BY <2>1 DEF SweepInv, TypeOK, Request, settingVars
    <2>2. CASE CmdTrigger
      <3>1. trigger' \in Triggers /\ enabled' \in BOOLEAN
        BY <2>2 DEF CmdTrigger, SetTrigger, Triggers
      <3> QED BY <2>2, <3>1 DEF SweepInv, TypeOK, CmdTrigger
    <2>3. CASE Loop BY <2>3 DEF SweepInv, TypeOK, Loop, settingVars
    <2>4. CASE Begin BY <1>0, <2>4 DEF SweepInv, TypeOK, Begin, settingVars
    <2>5. CASE NotDirty BY <2>5 DEF SweepInv, TypeOK, NotDirty, settingVars
    <2> QED BY <2>1, <2>2, <2>3, <2>4, <2>5
  <1>3. \/ pc' = pc /\ point' = point
        \/ pc \in {"rest", "top"} /\ pc' \in {"rest", "top"} /\ point' = point
        \/ pc = "top" /\ pc' = "first" /\ point' = 0
        \/ pc = "first" /\ pc' = "count" /\ point' = point
    BY DEF Request, CmdTrigger, Loop, Begin, NotDirty
  <1>4. AtFirst' BY <1>3 DEF SweepInv, AtFirst
  <1>5. OwnInv' BY <1>1, <1>3 DEF SweepInv, OwnInv
  <1>6. EvenInv' BY <1>1, <1>3 DEF SweepInv, EvenInv, Undisturbed, Full
  <1> QED BY <1>2, <1>4, <1>5, <1>6 DEF SweepInv

\* The calculation makes every point foreign, the first pass then begins.
LEMMA FirstKeeps == SweepInv /\ (Recalculate \/ FirstPass) => SweepInv'
  <1> SUFFICES ASSUME SweepInv, Recalculate \/ FirstPass PROVE SweepInv' OBVIOUS
  <1>1. CASE Recalculate
    <2>1. trace' \in [Indices -> TracePoints]
      <3>1. \A k \in Indices : [trace[k] EXCEPT !.own = FALSE] \in TracePoints
        BY Typed DEF SweepInv, TracePoints
      <3> QED BY <1>1, <3>1 DEF Recalculate
    <2>2. TypeOK' BY <1>1, <2>1 DEF SweepInv, TypeOK, Recalculate
    <2>3. AtFirst' /\ OwnInv' /\ EvenInv'
      BY <1>1 DEF SweepInv, AtFirst, OwnInv, EvenInv, Undisturbed, Recalculate
    <2> QED BY <2>2, <2>3 DEF SweepInv
  <1>2. CASE FirstPass
    <2>1. 0 \in 0 .. MaxScans BY SweepAssumption
    <2>2. TypeOK' BY <1>2, <2>1 DEF SweepInv, TypeOK, FirstPass, settingVars
    <2>3. AtFirst' /\ OwnInv' /\ EvenInv'
      BY <1>2 DEF SweepInv, AtFirst, OwnInv, EvenInv, Undisturbed, FirstPass, settingVars
    <2> QED BY <2>2, <2>3 DEF SweepInv
  <1> QED BY <1>1, <1>2

LEMMA CountKeeps == SweepInv /\ CountScan => SweepInv'
  <1> SUFFICES ASSUME SweepInv, CountScan PROVE SweepInv' OBVIOUS
  <1>1. /\ pc = "count" /\ pc' = "measure" /\ point = 0 /\ point' = 0
        /\ UNCHANGED <<dirty, scandirty, calculated, averaging, trigger, enabled, triggered,
                       operation_requested, trace, disturbed, completed>>
    BY DEF CountScan, settingVars, SweepInv, AtFirst
  <1>2. /\ scan_after_dirty' \in 0 .. MaxScans /\ scan_after_dirty' > 0
        /\ scan_after_dirty' < MaxScans => scan_after_dirty < MaxScans
                                           /\ scan_after_dirty = scan_after_dirty' - 1
        /\ scan_after_dirty = 0 => scan_after_dirty' = 1
    BY Typed DEF CountScan, SweepInv
  <1>3. TypeOK' BY <1>1, <1>2 DEF SweepInv, TypeOK
  <1>4. AtFirst' BY <1>1 DEF AtFirst
  <1>5. OwnInv'
    BY <1>1 DEF SweepInv, OwnInv
  <1>6. ASSUME Undisturbed' PROVE
          /\ scandirty => scan_after_dirty' = 1
          /\ ~scandirty => \A k \in Indices :
               Full(k, IF k < point THEN scan_after_dirty ELSE scan_after_dirty - 1)'
    <2>1. Undisturbed BY <1>1, <1>6 DEF Undisturbed
    <2>2. scandirty => scan_after_dirty' = 1 BY <1>1, <1>2, <2>1 DEF SweepInv, EvenInv
    <2>3. ASSUME ~scandirty, NEW k \in Indices
          PROVE  Full(k, IF k < point THEN scan_after_dirty ELSE scan_after_dirty - 1)'
      <3>1. Full(k, scan_after_dirty) BY <1>1, <2>1, <2>3 DEF SweepInv, EvenInv
      <3>2. ~(k < point') BY <1>1, <2>3 DEF Indices
      <3> QED BY <1>1, <1>2, <3>1, <3>2 DEF Full
    <2> QED BY <2>2, <2>3
  <1>7. EvenInv' BY <1>1, <1>2, <1>6 DEF EvenInv
  <1> QED BY <1>3, <1>4, <1>5, <1>7 DEF SweepInv

\* A request drops the pass, a missing trigger begins another one: both are remembered.
LEMMA DisturbedKeeps == SweepInv /\ (Abort \/ Again) => SweepInv'
  <1> SUFFICES ASSUME SweepInv, Abort \/ Again PROVE SweepInv' OBVIOUS
  <1>1. 0 \in Indices BY SweepAssumption DEF Indices
  <1>2. CASE Abort
    BY <1>2 DEF SweepInv, TypeOK, AtFirst, OwnInv, EvenInv, Undisturbed, Abort, settingVars
  <1>3. CASE Again
    BY <1>1, <1>3 DEF SweepInv, TypeOK, AtFirst, OwnInv, EvenInv, Undisturbed, Again, settingVars
  <1> QED BY <1>2, <1>3

LEMMA FinishKeeps == SweepInv /\ Finish => SweepInv'
  <1> SUFFICES ASSUME SweepInv, Finish PROVE SweepInv' OBVIOUS
  <1>1. TypeOK'
    <2>1. trigger' \in Triggers /\ enabled' \in BOOLEAN
      BY DEF Finish, SetTrigger, Triggers, SweepInv, TypeOK
    <2> QED BY <2>1 DEF SweepInv, TypeOK, Finish
  <1>2. AtFirst' /\ OwnInv' BY DEF SweepInv, AtFirst, OwnInv, Finish
  <1>3. EvenInv'
    <2>1. ASSUME Undisturbed', NEW k \in Indices PROVE Full(k, scan_after_dirty)'
      BY <2>1 DEF SweepInv, EvenInv, Undisturbed, Full, Finish
    <2> QED BY <2>1 DEF EvenInv, Finish
  <1> QED BY <1>1, <1>2, <1>3 DEF SweepInv

\* A measured point joins those the pass has gone past; after the last one they are all.
LEMMA MeasureKeeps == SweepInv /\ Measure => SweepInv'
  <1> SUFFICES ASSUME SweepInv, Measure PROVE SweepInv' OBVIOUS
  <1> DEFINE q == Stored(trace[point])
  <1>1. /\ TypeOK /\ pc = "measure"
        /\ trace' = [trace EXCEPT ![point] = q]
        /\ UNCHANGED <<dirty, scandirty, scan_after_dirty, calculated, averaging, trigger, enabled,
                       operation_requested, disturbed, completed>>
    BY DEF Measure, settingVars, SweepInv
  <1>t. triggered' \in BOOLEAN BY DEF Measure, SweepInv, TypeOK
  <1>p. \/ point + 1 < Points /\ point' = point + 1 /\ pc' = "measure"
        \/ point = Points - 1 /\ point' = point /\ pc' = "measured"
    <2>1. CASE point + 1 < Points BY <2>1 DEF Measure
    <2>2. CASE ~(point + 1 < Points)
      <3>1. point = Points - 1 BY <1>1, <2>2, Typed
      <3> QED BY <2>2, <3>1 DEF Measure
    <2> QED BY <2>1, <2>2
  <1>2. /\ trace[point] \in TracePoints /\ q \in TracePoints
        /\ trace[point].own \/ scandirty => q.own
        /\ scandirty => q.even /\ q.n = 1
        /\ ~averaging => q.even
        /\ ~scandirty /\ averaging /\ scan_after_dirty > 0
           /\ trace[point].even
           /\ (scan_after_dirty < MaxScans => trace[point].n = scan_after_dirty - 1) =>
             q.even /\ (scan_after_dirty < MaxScans => q.n = scan_after_dirty)
    <2>1. trace[point] \in TracePoints BY <1>1, Typed
    <2> QED BY <1>1, <2>1, StoredPoint
  <1>3. \A k \in Indices : trace'[k] = IF k = point THEN q ELSE trace[k]
    BY <1>1 DEF TypeOK
  <1>4. trace' \in [Indices -> TracePoints] BY <1>1, <1>2 DEF TypeOK
  <1>5. point \in Indices /\ point' \in Indices /\ Indices = 0 .. Points - 1
        /\ Points \in Nat /\ point \in Nat
    BY <1>1, <1>p, Typed DEF Indices
  <1>s. /\ pc' = "measure" => 0 .. point' - 1 = 0 .. point
        /\ pc' = "measured" => Indices = 0 .. point
        /\ pc' \in {"measure", "measured"}
    BY <1>p, <1>5
  <1>6. TypeOK' BY <1>1, <1>t, <1>s, <1>4, <1>5 DEF TypeOK
  <1>7. AtFirst' BY <1>s DEF AtFirst
  <1>8. OwnInv'
    <2>1. CASE scandirty
      <3>1. \A k \in 0 .. point : trace'[k].own
        BY <1>1, <1>2, <1>3, <1>5, <2>1 DEF SweepInv, OwnInv
      <3> QED BY <1>1, <1>s, <2>1, <3>1 DEF OwnInv
    <2>2. CASE ~scandirty
      BY <1>1, <1>2, <1>3, <1>s, <2>2 DEF SweepInv, OwnInv
    <2> QED BY <2>1, <2>2
  <1>9. EvenInv'
    <2> SUFFICES ASSUME Undisturbed' PROVE EvenInv' BY DEF EvenInv
    <2>1. Undisturbed BY <1>1 DEF Undisturbed
    <2>2. CASE scandirty
      <3>1. scan_after_dirty = 1 /\ \A k \in 0 .. point : trace'[k].even /\ trace'[k].n = 1
        BY <1>1, <1>2, <1>3, <1>5, <2>1, <2>2 DEF SweepInv, EvenInv
      <3> QED BY <1>1, <1>s, <2>2, <3>1 DEF EvenInv
    <2>3. CASE ~scandirty
      <3>1. /\ scan_after_dirty > 0
            /\ \A k \in Indices :
                 Full(k, IF k < point THEN scan_after_dirty ELSE scan_after_dirty - 1)
        BY <1>1, <2>1, <2>3 DEF SweepInv, EvenInv
      <3>2. q.even /\ (averaging /\ scan_after_dirty < MaxScans => q.n = scan_after_dirty)
        <4>1. Full(point, scan_after_dirty - 1) BY <1>5, <3>1
        <4> QED BY <1>2, <2>3, <3>1, <4>1 DEF Full
      <3>3. ASSUME NEW k \in Indices
            PROVE  /\ trace'[k].even
                   /\ averaging /\ scan_after_dirty < MaxScans =>
                        trace'[k].n = IF k <= point THEN scan_after_dirty
                                      ELSE scan_after_dirty - 1
        <4>1. CASE k = point BY <1>3, <1>5, <3>2, <4>1
        <4>2. CASE k # point
          <5>1. Full(k, IF k < point THEN scan_after_dirty ELSE scan_after_dirty - 1) BY <3>1
          <5>2. k < point <=> k <= point BY <1>5, <4>2
          <5> QED BY <1>3, <4>2, <5>1, <5>2 DEF Full
        <4> QED BY <4>1, <4>2
      <3>4. ASSUME pc' = "measure", NEW k \in Indices
            PROVE  Full(k, IF k < point THEN scan_after_dirty ELSE scan_after_dirty - 1)'
        <4>1. k < point' <=> k <= point BY <1>p, <1>5, <3>4
        <4> QED BY <1>1, <3>3, <4>1 DEF Full
      <3>5. ASSUME pc' = "measured", NEW k \in Indices PROVE Full(k, scan_after_dirty)'
        <4>1. k <= point BY <1>p, <1>5, <3>5
        <4> QED BY <1>1, <3>3, <4>1 DEF Full
      <3> QED BY <1>1, <1>s, <2>3, <3>1, <3>4, <3>5 DEF EvenInv
    <2> QED BY <2>2, <2>3
  <1> QED BY <1>6, <1>7, <1>8, <1>9 DEF SweepInv

LEMMA SweepStep == SweepInv /\ [Next]_sweepVars => SweepInv'
  <1> SUFFICES ASSUME SweepInv, [Next]_sweepVars PROVE SweepInv' OBVIOUS
  <1>1. CASE UNCHANGED sweepVars
    BY <1>1 DEF SweepInv, TypeOK, AtFirst, OwnInv, EvenInv, Undisturbed, Full, sweepVars
  <1>2. CASE Next
    BY <1>2, ServeKeeps, LoadKeeps, RestKeeps, FirstKeeps, CountKeeps, DisturbedKeeps,
       FinishKeeps, MeasureKeeps DEF Next, SweepThread
  <1> QED BY <1>1, <1>2

LEMMA SweepInvariant == Spec => []SweepInv
  BY SweepInit, SweepStep, PTL DEF Spec

\* Once the first pass is over, no point holds or averages a sample of an earlier
\* calculation (sa_core.c:3697, 5606, 5780).
THEOREM AlwaysHoldsOwnSamples == Spec => []HoldsOwnSamples
  <1>1. SweepInv => HoldsOwnSamples BY DEF SweepInv, OwnInv, HoldsOwnSamples
  <1> QED BY <1>1, SweepInvariant, PTL

\* In AV_100 the samples of a point weigh alike until a scan is aborted or repeated
\* (sa_core.c:3820-3823, 5640).
THEOREM AlwaysAverageIsMean == Spec => []AverageIsMean
  <1>1. ASSUME SweepInv PROVE AverageIsMean
    <2> SUFFICES ASSUME Undisturbed, ~scandirty, NEW k \in Indices PROVE trace[k].even
      BY DEF AverageIsMean, Undisturbed
    <2>1. CASE pc = "measure" BY <1>1, <2>1 DEF SweepInv, EvenInv, Full
    <2>2. CASE pc # "measure" BY <1>1, <2>2 DEF SweepInv, EvenInv, Full
    <2> QED BY <2>1, <2>2
  <1> QED BY <1>1, SweepInvariant, PTL

-----------------------------------------------------------------------------
(***************************************************************************)
(* The adder of FrequencyDda computes the legacy grid for every request.    *)
(* After k steps it holds the quotient and the remainder of the division    *)
(* that the legacy formula makes for point k; one step adds the remainder   *)
(* of the span, which carries at most once (AddCarries).                    *)
(***************************************************************************)

\* the dividend of the legacy formula at point k
Dividend(r, k) == FirstError(r) + Remainder(r) * k

\* the points the adder has stepped over: the last call does not step
Steps == IF index < request.point_count THEN index ELSE request.point_count - 1

Grid(r, k) == r.start_hz + WholeStep(r) * k + Dividend(r, k) \div Denominator(r)

\* What the fields hold between two calls.
GridInv ==
  /\ request \in Requests
  /\ index \in 0..request.point_count
  /\ current_hz = Grid(request, Steps)
  /\ error = Dividend(request, Steps) % Denominator(request)
  /\ index > 0 => frequency_hz = Grid(request, index - 1)
  /\ index = 0 => frequency_hz = request.start_hz

\* The fields init computes from a request.
LEMMA Fields ==
  ASSUME NEW r \in Requests
  PROVE  /\ r.start_hz \in Nat /\ r.stop_hz \in Nat
         /\ r.point_count \in Nat /\ r.point_count >= 1
         /\ Denominator(r) \in Nat /\ Denominator(r) >= 1
         /\ WholeStep(r) \in Nat
         /\ Remainder(r) \in 0..(Denominator(r) - 1)
         /\ FirstError(r) \in 0..(Denominator(r) - 1)
  <1>1. /\ r.start_hz \in Nat /\ r.stop_hz \in Nat /\ r.start_hz <= r.stop_hz
        /\ r.point_count \in Nat /\ r.point_count >= 1
    BY DdaAssumption DEF Requests
  <1>2. CASE r.point_count = 1
    BY <1>1, <1>2 DEF Denominator, WholeStep, Remainder, FirstError
  <1>3. CASE r.point_count > 1
    <2> DEFINE d == r.point_count - 1
               span == r.stop_hz - r.start_hz
    <2>1. d \in Nat /\ d >= 1 /\ span \in Nat BY <1>1, <1>3
    <2>2. span \div d \in Nat /\ span % d \in 0..(d - 1) /\ d \div 2 \in 0..(d - 1)
      BY <2>1
    <2> QED BY <1>1, <1>3, <2>1, <2>2
            DEF Denominator, WholeStep, Remainder, FirstError, Delta
  <1> QED BY <1>1, <1>2, <1>3

\* The dividend is a natural number and grows by the remainder.
LEMMA DividendStep ==
  ASSUME NEW r \in Requests, NEW k \in Nat
  PROVE  /\ Dividend(r, k) \in Nat
         /\ Dividend(r, k + 1) = Dividend(r, k) + Remainder(r)
         /\ WholeStep(r) * (k + 1) = WholeStep(r) * k + WholeStep(r)
  <1>1. /\ FirstError(r) \in Nat /\ Remainder(r) \in Nat /\ WholeStep(r) \in Nat
    BY Fields
  <1>2. Remainder(r) * k \in Nat /\ Remainder(r) * (k + 1) = Remainder(r) * k + Remainder(r)
    BY <1>1
  <1>3. WholeStep(r) * (k + 1) = WholeStep(r) * k + WholeStep(r) BY <1>1
  <1> QED BY <1>1, <1>2, <1>3 DEF Dividend

\* Point 0 is the start.
LEMMA GridStart ==
  ASSUME NEW r \in Requests
  PROVE  /\ Grid(r, 0) = r.start_hz
         /\ Dividend(r, 0) % Denominator(r) = FirstError(r)
  <1>1. /\ r.start_hz \in Nat /\ WholeStep(r) \in Nat /\ Remainder(r) \in Nat
        /\ Denominator(r) \in Nat /\ Denominator(r) >= 1
        /\ FirstError(r) \in 0..(Denominator(r) - 1)
    BY Fields
  <1>2. Dividend(r, 0) = FirstError(r) BY <1>1 DEF Dividend
  <1>3. /\ FirstError(r) \div Denominator(r) = 0
        /\ FirstError(r) % Denominator(r) = FirstError(r)
    BY <1>1
  <1> QED BY <1>1, <1>2, <1>3 DEF Grid

\* One more step adds the whole step, and 1 when the remainder carries.
LEMMA GridStep ==
  ASSUME NEW r \in Requests, NEW k \in Nat
  PROVE  LET d == Denominator(r)
             sum == (Dividend(r, k) % d) + Remainder(r)
         IN /\ sum >= d => /\ Dividend(r, k + 1) % d = sum - d
                           /\ Grid(r, k + 1) = Grid(r, k) + WholeStep(r) + 1
            /\ ~(sum >= d) => /\ Dividend(r, k + 1) % d = sum
                              /\ Grid(r, k + 1) = Grid(r, k) + WholeStep(r)
  <1> DEFINE d == Denominator(r)
             x == Dividend(r, k)
             y == Remainder(r)
             w == WholeStep(r) * k
  <1>1. /\ r.start_hz \in Nat /\ WholeStep(r) \in Nat
        /\ d \in Nat /\ d >= 1 /\ y \in 0..(d - 1)
    BY Fields
  <1>2. /\ x \in Nat /\ Dividend(r, k + 1) = x + y
        /\ WholeStep(r) * (k + 1) = w + WholeStep(r)
    BY DividendStep
  <1>3. w \in Nat BY <1>1
  <1>4. /\ Grid(r, k) = r.start_hz + w + x \div d
        /\ Grid(r, k + 1) = r.start_hz + (w + WholeStep(r)) + (x + y) \div d
    BY <1>2 DEF Grid
  <1> HIDE DEF d, x, y, w
  <1>5. /\ x \div d \in Int /\ x % d \in Int
        /\ (x + y) \div d \in Int /\ (x + y) % d \in Int
    BY <1>1, <1>2
  <1>6. CASE (x % d) + y >= d
    <2>1. (x + y) \div d = x \div d + 1 /\ (x + y) % d = (x % d) + y - d
      BY <1>1, <1>2, <1>6, AddCarries
    <2>2. Grid(r, k + 1) = Grid(r, k) + WholeStep(r) + 1
      BY <1>1, <1>3, <1>4, <1>5, <2>1
    <2> QED BY <1>1, <1>2, <1>5, <1>6, <2>1, <2>2 DEF d, x, y
  <1>7. CASE ~((x % d) + y >= d)
    <2>1. (x + y) \div d = x \div d /\ (x + y) % d = (x % d) + y
      BY <1>1, <1>2, <1>7, AddCarries
    <2>2. Grid(r, k + 1) = Grid(r, k) + WholeStep(r)
      BY <1>1, <1>3, <1>4, <1>5, <2>1
    <2> QED BY <1>2, <1>7, <2>1, <2>2 DEF d, x, y
  <1> QED BY <1>6, <1>7 DEF d, x, y

\* The state after the first zs407_frequency_dda_init satisfies the invariant.
THEOREM GridInitially == DdaInit => GridInv
  <1> SUFFICES ASSUME DdaInit PROVE GridInv OBVIOUS
  <1>1. request \in Requests /\ request.point_count >= 1 /\ request.point_count \in Nat
    BY Fields DEF DdaInit
  <1>2. Steps = 0 BY <1>1 DEF DdaInit, Steps
  <1> QED BY <1>1, <1>2, GridStart DEF DdaInit, GridInv

\* A new request and a call of zs407_frequency_dda_next both preserve it.
THEOREM GridPreserved == GridInv /\ [DdaNext]_ddaVars => GridInv'
  <1> SUFFICES ASSUME GridInv, [DdaNext]_ddaVars PROVE GridInv' OBVIOUS
  <1>1. CASE Restart
    <2>1. /\ request' \in Requests /\ request'.point_count >= 1
          /\ request'.point_count \in Nat
      BY <1>1, Fields DEF Restart
    <2>2. Steps' = 0 BY <1>1, <2>1 DEF Restart, Steps
    <2> QED BY <1>1, <2>1, <2>2, GridStart DEF Restart, GridInv
  <1>2. CASE NextPoint
    <2> DEFINE r == request
               k == index
               d == Denominator(request)
               sum == error + Remainder(request)
    <2>1. /\ r \in Requests /\ r' = r /\ k \in Nat /\ k < r.point_count
          /\ index' = k + 1 /\ Steps = k
          /\ current_hz = Grid(r, k) /\ error = Dividend(r, k) % d
          /\ frequency_hz' = current_hz
      BY <1>2, Fields DEF NextPoint, GridInv, Steps
    <2>2. /\ r.start_hz \in Nat /\ WholeStep(r) \in Nat
          /\ d \in Nat /\ d >= 1 /\ Remainder(r) \in 0..(d - 1)
          /\ r.point_count \in Nat
      BY <2>1, Fields
    <2>3. index' \in 0..request'.point_count /\ request' \in Requests
      BY <2>1, <2>2
    <2>4. frequency_hz' = Grid(request', index' - 1) /\ index' > 0
      BY <2>1
    <2>5. CASE index' < r.point_count
      <3>1. Steps' = k + 1 BY <2>1, <2>5 DEF Steps
      <3>2. CASE sum >= d
        <4>1. error' = sum - d /\ current_hz' = current_hz + WholeStep(r) + 1
          BY <1>2, <2>1, <2>5, <3>2 DEF NextPoint, Carries
        <4>2. error' = Dividend(r, k + 1) % d /\ current_hz' = Grid(r, k + 1)
          BY <2>1, <3>2, <4>1, GridStep
        <4> QED BY <2>1, <2>3, <2>4, <3>1, <4>2 DEF GridInv
      <3>3. CASE ~(sum >= d)
        <4>1. error' = sum /\ current_hz' = current_hz + WholeStep(r)
          BY <1>2, <2>1, <2>5, <3>3 DEF NextPoint, Carries
        <4>2. error' = Dividend(r, k + 1) % d /\ current_hz' = Grid(r, k + 1)
          BY <2>1, <3>3, <4>1, GridStep
        <4> QED BY <2>1, <2>3, <2>4, <3>1, <4>2 DEF GridInv
      <3> QED BY <3>2, <3>3
    <2>6. CASE ~(index' < r.point_count)
      <3>1. Steps' = k BY <2>1, <2>2, <2>6 DEF Steps
      <3>2. UNCHANGED <<error, current_hz>> BY <1>2, <2>6 DEF NextPoint
      <3> QED BY <2>1, <2>3, <2>4, <3>1, <3>2 DEF GridInv
    <2> QED BY <2>5, <2>6
  <1>3. CASE UNCHANGED ddaVars
    BY <1>3 DEF ddaVars, GridInv, Steps
  <1> QED BY <1>1, <1>2, <1>3 DEF DdaNext

\* The grid of the adder is that of getFrequency.
LEMMA GridIsLegacy ==
  ASSUME NEW r \in Requests, r.point_count > 1, NEW i \in Nat
  PROVE  Grid(r, i) = Legacy(r, i)
  BY DEF Grid, Legacy, Dividend, WholeStep, Remainder, FirstError, Denominator

\* Every frequency the adder ever answers, for any request and after any
\* number of restarts, is the one getFrequency computes by division
\* (zs407_core.c:29, main.c:1833).
THEOREM AnswersMatchLegacy == DdaSpec => []MatchesLegacy
  <1>1. GridInv => MatchesLegacy
    <2> SUFFICES ASSUME GridInv, request.point_count > 1, index > 0
                 PROVE  frequency_hz = Legacy(request, index - 1)
      BY DEF MatchesLegacy
    <2>1. request \in Requests /\ index - 1 \in Nat BY Fields DEF GridInv
    <2> QED BY <2>1, GridIsLegacy DEF GridInv
  <1> QED BY <1>1, GridInitially, GridPreserved, PTL DEF DdaSpec

\* What is left of the distance to the line is the rounding of the quotient.
LEMMA OffTheLine ==
  \A s, w, k, m, q, d, e, x \in Int :
    x = e + m * k =>
      (s + w * k + q) * d - (s * d + k * (w * d + m)) = e - (x - d * q)
  <1> SUFFICES ASSUME NEW s \in Int, NEW w \in Int, NEW k \in Int, NEW m \in Int,
                      NEW q \in Int, NEW d \in Int, NEW e \in Int
               PROVE  (s + w * k + q) * d - (s * d + k * (w * d + m)) = e - (e + m * k - d * q)
    BY Z3
  <1>1. (s + w * k + q) * d = s * d + (w * k) * d + q * d BY Z3
  <1>2. k * (w * d + m) = (w * k) * d + m * k BY Z3
  <1>3. s * d \in Int /\ (w * k) * d \in Int /\ q * d \in Int /\ m * k \in Int /\ q * d = d * q BY Z3
  <1> QED BY <1>1, <1>2, <1>3

\* A point of the grid is the nearest to the line from the start of the request to its end.
LEMMA GridNearest ==
  ASSUME NEW r \in Requests, r.point_count > 1, NEW k \in Nat
  PROVE  LET d == Denominator(r)
             off == Grid(r, k) * d - (r.start_hz * d + k * Delta(r))
         IN 2 * off <= d /\ -d <= 2 * off
  <1> DEFINE d == Denominator(r)
             w == WholeStep(r)
             m == Remainder(r)
             e == FirstError(r)
             x == Dividend(r, k)
             q == x \div d
             off == Grid(r, k) * d - (r.start_hz * d + k * Delta(r))
  <1>1. /\ r.start_hz \in Int /\ d \in Nat /\ d >= 1 /\ w \in Nat /\ m \in Nat /\ e \in Nat
        /\ Delta(r) \in Nat
    BY Fields, DdaAssumption DEF Requests, Delta
  <1>2. x \in Nat /\ x = e + m * k BY DividendStep DEF Dividend
  <1>3. w = Delta(r) \div d /\ m = Delta(r) % d /\ e = d \div 2
    BY <1>1 DEF WholeStep, Remainder, FirstError, Denominator
  <1>4. Grid(r, k) = r.start_hz + w * k + q BY DEF Grid
  <1> HIDE DEF d, w, m, e, x
  <1>5. Delta(r) = w * d + m
    <2>1. Delta(r) = d * w + m BY <1>1, <1>3, DivMod
    <2> QED BY <1>1, <2>1
  <1>6. q \in Int /\ x - d * q \in 0..(d - 1) BY <1>1, <1>2, DivMod
  <1>7. 2 * e <= d /\ d - 1 <= 2 * e BY <1>1, <1>3
  <1> HIDE DEF q
  <1>8. off = e - (x - d * q)
    <2>1. off = (r.start_hz + w * k + q) * d - (r.start_hz * d + k * (w * d + m))
      BY <1>4, <1>5
    <2> QED BY <1>1, <1>2, <1>6, <2>1, OffTheLine
  <1> HIDE DEF off
  <1>9. \A u \in 0..(d - 1) : 2 * (e - u) <= d /\ -d <= 2 * (e - u) BY <1>1, <1>7
  <1>10. 2 * off <= d /\ -d <= 2 * off BY <1>6, <1>8, <1>9
  <1> QED BY <1>10 DEF off, d

\* Every answer of the adder is the whole hertz nearest to the line from the start to the
\* stop of the request, for any request and after any number of restarts
\* (zs407_core.c:29, 44-49).
THEOREM AnswersNearestHertz == DdaSpec => []Nearest
  <1>1. GridInv => Nearest
    <2> SUFFICES ASSUME GridInv, request.point_count > 1, index > 0 PROVE Nearest
      BY DEF Nearest
    <2>1. request \in Requests /\ index - 1 \in Nat /\ frequency_hz = Grid(request, index - 1)
      BY Fields DEF GridInv
    <2> QED BY <2>1, GridNearest DEF Nearest
  <1> QED BY <1>1, GridInitially, GridPreserved, PTL DEF DdaSpec

-----------------------------------------------------------------------------
(***************************************************************************)
(* What waitscan waits for, where the shell never runs between a load of the  *)
(* sweep thread and its store.  The scans still asked for and those that ended *)
(* make up the argument but for one, the sweep that was already under way       *)
(* (Counted); what the thread holds is what it will store (Booked).             *)
(***************************************************************************)

\* The thread stores a change of what is there.
Booked ==
  /\ sweepPc = "store count" => held = {sweep_once_count - 1} /\ sweep_once_count > 1
  /\ sweepPc = "store once" => held = sweep_mode \ {"once"}
  /\ sweepPc = "store ui" => held = sweep_mode \union {"ui"}
  /\ sweepPc = "leave ui" => held = sweep_mode \ {"ui"}

Counted ==
  shellPc = "polling" =>
    /\ count - sweep_once_count <= ended + 1
    /\ sweepPc \in {"count", "store count"} => count - sweep_once_count <= ended
    /\ sweepPc = "store once" => count <= ended + 1
    /\ "once" \in sweep_mode \/ count <= ended + 1

WaitTypes ==
  /\ sweep_once_count \in Nat /\ count \in 0 .. MaxWaited /\ ended \in Nat

WaitInv == WaitTypes /\ Booked /\ Counted

LEMMA WaitInitially == Wait!Init => WaitInv
  <1> SUFFICES ASSUME Wait!Init PROVE WaitInv OBVIOUS
  <1>1. WaitTypes BY WaitScanAssumption DEF Wait!Init, WaitTypes
  <1>2. Booked /\ Counted BY DEF Wait!Init, Booked, Counted
  <1> QED BY <1>1, <1>2 DEF WaitInv

\* The count of ended sweeps is right as long as it matters.
LEMMA CappedFacts ==
  ASSUME NEW n \in Nat
  PROVE  /\ Wait!Capped(n) \in Nat
         /\ Wait!Capped(n) = n \/ Wait!Capped(n) = MaxWaited + 1
  <1> DEFINE S == {n, MaxWaited + 1}
  <1>1. MaxWaited + 1 \in Nat BY WaitScanAssumption
  <1>2. \E x \in S : \A y \in S : x =< y
    <2>1. n =< MaxWaited + 1 \/ MaxWaited + 1 =< n BY <1>1
    <2>2. n =< n /\ MaxWaited + 1 =< MaxWaited + 1 BY <1>1
    <2> QED BY <2>1, <2>2
  <1>3. Wait!Capped(n) = CHOOSE x \in S : \A y \in S : x =< y
    BY DEF Wait!Capped, Wait!Min
  <1>4. Wait!Capped(n) \in S BY <1>2, <1>3
  <1> QED BY <1>1, <1>4

\* Steps of the shell, of a button and of the console, which find the thread between its
\* changes, and those of the thread that change nothing of the two variables.
LEMMA OthersKeep ==
  ASSUME ~Between, WaitInv,
         \/ \E n \in 0 .. MaxWaited : Wait!CmdWaitScan(n)
         \/ Wait!Return \/ Wait!Press \/ Wait!Decide
         \/ Wait!CmdPause \/ Wait!CmdResume
         \/ \E n \in 0 .. MaxWaited : Wait!CmdResumeOnce(n)
         \/ Wait!ToggleSweep
  PROVE  WaitInv'
  <1>0. MaxWaited \in Nat /\ WaitTypes /\ Booked /\ Counted BY WaitScanAssumption DEF WaitInv
  <1>1. ASSUME NEW n \in 0 .. MaxWaited, Wait!CmdWaitScan(n) PROVE WaitInv'
    <2>1. /\ sweep_once_count' = n /\ count' = n /\ ended' = 0 /\ "once" \in sweep_mode'
          /\ sweepPc' = sweepPc
          /\ sweepPc \notin {"store count", "store once", "store ui", "leave ui"}
      BY <1>1 DEF Wait!CmdWaitScan, Wait!ShellRuns, Wait!Storing
    <2>2. n \in Nat BY <1>0
    <2>3. WaitTypes' BY <2>1, <2>2 DEF WaitTypes
    <2>4. Booked' BY <2>1 DEF Booked
    <2>5. count' - sweep_once_count' <= ended' /\ count' - sweep_once_count' <= ended' + 1
      <3>1. \A c, s, e : c = n /\ s = n /\ e = 0 => c - s <= e /\ c - s <= e + 1 BY <2>2
      <3> QED BY <2>1, <3>1
    <2>6. Counted' BY <2>1, <2>5 DEF Counted
    <2> QED BY <2>3, <2>4, <2>6 DEF WaitInv
  <1>2. ASSUME Wait!Return \/ Wait!Press PROVE WaitInv'
    <2>1. /\ UNCHANGED <<sweep_mode, sweep_once_count, count, sweepPc, held, ended>>
          /\ shellPc' = "polling" => shellPc = "polling"
      BY <1>2 DEF Wait!Return, Wait!Press, Wait!modes, Wait!history
    <2> QED BY <1>0, <2>1 DEF WaitInv, WaitTypes, Booked, Counted
  <1>3. ASSUME Wait!Decide PROVE WaitInv'
    <2>1. /\ UNCHANGED <<sweep_mode, sweep_once_count, count, shellPc, held, ended>>
          /\ sweepPc' \in {"command", "sweep"}
      BY <1>3 DEF Wait!Decide, Wait!modes, Wait!history
    <2> QED BY <1>0, <2>1 DEF WaitInv, WaitTypes, Booked, Counted
  <1>4. ASSUME \/ Wait!CmdPause \/ Wait!CmdResume
               \/ \E n \in 0 .. MaxWaited : Wait!CmdResumeOnce(n)
        PROVE  WaitInv'
    <2>1. /\ UNCHANGED <<count, ended>> /\ sweep_once_count' \in Nat
          /\ sweepPc' = "command" /\ shellPc' = "idle"
      BY <1>0, <1>4 DEF Wait!CmdPause, Wait!CmdResume, Wait!CmdResumeOnce, Wait!history, WaitTypes
    <2> QED BY <1>0, <2>1 DEF WaitInv, WaitTypes, Booked, Counted
  <1>5. ASSUME Wait!ToggleSweep PROVE WaitInv'
    <2>1. /\ UNCHANGED <<sweep_once_count, count, shellPc, ended>> /\ sweepPc' = "ui"
          /\ "once" \in sweep_mode' <=> "once" \in sweep_mode
      BY <1>5 DEF Wait!ToggleSweep
    <2> QED BY <1>0, <2>1 DEF WaitInv, WaitTypes, Booked, Counted
  <1> QED BY <1>1, <1>2, <1>3, <1>4, <1>5

LEMMA ThreadKeeps ==
  ASSUME ~Between, WaitInv, Wait!SweepStep
  PROVE  WaitInv'
  <1>0. MaxWaited \in Nat /\ WaitTypes /\ Booked /\ Counted BY WaitScanAssumption DEF WaitInv
  <1>t. sweep_once_count \in Nat /\ count \in Nat /\ count <= MaxWaited /\ ended \in Nat
    BY <1>0 DEF WaitTypes
  <1>1. ASSUME Wait!SweepEnds PROVE WaitInv'
    <2>1. /\ UNCHANGED <<sweep_mode, sweep_once_count, count, shellPc, held>>
          /\ sweepPc' = "count" /\ ended' = Wait!Capped(ended + 1)
      BY <1>1 DEF Wait!SweepEnds, Wait!modes
    <2>2. ended' \in Nat /\ (ended' = ended + 1 \/ ended' = MaxWaited + 1)
      BY <1>t, <2>1, CappedFacts
    <2>3. WaitTypes' BY <1>0, <2>1, <2>2 DEF WaitTypes
    <2>4. Booked' BY <2>1 DEF Booked
    <2>5. ASSUME shellPc = "polling"
          PROVE  /\ count - sweep_once_count <= ended'
                 /\ "once" \in sweep_mode \/ count <= ended' + 1
      <3>1. count - sweep_once_count <= ended + 1 /\ ("once" \in sweep_mode \/ count <= ended + 1)
        BY <1>0, <2>5 DEF Counted
      <3>2. \A c, s, e, f, m \in Nat :
              c <= m /\ c - s <= e + 1 /\ (f = e + 1 \/ f = m + 1) =>
                c - s <= f /\ (c <= e + 1 => c <= f + 1)
        OBVIOUS
      <3>3. count - sweep_once_count <= ended' /\ (count <= ended + 1 => count <= ended' + 1)
        BY <1>0, <1>t, <2>2, <3>1, <3>2
      <3> QED BY <3>1, <3>3
    <2>6. Counted'
      <3>1. ASSUME shellPc = "polling" PROVE count - sweep_once_count <= ended' + 1
        <4>1. count - sweep_once_count <= ended' BY <2>5, <3>1
        <4>2. \A c, s, f \in Nat : c - s <= f => c - s <= f + 1 OBVIOUS
        <4> QED BY <1>t, <2>2, <4>1, <4>2
      <3> QED BY <2>1, <2>5, <3>1 DEF Counted
    <2> QED BY <2>3, <2>4, <2>6 DEF WaitInv
  <1>2. ASSUME Wait!LoadCount PROVE WaitInv'
    <2>1. /\ UNCHANGED <<sweep_mode, sweep_once_count, count, shellPc, ended>> /\ sweepPc = "count"
          /\ \/ sweep_once_count > 1 /\ held' = {sweep_once_count - 1} /\ sweepPc' = "store count"
             \/ ~(sweep_once_count > 1) /\ held' = sweep_mode \ {"once"} /\ sweepPc' = "store once"
      BY <1>2 DEF Wait!LoadCount, Wait!modes, Wait!history
    <2>2. WaitTypes' BY <1>0, <2>1 DEF WaitTypes
    <2>3. Booked' BY <2>1 DEF Booked
    <2>4. shellPc = "polling" /\ ~(sweep_once_count > 1) => count <= ended + 1
      <3>1. shellPc = "polling" => count - sweep_once_count <= ended BY <1>0, <2>1 DEF Counted
      <3> QED BY <1>t, <3>1
    <2>5. Counted' BY <1>0, <2>1, <2>4 DEF Counted
    <2> QED BY <2>2, <2>3, <2>5 DEF WaitInv
  <1>3. ASSUME Wait!StoreCount PROVE WaitInv'
    <2>1. /\ UNCHANGED <<sweep_mode, count, shellPc, ended>> /\ sweepPc' = "command"
          /\ sweep_once_count' = sweep_once_count - 1 /\ sweep_once_count > 1
          /\ sweepPc = "store count"
      <3>1. held = {sweep_once_count - 1} /\ sweep_once_count > 1
        BY <1>0, <1>3 DEF Wait!StoreCount, Booked
      <3>2. \E n \in held : sweep_once_count' = n BY <1>3 DEF Wait!StoreCount
      <3>3. sweep_once_count' = sweep_once_count - 1 BY <3>1, <3>2
      <3>4. UNCHANGED <<sweep_mode, count, shellPc, ended>>
        BY <1>3 DEF Wait!StoreCount, Wait!history
      <3>5. sweepPc = "store count" /\ sweepPc' = "command" BY <1>3 DEF Wait!StoreCount
      <3> QED BY <3>1, <3>3, <3>4, <3>5
    <2>2. WaitTypes'
      <3>1. \A n \in Nat : n > 1 => n - 1 \in Nat OBVIOUS
      <3>2. sweep_once_count - 1 \in Nat BY <1>t, <2>1, <3>1
      <3> QED BY <1>0, <2>1, <3>2 DEF WaitTypes
    <2>3. Booked' BY <2>1 DEF Booked
    <2>4. shellPc = "polling" => count - (sweep_once_count - 1) <= ended + 1
      <3>1. shellPc = "polling" => count - sweep_once_count <= ended BY <1>0, <2>1 DEF Counted
      <3> QED BY <1>t, <3>1
    <2>5. Counted' BY <1>0, <2>1, <2>4 DEF Counted
    <2> QED BY <2>2, <2>3, <2>5 DEF WaitInv
  <1>4. ASSUME Wait!StoreOnce PROVE WaitInv'
    <2>1. /\ UNCHANGED <<sweep_once_count, count, shellPc, ended>> /\ sweepPc' = "command"
          /\ sweepPc = "store once"
      BY <1>4 DEF Wait!StoreOnce, Wait!history
    <2> QED BY <1>0, <2>1 DEF WaitInv, WaitTypes, Booked, Counted
  <1>5. ASSUME Wait!EnterUi \/ Wait!LeaveUi PROVE WaitInv'
    <2>1. /\ UNCHANGED <<sweep_mode, sweep_once_count, count, shellPc, ended>>
          /\ \/ sweepPc' = "store ui" /\ held' = sweep_mode \union {"ui"}
             \/ sweepPc' = "leave ui" /\ held' = sweep_mode \ {"ui"}
      BY <1>5 DEF Wait!EnterUi, Wait!LeaveUi, Wait!modes, Wait!history
    <2> QED BY <1>0, <2>1 DEF WaitInv, WaitTypes, Booked, Counted
  <1>6. ASSUME Wait!StoreUi \/ Wait!StoreNoUi PROVE WaitInv'
    <2>1. /\ UNCHANGED <<sweep_once_count, count, shellPc, ended>> /\ sweepPc' \in {"ui", "decide"}
          /\ "once" \in sweep_mode' <=> "once" \in sweep_mode
      BY <1>0, <1>6 DEF Wait!StoreUi, Wait!StoreNoUi, Wait!history, Booked
    <2> QED BY <1>0, <2>1 DEF WaitInv, WaitTypes, Booked, Counted
  <1>7. Wait!Decide => WaitInv' BY OthersKeep
  <1> QED BY <1>1, <1>2, <1>3, <1>4, <1>5, <1>6, <1>7 DEF Wait!SweepStep

\* When waitscan returns, and no button broke it, as many sweeps as were asked for have
\* ended, but for one that was under way (main.c:239-262, 575-577): a flag is lost only
\* where the shell may run between a load of the sweep thread and its store.
THEOREM WaitScanWaits == ASSUME ~Between PROVE Wait!Spec => WaitedForSweeps
  <1>1. WaitInv /\ [Wait!Next]_Wait!vars => WaitInv'
    <2> SUFFICES ASSUME WaitInv, [Wait!Next]_Wait!vars PROVE WaitInv' OBVIOUS
    <2>1. CASE Wait!Next BY <2>1, OthersKeep, ThreadKeeps DEF Wait!Next
    <2>2. CASE UNCHANGED Wait!vars
      <3>1. UNCHANGED <<sweep_mode, sweep_once_count, shellPc, count, sweepPc, held, ended>>
        BY <2>2 DEF Wait!vars, Wait!modes, Wait!history
      <3> QED BY <3>1 DEF WaitInv, WaitTypes, Booked, Counted
    <2> QED BY <2>1, <2>2
  <1>2. WaitInv /\ Wait!Return /\ ~break_execute => ended + 1 >= count
    <2> SUFFICES ASSUME WaitInv, Wait!Return, ~break_execute PROVE ended + 1 >= count OBVIOUS
    <2>1. shellPc = "polling" /\ "once" \notin sweep_mode
      BY DEF Wait!Return, Wait!Paused
    <2>2. count <= ended + 1 BY <2>1 DEF WaitInv, Counted
    <2>3. count \in Nat /\ ended \in Nat BY WaitScanAssumption DEF WaitInv, WaitTypes
    <2> QED BY <2>2, <2>3
  <1>3. WaitInv => [Wait!Return /\ ~break_execute => ended + 1 >= count]_Wait!vars BY <1>2
  <1> QED BY WaitInitially, <1>1, <1>3, PTL DEF Wait!Spec, WaitedForSweeps, Wait!WaitedForSweeps
=============================================================================
