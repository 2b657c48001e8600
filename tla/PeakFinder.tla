----------------------------- MODULE PeakFinder -----------------------------
(***************************************************************************)
(* Peak finding of sa_core.c: add_to_peak_finding sees the points of a trace *)
(* one by one after a sweep, search_maximum those of a window around a        *)
(* frequency.  Both walk down and up the slopes, ignore what stays within the  *)
(* noise, and keep the highest peaks in a sorted table, which places markers.  *)
(***************************************************************************)
EXTENDS Integers, FiniteSets, SequencesExt

CONSTANTS sweep_points,
          Traces,        \* the traces there can be, functions from points to levels
          noise,         \* setting.noise
          MAX_MAX,       \* length of the table, the number of markers
          Searches       \* the windows search_maximum is called with

VARIABLES
  measured,
  walk,                  \* the walk's window, and the end of the points that restart it
  point,                 \* the next point
  maxima,                \* max_index[0 .. cur_max - 1]
  temppeakIndex, downslope,
  peak_finding_index,
  tracking,              \* the markers with M_TRACKING on this trace
  index                  \* markers[m].index

peakVars == <<measured, walk, point, maxima, temppeakIndex, downslope, peak_finding_index,
              tracking, index>>

Points == 0 .. sweep_points - 1
Markers == 1 .. MAX_MAX

\* After a sweep the whole trace, restarted at each point below 200 times the RBW.
SweepWalks == [search : {FALSE}, from : {0}, to : {sweep_points - 1}, near : 0 .. 2]
SearchWalks == [search : {TRUE}, from : Searches, to : Searches, near : {0}]
Walks == SweepWalks \union {w \in SearchWalks : w.from < w.to}

Init ==
  /\ measured \in Traces
  /\ walk \in Walks
  /\ point = walk.from /\ maxima = <<>>
  /\ temppeakIndex = walk.from /\ downslope = TRUE /\ peak_finding_index = walk.from
  /\ tracking = {}
  /\ index = [m \in Markers |-> 0]

-----------------------------------------------------------------------------
\* The walk as it stands when a point comes in: begun again with the first point of
\* the trace, for the points around zero hertz.
Begun ==
  IF point = walk.from \/ point < walk.near
  THEN [maxima |-> <<>>, last |-> walk.from, down |-> TRUE, highest |-> walk.from]
  ELSE [maxima |-> maxima, last |-> temppeakIndex, down |-> downslope,
        highest |-> peak_finding_index]

Level(k) == measured[k]

\* The new peak goes in front of equal ones.
PlaceFirst(peaks, k) ==
  LET lower == {j \in 1 .. Len(peaks) : Level(peaks[j]) <= Level(k)}
  IN IF lower = {} THEN Len(peaks) + 1 ELSE CHOOSE j \in lower : \A l \in lower : j <= l

\* Where a peak goes in the table: in front of the first lower one.
Place(peaks, k) ==
  LET lower == {j \in 1 .. Len(peaks) : Level(peaks[j]) < Level(k)}
  IN IF lower = {} THEN Len(peaks) + 1 ELSE CHOOSE j \in lower : \A l \in lower : j <= l

Inserted(peaks, k) ==
  LET longer == InsertAt(peaks, Place(peaks, k), k)
  IN SubSeq(longer, 1, IF Len(longer) < MAX_MAX THEN Len(longer) ELSE MAX_MAX)

\* One point.
AddPoint ==
  /\ point <= walk.to
  /\ LET b == Begun
         level == Level(point)
         last == Level(b.last)
         peak == ~b.down /\ level < last - noise
     IN /\ downslope' = IF b.down THEN ~(last + noise < level) ELSE peak
        /\ temppeakIndex' = IF \/ b.down /\ (level < last \/ last + noise < level)
                               \/ ~b.down /\ (level > last \/ peak)
                            THEN point ELSE b.last
        /\ maxima' = IF peak THEN Inserted(b.maxima, b.last) ELSE b.maxima
        /\ peak_finding_index' = IF b.maxima = <<>> /\ Level(b.highest) <= level
                                 THEN point ELSE b.highest
  /\ point' = point + 1
  /\ UNCHANGED <<measured, walk, tracking, index>>

\* The next marker takes the next maximum, tracking or not.
AssignedInOrder(ms, peaks) ==
  [m \in Markers |-> IF m \notin ms THEN index[m]
                     ELSE IF m > Len(peaks) THEN 0 ELSE peaks[m]]

\* Each tracking marker takes the next maximum; without one it goes to the left.
Assigned(ms, peaks) ==
  [m \in Markers |->
     LET rank == Cardinality({k \in ms : k <= m})
     IN IF m \notin ms THEN index[m]
        ELSE IF rank > Len(peaks) THEN 0 ELSE peaks[rank]]

\* The trace has been seen; a trace without a peak has its highest point as one.
FinishSweep ==
  /\ point = walk.to + 1 /\ ~walk.search
  /\ maxima' = IF maxima = <<>> THEN <<peak_finding_index>> ELSE maxima
  /\ peak_finding_index' = maxima'[1]
  /\ tracking' \in SUBSET Markers
  /\ index' = Assigned(tracking', maxima')
  /\ point' = point + 1
  /\ UNCHANGED <<measured, walk, temppeakIndex, downslope>>

\* search_maximum moves one marker, to the start of its window if there is no peak.
FinishSearch ==
  /\ point = walk.to + 1 /\ walk.search
  /\ \E m \in Markers :
       index' = [index EXCEPT ![m] = IF maxima = <<>> THEN walk.from ELSE maxima[1]]
  /\ point' = point + 1
  /\ UNCHANGED <<measured, walk, maxima, temppeakIndex, downslope, peak_finding_index, tracking>>

\* The table and the markers stay as they are until the next sweep.
Stays == point = walk.to + 2 /\ UNCHANGED peakVars

Next == AddPoint \/ FinishSweep \/ FinishSearch \/ Stays

Spec == Init /\ [][Next]_peakVars

-----------------------------------------------------------------------------
(* What the markers should show, from the trace alone.                       *)

\* The points that count once the walk has ended: those behind the last restart, and
\* the first one.
Seen ==
  {walk.from} \union (IF walk.near = 0 THEN walk.from ELSE walk.near - 1) .. walk.to

\* A peak is the first highest point between two others that lie more than the noise
\* below it.
IsPeak(p) ==
  \E a, b \in Seen :
    /\ a < p /\ p < b
    /\ Level(a) < Level(p) - noise /\ Level(b) < Level(p) - noise
    /\ \A k \in Seen : a < k /\ k < b => Level(k) <= Level(p)
    /\ \A k \in Seen : a < k /\ k < p => Level(k) < Level(p)

\* Higher, or as high and further to the left.
Before(p, q) == Level(p) > Level(q) \/ (Level(p) = Level(q) /\ p < q)

Peaks == {p \in Seen : IsPeak(p)}
Rank(p) == Cardinality({q \in Peaks : Before(q, p)}) + 1
Highest(p) == \A q \in Seen : Level(q) <= Level(p)

Finished == point = walk.to + 2

\* The n-th tracking marker is on the n-th highest peak, or at the left when there are
\* fewer; without any peak the first one is on a highest point (sa_core.c:3430-3483,
\* 5800-5835; "Always at least one maximum per trace").
MarkersOnPeaks ==
  (Finished /\ ~walk.search) =>
    \A m \in tracking :
      LET rank == Cardinality({k \in tracking : k <= m})
      IN \/ index[m] \in Peaks /\ Rank(index[m]) = rank
         \/ Peaks = {} /\ rank = 1 /\ Highest(index[m])
         \/ rank > Cardinality(Peaks) /\ index[m] = 0

\* A search finds the highest peak of its window, if there is one (sa_core.c:2948-3040).
SearchFindsHighest ==
  (Finished /\ walk.search /\ Peaks # {}) =>
    \E m \in Markers : index[m] \in Peaks /\ Rank(index[m]) = 1
=============================================================================
