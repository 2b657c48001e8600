--------------------------- MODULE SmallMachines ---------------------------
(***************************************************************************)
(* Six small machines for TLC: the correction cursor, the dirty tiles and the   *)
(* bus scheduler of modern/core, the RSSI buffer and the tuner of si4468.c and  *)
(* sa_core.c, and the peak finding of sa_core.c.  They share no state, so       *)
(* instead of their product one of them, any one, runs while the others stay as *)
(* they began.                                                                  *)
(***************************************************************************)
EXTENDS CorrectionCursor, DirtyTiles, BusScheduler

CONSTANTS BufferPoints,
          TracePoints, Traces, noise, MAX_MAX, Searches,
          Crystals, TopFrequency, MaxDivider, LowestOscillator, IntermediateFrequencies,
          TunedPoints, LowestPoints, DirectInput, DirectOutput, LeakedOutput,
          HarmonicStart, Harmonic, ModuloBottom, ModuloInput, ModuloOutput,
          AskedR, AskedModulo, DRIVE1_MAX_FREQ, MAX_COMPENSATION, Tolerance,
          OFFSET_RANGE, OffsetsInARow, Setups

\* A scan of a single point, which the console command of main.c:1464 allows, is left out:
\* it has no middle for a trigger.
ASSUME BufferAssumption == BufferPoints \in Nat /\ BufferPoints >= 2

\* A trace has points and levels, the table of its peaks places.
ASSUME PeakAssumption ==
  /\ TracePoints \in Nat \ {0} /\ Traces \subseteq [0 .. TracePoints - 1 -> Int]
  /\ noise \in Nat /\ MAX_MAX \in Nat \ {0} /\ Searches \subseteq 0 .. TracePoints - 1

\* R and modulus divide, and every R leaves something of the crystal.  The oscillator misses
\* what it is asked for by less than a crystal: that is below all it is asked for, and even
\* its harmonics miss by less than an intermediate frequency (sa_core.c:4360-4410: 30 MHz,
\* 977 MHz).  An output that leaks leaks from some frequency on (sa_core.c:229-237).
ASSUME TunerAssumption ==
  /\ TunedPoints \subseteq Nat /\ IntermediateFrequencies \subseteq Nat /\ Crystals \subseteq Nat
  /\ TopFrequency \in Nat /\ MaxDivider \in Nat /\ LowestOscillator \in Nat
  /\ Harmonic \in Nat \ {0} /\ Tolerance \in Nat /\ MAX_COMPENSATION \in Nat \ {0}
  /\ {ModuloBottom, ModuloInput, ModuloOutput} \subseteq Nat \ {0} /\ AskedModulo \subseteq Nat
  /\ AskedR \subseteq Int
  /\ \A x \in Crystals :
       /\ x >= 4 /\ AskedR \subseteq -x .. x /\ x < LowestOscillator
       /\ \A if \in IntermediateFrequencies : Harmonic * x < if
  /\ \A if \in IntermediateFrequencies : Harmonic * MAX_COMPENSATION < if
  /\ \A leaked \in LeakedOutput, f \in TunedPoints : f > leaked => f \in LeakedOutput

VARIABLES setting, trigger, operation_requested, pc, age, buf_index, buf_end, buf_read,
          fill_i, waiting, data_level, point, spur_second_pass, trace, since, completed,
          measured, walk, walk_point, maxima, temppeakIndex, downslope, peak_finding_index,
          tracking, marker_index,
          max2871, adf, chip, rx, old_freq, real_old_freq, config_30mhz, setting_R, local_modulo,
          setup, dirty, last,
          running    \* the machine that runs

\* Large steps in both directions, small ones, and both ends of int16_t.
SomeCorrections == {-32768, -3, 32767}
\* Rectangles that begin before, on and behind the screen.
SomeCorners == {-3, -1, 0, 1, 3, 7}
SomeSides == {0, 1, 2, 5}
\* Traces that begin and end high or low: slopes, plateaus, several peaks of one height.
SomeTraces == {t \in [0 .. TracePoints - 1 -> 0 .. 3] :
                 t[0] \in {0, 2} /\ t[TracePoints - 1] \in {0, 3}}

\* R as it is chosen, and a doubled crystal divided by three.
SomeR == {0, -3}
\* A sweep from below 25 MHz into the harmonic, past points without mixer; a fast one that
\* begins there, with tracking output; outputs with a leaked point, and with modulation.
SomeSetups ==
  {[mode |-> "input", from |-> 5, to |-> 60, fast |-> FALSE, narrow |-> TRUE,
    fm |-> FALSE, tracking |-> FALSE],
   [mode |-> "input", from |-> 21, to |-> 60, fast |-> TRUE, narrow |-> FALSE,
    fm |-> FALSE, tracking |-> TRUE],
   [mode |-> "output", from |-> 9, to |-> 60, fast |-> FALSE, narrow |-> TRUE,
    fm |-> FALSE, tracking |-> FALSE],
   [mode |-> "output", from |-> 9, to |-> 21, fast |-> FALSE, narrow |-> TRUE,
    fm |-> TRUE, tracking |-> FALSE]}

Rssi == INSTANCE RssiBuffer WITH sweep_points <- BufferPoints, i <- fill_i
Peak == INSTANCE PeakFinder WITH sweep_points <- TracePoints,
                                 point <- walk_point, index <- marker_index
Tune == INSTANCE Tuner WITH Points <- TunedPoints

rssiVars == <<setting, trigger, operation_requested, pc, age, buf_index, buf_end, buf_read,
              fill_i, waiting, data_level, point, spur_second_pass, trace, since,
              completed>>
peakVars == <<measured, walk, walk_point, maxima, temppeakIndex, downslope,
              peak_finding_index, tracking, marker_index>>
tunerVars == <<max2871, adf, chip, rx, old_freq, real_old_freq, config_30mhz, setting_R,
               local_modulo, setup, dirty, last>>
vars == <<cursorVars, tileVars, busVars, rssiVars, peakVars, tunerVars, running>>

AnyTable == [k \in {0} |-> [hz |-> 0, db |-> -3]]
AnyPixel == [x |-> 0, y |-> 0]
AnySetting == [measures |-> "direct", mode |-> "PRE", up |-> 1, decay |-> FALSE,
               spur |-> FALSE]
AnyTrace == [k \in 0 .. TracePoints - 1 |-> 0]
AnySetup == CHOOSE s \in Setups : TRUE
AnyCrystal == CHOOSE f \in Crystals : TRUE
AnyWalk == [search |-> FALSE, from |-> 0, to |-> TracePoints - 1, near |-> 0]

MachinesInit ==
  /\ running \in {"cursor", "tiles", "bus", "rssi", "peaks", "tuner"}
  /\ Init /\ (running # "cursor" => points = AnyTable)
  /\ TilesInit /\ (running # "tiles" => watched = AnyPixel)
  /\ BusInit
  /\ Rssi!Init /\ (running # "rssi" => setting = AnySetting)
  /\ IF running = "peaks" THEN measured \in Traces /\ walk \in Peak!Walks
     ELSE measured = AnyTrace /\ walk = AnyWalk
  /\ Peak!Init
  /\ Tune!Init
  /\ running # "tuner" => max2871 /\ config_30mhz = AnyCrystal /\ setup = AnySetup

MachinesNext ==
  /\ \/ running = "cursor" /\ Next
        /\ UNCHANGED <<tileVars, busVars, rssiVars, peakVars, tunerVars>>
     \/ running = "tiles" /\ TilesNext
        /\ UNCHANGED <<cursorVars, busVars, rssiVars, peakVars, tunerVars>>
     \/ running = "bus" /\ BusNext
        /\ UNCHANGED <<cursorVars, tileVars, rssiVars, peakVars, tunerVars>>
     \/ running = "rssi" /\ Rssi!Next
        /\ UNCHANGED <<cursorVars, tileVars, busVars, peakVars, tunerVars>>
     \/ running = "peaks" /\ Peak!Next
        /\ UNCHANGED <<cursorVars, tileVars, busVars, rssiVars, tunerVars>>
     \/ running = "tuner" /\ Tune!Next
        /\ UNCHANGED <<cursorVars, tileVars, busVars, rssiVars, peakVars>>
  /\ UNCHANGED running

MachinesSpec == MachinesInit /\ [][MachinesNext]_vars

-----------------------------------------------------------------------------
(* The properties of the instances, under names a cfg can give.              *)

\* A completed triggered sweep without spur removal shows consecutive samples, the one that
\* fired where the trigger mode promises it (si4468.c:1993-2062, 2207-2218).
TriggerWindow == Rssi!TriggerWindow

\* The n-th tracking marker is on the n-th highest peak of the trace
\* (sa_core.c:3430-3483, 5800-5835).
MarkersOnPeaks == Peak!MarkersOnPeaks

\* A search finds the highest peak of its window (sa_core.c:2948-3040).
SearchFindsHighest == Peak!SearchFindsHighest

\* What the registers of both chips make together is the frequency of the point, through
\* every order of points and changes, fast scanning apart (sa_core.c:4400-4695).
TunedToPoint == Tune!TunedToPoint

\* The oscillator runs at what the code compensates from (si4468.c:520-583).
OscillatorKnown == Tune!OscillatorKnown
=============================================================================
