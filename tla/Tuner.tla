------------------------------- MODULE Tuner -------------------------------
(***************************************************************************)
(* How perform tunes a point: the local oscillator ADF4351 (or MAX2871) and  *)
(* the receiver SI4468, each behind caches of what was sent to it last        *)
(* (set_freq of sa_core.c, the drivers in si4468.c).  The error of the coarse  *)
(* oscillator is made up by the receiver.                                     *)
(***************************************************************************)
EXTENDS Integers

CONSTANTS Crystals,        \* what config.setting_frequency_30mhz can be
          TopFrequency,    \* above it the output divider is off, half of it divides by two...
          MaxDivider,      \* the last out_div
          LowestOscillator, \* what perform asks for with a choice of the side
          IntermediateFrequencies,
          Points,          \* frequencies to tune to
          LowestPoints,    \* those below 25 MHz
          DirectInput, DirectOutput, LeakedOutput,   \* those that need no mixer
          HarmonicStart, Harmonic,   \* above the one a harmonic of the oscillator mixes
          ModuloBottom, ModuloInput, ModuloOutput,   \* for 200; 100 or 4000; 1000
          AskedR, AskedModulo,       \* what set_R and set_modulo are given
          DRIVE1_MAX_FREQ, \* from it on the mixer is driven harder
          MAX_COMPENSATION,
          Tolerance,       \* errors that are not worth compensating
          OFFSET_RANGE,    \* how far the offset register reaches
          OffsetsInARow,   \* the 100 of fast_counter
          Setups           \* the other settings: [mode, from, to, fast, narrow, fm, tracking]

VARIABLES max2871,  \* which of the two oscillators is on the board
          adf,      \* driver: R, old_R, refDouble, modulus, N, frac, out_div, prev_actual_freq, rfPower
          chip,     \* the registers of the oscillator
          rx,       \* receiver: base and offset in the chip; what the driver remembers
          old_freq, real_old_freq,
          config_30mhz, setting_R, local_modulo, setup, dirty,
          last      \* history: the point tuned last, and how it should be received

tunerVars == <<max2871, adf, chip, rx, old_freq, real_old_freq, config_30mhz, setting_R,
               local_modulo, setup, dirty, last>>

Synthesizers == {"LO", "RX"}
Nothing == [path |-> "none"]

\* All the state the drivers keep, as one value.
Drivers == [adf |-> adf, chip |-> chip, rx |-> rx, old |-> old_freq, real |-> real_old_freq]

Becomes(d) ==
  /\ adf' = d.adf /\ chip' = d.chip /\ rx' = d.rx
  /\ old_freq' = d.old /\ real_old_freq' = d.real

-----------------------------------------------------------------------------
(* The oscillator                                                            *)

\* Powers of two, by shifting.
TwoTo[k \in 0 .. MaxDivider] == IF k = 0 THEN 1 ELSE 2 * TwoTo[k - 1]

\* What the phase detector compares: doubled and divided crystal.
Reference(r, xtal) == (IF r.refDouble THEN 2 * xtal ELSE xtal) \div r.R

\* What an oscillator with these registers generates.
Output(r, xtal) ==
  ((Reference(r, xtal) * (r.N * r.modulus + r.frac)) \div TwoTo[r.out_div]) \div r.modulus

Registers(a) ==
  [R |-> a.R, refDouble |-> a.refDouble, modulus |-> a.modulus,
   N |-> a.N, frac |-> a.frac, out_div |-> a.out_div]

\* Registers that differ are sent; register 0, always sent, makes the others count.
SendConfig(d) == [d EXCEPT !.chip = Registers(d.adf)]

ClearCache(d) == [d EXCEPT !.old = [s \in Synthesizers |-> 0],
                           !.real = [s \in Synthesizers |-> 0],
                           !.adf.prev_actual_freq = 0]

\* The caches keep frequencies of the old R.
RCounterUncleared(d, new) ==
  LET abs == IF new < 0 THEN -new ELSE new
      refs == [d EXCEPT !.adf.old_R = new, !.adf.refDouble = (new < 0)]
  IN CASE new = d.adf.old_R -> d
       [] new # d.adf.old_R /\ abs < 1 -> refs
       [] OTHER -> [refs EXCEPT !.adf.R = abs]

\* A new R changes the frequencies that can be reached.
RCounter(d, new) ==
  LET abs == IF new < 0 THEN -new ELSE new
      refs == [d EXCEPT !.adf.old_R = new, !.adf.refDouble = (new < 0)]
  IN CASE new = d.adf.old_R -> d
       [] new # d.adf.old_R /\ abs < 1 -> refs
       [] OTHER -> ClearCache([refs EXCEPT !.adf.R = abs])

Modulo(d, m) == [d EXCEPT !.adf.modulus = m]

Drive(d, p) ==
  IF d.adf.rfPower = p THEN d ELSE SendConfig([d EXCEPT !.adf.rfPower = p])

RecalculatePFD(d) == SendConfig(RCounter([d EXCEPT !.adf.old_R = -1], d.adf.old_R))

OutDivider(freq) ==
  CHOOSE k \in 0 .. MaxDivider :
    /\ k = MaxDivider \/ freq * TwoTo[k] > TopFrequency
    /\ \A j \in 0 .. k - 1 : freq * TwoTo[j] <= TopFrequency

\* ADF4351_set_frequency: the nearest frequency, sent unless it is the one sent last.
SetOscillator(d, freq) ==
  LET div == OutDivider(freq)
      steps == ((freq * TwoTo[div] * 2 * d.adf.modulus) \div Reference(d.adf, config_30mhz) + 1) \div 2
      tuned == [d.adf EXCEPT !.out_div = div, !.N = steps \div d.adf.modulus,
                             !.frac = steps % d.adf.modulus]
      actual == Output(tuned, config_30mhz)
      next == [d EXCEPT !.adf = tuned, !.adf.prev_actual_freq = actual, !.real["LO"] = actual]
  IN IF actual = d.adf.prev_actual_freq THEN next ELSE SendConfig(next)

-----------------------------------------------------------------------------
(* The receiver                                                              *)

\* SI4463_set_freq: the offset goes first, if the driver knows of one.
SetReceiver(d, freq) ==
  LET cleared == IF d.rx.active
                 THEN [d.rx EXCEPT !.offset = 0, !.value = 0, !.active = FALSE]
                 ELSE d.rx
  IN [d EXCEPT !.rx = [cleared EXCEPT !.base = freq, !.fast_counter = 0], !.real["RX"] = freq]

\* si_set_offset, unless the difference is the one that was set last.
SetOffset(d, delta) ==
  IF delta = d.rx.old_delta THEN d
  ELSE [d EXCEPT !.rx.offset = delta, !.rx.value = delta, !.rx.active = (delta # 0),
                 !.rx.old_delta = delta]

\* In fast scanning the offset of the receiver moves instead of its frequency.
TuneReceiver(d, freq) ==
  LET tries == setup.fast /\ d.rx.fast_counter < OffsetsInARow /\ d.real["RX"] # 0
      counts == IF setup.fast THEN [d EXCEPT !.rx.fast_counter = @ + 1] ELSE d
      delta == freq - d.real["RX"]
  IN IF tries /\ delta \in -OFFSET_RANGE .. OFFSET_RANGE
     THEN SetOffset(counts, delta)
     ELSE SetReceiver(counts, freq)

SetFreq(d, s, freq) ==
  IF d.old[s] = freq THEN d
  ELSE [(IF s = "LO" THEN SetOscillator(d, freq) ELSE TuneReceiver(d, freq)) EXCEPT !.old[s] = freq]

-----------------------------------------------------------------------------
(* perform                                                                   *)

\* R and modulus for a point, where the user has not set R: what depends on the distance
\* to multiples of the crystal, on RBW and on the span is left open.  0 stays.
AutoDivider(lowest) ==
  IF setup.mode = "output"
  THEN {[R |-> IF max2871 THEN -1 ELSE 3, modulus |-> IF local_modulo = 0 THEN ModuloOutput ELSE 0]}
  ELSE IF lowest /\ max2871 THEN {[R |-> -1, modulus |-> ModuloBottom]}
  ELSE [R : IF max2871 THEN {1, 3, 4} ELSE {-4, -3, 1, 3, 4},
        modulus : {IF local_modulo = 0 THEN ModuloInput ELSE 0}]

Dividers(lf) ==
  IF setting_R = 0 THEN AutoDivider(lf \in LowestPoints) ELSE {[R |-> setting_R, modulus |-> 0]}

Divide(d, r) == RCounter(IF r.modulus = 0 THEN d ELSE Modulo(d, r.modulus), r.R)

HarmonicOf(lf) == IF lf > HarmonicStart THEN Harmonic ELSE 1

\* The automatic mixer drive, of the three that depend on the frequency.
ActualDrive(lf) ==
  IF HarmonicOf(lf) > 1 THEN 3 ELSE IF lf < DRIVE1_MAX_FREQ THEN 1 ELSE 2

\* Where the oscillator goes to receive lf at an intermediate frequency, above or below.
Target(lf, if, below) ==
  IF ~below THEN if + lf ELSE IF lf < if THEN if - lf ELSE lf - if
Inverted(lf, if, below) == below /\ lf >= if

\* Small steps of the oscillator are left to the receiver.
SetOscillatorIfFar(d, target) ==
  IF target \in d.real["LO"] - MAX_COMPENSATION .. d.real["LO"] + MAX_COMPENSATION
     /\ d.real["LO"] >= MAX_COMPENSATION
  THEN d ELSE SetFreq(d, "LO", target)

\* The error has one sign on both sides of the oscillator.
CompensationUpright(d, target, inverted, harmonic) ==
  LET error == (d.real["LO"] - target) * harmonic
  IN IF setup.narrow /\ (harmonic > 1 \/ error \notin -Tolerance .. Tolerance) THEN error ELSE 0

\* What the receiver makes up for.
Compensation(d, target, inverted, harmonic) ==
  LET error == (IF inverted THEN target - d.real["LO"] ELSE d.real["LO"] - target) * harmonic
  IN IF setup.narrow /\ (harmonic > 1 \/ error \notin -Tolerance .. Tolerance) THEN error ELSE 0

Mixed(d, lf, if, below, r) ==
  LET harmonic == HarmonicOf(lf)
      target == Target(lf, if, below) \div harmonic
      set == SetOscillatorIfFar(Drive(Divide(d, r), ActualDrive(lf)), target)
  IN SetFreq(set, "RX", if + Compensation(set, target, Inverted(lf, if, below), harmonic))

\* With modulation the offset moves around what set_freq chose last.
Modulated(d, m) ==
  IF setup.mode = "output" /\ setup.fm
  THEN [d EXCEPT !.rx.offset = d.rx.value + m, !.rx.active = (d.rx.value + m # 0)]
  ELSE d

\* SI4463_init_rx resets the chip, and start_rx leaves it without a frequency.
Reset(d) ==
  [ClearCache(d) EXCEPT !.rx.base = 0, !.rx.offset = 0, !.rx.transmits = FALSE]

\* The first point after a change begins with empty caches, and in an input mode with a
\* new RBW, for which the receiver is started.
Begun ==
  IF ~dirty THEN Drivers
  ELSE [ClearCache(Drivers) EXCEPT !.rx.transmits = (@ /\ setup.mode = "output")]

\* The path of an output: through the receiver's chip, or past it.
OnPath(d) == IF setup.mode = "output" THEN [d EXCEPT !.rx.transmits = TRUE] ELSE d
PastReceiver(d) == IF d.rx.transmits THEN Reset(d) ELSE d

Tuned(d, how) ==
  /\ Becomes(d) /\ last' = how
  /\ dirty' = FALSE /\ UNCHANGED <<max2871, config_30mhz, setting_R, local_modulo, setup>>

\* A modulus of 0 stays where perform chooses none, and the code divides by it: not modelled.
CanDivide(r) == (IF r.modulus = 0 THEN adf.modulus ELSE r.modulus) # 0
Kept == [R |-> adf.R, modulus |-> 0]

\* Sweeps go up, and begin again at their end, on a request and after a change.
Turn(lf) ==
  /\ lf \in Points /\ lf >= setup.from /\ lf <= setup.to
  /\ \/ \A f \in Points : f >= setup.from => f >= lf
     \/ ~dirty /\ last.lf < lf /\ \A f \in Points : f > last.lf => f >= lf

DirectPoints == IF setup.mode = "input" THEN DirectInput ELSE DirectOutput
LeakedPoints == IF setup.mode = "input" THEN {} ELSE LeakedOutput

\* A point through the mixer: local_IF is what is left to receive.
MixedPoint(lf, if, below) ==
  /\ Turn(lf) /\ lf \notin DirectPoints \union LeakedPoints
  /\ \E r \in Dividers(lf), m \in {-1, 1} :
       /\ CanDivide(r) /\ Target(lf, if, below) \div HarmonicOf(lf) >= LowestOscillator
       /\ Tuned(Mixed(OnPath(Modulated(Begun, m)), lf, if, below, r),
                [path |-> "mixed", lf |-> lf, below |-> below, inverted |-> Inverted(lf, if, below)])

\* A point without mixer: the receiver goes to the frequency itself.
DirectPoint(lf) ==
  /\ Turn(lf) /\ lf \in DirectPoints
  /\ setup.tracking => CanDivide(Kept)
  /\ \E m \in {-1, 1} :
       LET received == SetFreq(OnPath(Modulated(Begun, m)), "RX", lf)
       IN Tuned(IF setup.tracking THEN SetFreq(received, "LO", lf) ELSE received,
                [path |-> "direct", lf |-> lf])

\* The oscillator itself is the output.
LeakedPoint(lf) ==
  /\ Turn(lf) /\ lf \in LeakedPoints /\ CanDivide(Kept)
  /\ \E m \in {-1, 1} :
       Tuned(SetFreq(PastReceiver(Modulated(Begun, m)), "LO", lf \div HarmonicOf(lf)),
             [path |-> "leaked", lf |-> lf])

-----------------------------------------------------------------------------
(* What changes in between                                                   *)

Changed(d) ==
  /\ Becomes(d) /\ dirty' = TRUE /\ last' = Nothing /\ UNCHANGED max2871

SetR(f) ==
  /\ setting_R' = f /\ Changed(RCounter(Drivers, f))
  /\ UNCHANGED <<config_30mhz, local_modulo, setup>>

\* 0 asks for the automatic modulus.
SetModulo(f) ==
  /\ local_modulo' = f /\ Changed(ClearCache(Modulo(Drivers, f)))
  /\ UNCHANGED <<config_30mhz, setting_R, setup>>

\* set_actual_freq, set_freq_corr, calibrate.
SetActualFreq(f) ==
  /\ config_30mhz' = f /\ Changed(RecalculatePFD(Drivers))
  /\ UNCHANGED <<setting_R, local_modulo, setup>>

Choose(s) ==
  /\ setup' = s /\ Changed(Drivers)
  /\ UNCHANGED <<config_30mhz, setting_R, local_modulo>>

Boot ==
  [R |-> 1, old_R |-> 0, refDouble |-> FALSE, modulus |-> ModuloBottom, N |-> 1, frac |-> 0,
   out_div |-> 0, prev_actual_freq |-> 0, rfPower |-> 0]

Init ==
  /\ max2871 \in BOOLEAN
  /\ adf = Boot /\ chip = Registers(Boot)
  /\ rx = [base |-> 0, offset |-> 0, active |-> FALSE, value |-> 0,
           old_delta |-> 2 * OFFSET_RANGE + 1, fast_counter |-> 0, transmits |-> FALSE]
  /\ old_freq = [s \in Synthesizers |-> 0] /\ real_old_freq = [s \in Synthesizers |-> 0]
  /\ config_30mhz \in Crystals /\ setting_R = 0 /\ local_modulo = 0
  /\ setup \in Setups /\ dirty = TRUE /\ last = Nothing

Next ==
  \/ \E lf \in Points : \/ \E if \in IntermediateFrequencies, below \in BOOLEAN : MixedPoint(lf, if, below)
                        \/ DirectPoint(lf)
                        \/ LeakedPoint(lf)
  \/ \E f \in AskedR : SetR(f)
  \/ \E f \in AskedModulo : SetModulo(f)
  \/ \E f \in Crystals : SetActualFreq(f)
  \/ \E s \in Setups : Choose(s)

Spec == Init /\ [][Next]_tunerVars

-----------------------------------------------------------------------------
(* Properties                                                                *)

Oscillator == Output(chip, config_30mhz)
Receiver == rx.base + rx.offset

\* What the mixer brings to the receiver, or the generator to its output.
Received ==
  CASE ~last.below -> HarmonicOf(last.lf) * Oscillator - Receiver
    [] last.below /\ ~last.inverted -> Receiver - HarmonicOf(last.lf) * Oscillator
    [] OTHER -> HarmonicOf(last.lf) * Oscillator + Receiver

\* Division by the harmonic leaves less than a hertz of the oscillator.
Within(error) == error \in -Tolerance - Harmonic + 1 .. Tolerance + Harmonic - 1

\* Settings with which the receiver stays at the frequency it was set to last.
Quiet == ~setup.fast /\ ~(setup.mode = "output" /\ setup.fm)

\* Through every order of points, of dividers chosen for them and of changes by the user,
\* what the registers of both chips make together is the frequency of the point
\* (sa_core.c:4400-4660): the errors of the oscillator are compensated and no cache is
\* stale.  Fast scanning, whose offsets are another matter, is left out, and so is tracking
\* output: where a direct point leaves the oscillator just where a later mixed point wants it,
\* perform keeps it there with the new modulus, for the reason given at OscillatorKnown.
TunedToPoint ==
  last.path = "mixed" /\ setup.narrow /\ Quiet /\ ~setup.tracking =>
    Within(Received - last.lf)

\* In all modes the oscillator runs at what the code compensates from (si4468.c:570-583),
\* whatever is sent to it in between: drive, divider, modulus.  Not so when it is a tracking
\* output too: those points leave modulus and R as they are, the next mixed point may change
\* the modulus alone, and no cache is cleared for it.
OscillatorKnown ==
  ~dirty /\ ~setup.tracking /\ real_old_freq["LO"] # 0 => Oscillator = real_old_freq["LO"]

\* In fast scanning too the receiver is where set_freq was asked to put it: the
\* "requested frequency can be reached by using the offset registers" (sa_core.c:2601).
ReceiverKnown ==
  last.path = "direct" /\ setup.mode = "input" => Receiver = last.lf

\* State the drivers can be in.
TypeOK ==
  /\ adf.R \in Nat \ {0} /\ adf.modulus \in Nat /\ adf.frac \in Nat /\ adf.N \in Nat
  /\ adf.out_div \in 0 .. MaxDivider /\ rx.fast_counter \in 0 .. OffsetsInARow + 1
=============================================================================
