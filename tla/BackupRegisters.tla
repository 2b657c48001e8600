-------------------------- MODULE BackupRegisters --------------------------
(***************************************************************************)
(* The backup registers of main.c.  Before each sweep Thread1 copies the      *)
(* settings, word by word, into registers that outlive a reset; after a reset  *)
(* main takes them over, on top of what it starts with, when their checksum     *)
(* fits.  A mode has one range or, by harmonic, ultra and the mixer, several.    *)
(***************************************************************************)
EXTENDS SweepRange

CONSTANTS ModeRanges,   \* a function: the ranges that each mode has
          ModeTop,      \* a function: what its first sweep goes up to, or is
          Outputs,      \* the output modes
          FirstMode,    \* the mode without a preset, M_LOW
          Presets,      \* what a saved startup preset can hold
          Asked,        \* frequencies that are asked for
          BitXor(_, _)  \* of two words

SettingModes == DOMAIN ModeRanges
Settings == [mode : SettingModes, range : Ranges, sweep : Sweeps, points : PointCounts]

ASSUME BackupAssumption ==
  /\ \A m \in SettingModes : ModeRanges[m] # {} /\ ModeRanges[m] \subseteq Ranges
  /\ \A m \in SettingModes : ModeTop[m] \in 0 .. MaxHz
  /\ FirstMode \in SettingModes
  /\ Presets \subseteq {p \in Settings : p.range \in ModeRanges[p.mode] /\ p.sweep.start <= p.sweep.stop}
  /\ Asked \subseteq 0 .. MaxHz

VARIABLES
  setting_mode,
  registers,     \* backup: the words of the sweep, then the mode with the checksum
  image,         \* Thread1's b, while it is copied
  copied,        \* words copied so far; all of them between two copies
  whole,         \* history: the registers have all words of one image
  left           \* history: the whole image that main has just taken over, if it has,
                 \* with the stop and the points that it took it over from

regVars == <<setting_mode, registers, image, copied, whole, left>>
backupVars == <<rangeVars, regVars>>

WordCount == 3

-----------------------------------------------------------------------------
\* XOR over the words, from a seed, so that cleared registers do not fit.
Checksum(f0, f1, m) == BitXor(BitXor(BitXor(5, f0), f1), m)

Cleared == [f0 |-> 0, f1 |-> 0, mode |-> 0, sum |-> 0]

ImageOf(s, m) == [f0 |-> s.start, f1 |-> s.stop, mode |-> m, sum |-> Checksum(s.start, s.stop, m)]

Fits(b) == b.sum = Checksum(b.f0, b.f1, b.mode)

BackupInit ==
  /\ Init
  /\ setting_mode \in SettingModes /\ ModeRange \in ModeRanges[setting_mode]
  /\ registers = Cleared /\ image = Cleared
  /\ copied = WordCount /\ whole = FALSE /\ left = {}

\* Thread1 prepares the image of the settings, before each sweep.
Prepare ==
  /\ copied = WordCount
  /\ image' = ImageOf(Present, setting_mode) /\ copied' = 0
  /\ left' = {}
  /\ UNCHANGED <<rangeVars, setting_mode, registers, whole>>

\* The words go one by one; the last one has the mode and the checksum.
Copy ==
  /\ copied < WordCount
  /\ \/ copied = 0 /\ registers' = [registers EXCEPT !.f0 = image.f0]
     \/ copied = 1 /\ registers' = [registers EXCEPT !.f1 = image.f1]
     \/ copied = 2 /\ registers' = [registers EXCEPT !.mode = image.mode, !.sum = image.sum]
  /\ copied' = copied + 1 /\ whole' = (copied' = WordCount)
  /\ image' = IF whole' THEN Cleared ELSE image
  /\ UNCHANGED <<rangeVars, setting_mode, left>>

-----------------------------------------------------------------------------
\* The difference is unsigned, so that a torn copy may ask for an endless span.
RestoredSpan(b) == IF b.f1 < b.f0 THEN MaxHz ELSE b.f1 - b.f0

\* Sets the frequency last.
TakenOverSpanFirst(b, s, points, r) ==
  LET start == Set("START", b.f0, s, r, points)
      span == Set("SPAN", RestoredSpan(b), s, r, points)
  IN IF b.mode \in Outputs THEN Set("CW", (b.f0 + b.f1) \div 2, span, r, points)
     ELSE Set("STOP", b.f1, start, r, points)

\* What main makes of sweep s and the registers.
TakenOver(b, s, points, r) ==
  LET start == Set("START", b.f0, s, r, points)
      cw == Set("CW", (b.f0 + b.f1) \div 2, s, r, points)
  IN IF b.mode \in Outputs THEN Set("SPAN", RestoredSpan(b), cw, r, points)
     ELSE Set("STOP", b.f1, start, r, points)

\* The sweep that reset_settings begins with in a mode, from sweep s.
Begun(m, r, s, points) ==
  IF m \in Outputs THEN AtOne(r, ModeTop[m], s, points) ELSE FromWhole(r, ModeTop[m], s, points)

ResetTo(m, s, points) ==
  {[mode |-> m, range |-> r, sweep |-> Begun(m, r, s, points), points |-> AllPoints] :
     r \in ModeRanges[m]}

\* A preset, or load_LCD_properties with cleared settings.
Startups == Presets \union ResetTo(FirstMode, [start |-> 0, stop |-> 0], AllPoints)

\* set_mode does nothing in the mode that is.
AfterSetMode(first, m) ==
  IF m = first.mode THEN {first} ELSE ResetTo(m, first.sweep, first.points)

\* The registers on top of the settings set, in range r.
Restarted(set, r, mode, taken, asked) ==
  LET b == registers
  IN /\ setting_mode' = mode /\ Moves(r)
     /\ Becomes(IF asked THEN TakenOver(b, set.sweep, set.points, r) ELSE set.sweep)
     /\ sweep_points' = set.points
     /\ outdated' = ~asked /\ refined' = ~asked
     /\ widened' = (asked /\ mode \in Outputs
                     /\ TooWide("SPAN", Bounded("SPAN", RestoredSpan(b), r), r))
     /\ left' = IF taken /\ whole
                THEN {[start |-> b.f0, stop |-> b.f1,
                       end |-> set.sweep.stop, points |-> set.points]}
                ELSE {}

\* A reset, by the watchdog or a button, and the start of main: the startup settings,
\* then the registers, unless nothing is to be restored; set_harmonic may move the range.
Restart ==
  /\ copied' = WordCount /\ image' = Cleared
  /\ \E first \in Startups, wanted \in BOOLEAN :
       LET b == registers
           taken == wanted /\ Fits(b) /\ b.mode \in SettingModes
           asked == taken /\ (b.f0 # 0 \/ b.f1 # 0)
           mode == IF taken THEN b.mode ELSE first.mode
       IN \E set \in AfterSetMode(first, mode) :
          \E r \in IF taken THEN ModeRanges[mode] ELSE {set.range} :
            Restarted(set, r, mode, taken, asked)
  /\ UNCHANGED <<registers, whole>>

\* Bound: each change of the sweep is copied before the next change.
Change ==
  /\ copied = WordCount /\ whole /\ registers = ImageOf(Present, setting_mode)
  /\ \/ /\ \/ \E type \in Types, freq \in Asked : SetSweepFrequency(type, freq)
           \/ \E points \in PointCounts : SetSweepPoints(points)
           \/ MoveRange /\ ModeRange' \in ModeRanges[setting_mode]
           \/ setting_mode \in Outputs /\ MixerOff /\ ModeRange' \in ModeRanges[setting_mode]
        /\ UNCHANGED setting_mode
     \/ \E m \in SettingModes : \E r \in ModeRanges[m] :
          /\ Reset(r, ModeTop[m]) /\ Becomes(Begun(m, r, Present, sweep_points))
          /\ setting_mode' = m
  /\ left' = {}
  /\ UNCHANGED <<registers, image, copied, whole>>

BackupNext == Prepare \/ Copy \/ Restart \/ Change

BackupSpec == BackupInit /\ [][BackupNext]_backupVars

-----------------------------------------------------------------------------
Within(a, b, d) == a - b \in -d .. d

\* A reset that does not come between the words leaves the sweep that the last image has,
\* but for two hertz in the output modes (main.c:193-230, 3947-3996).  The exceptions: a
\* sweep outside the range that the mode has after the reset, as harmonic, ultra or mixer
\* may leave one (it is clamped there, main.c:3985-3989); a sweep with less than a hertz
\* for each of the points that a preset or set_mode has set by then; one of an input mode
\* that begins as close below the stop that these have set; and zero hertz alone, which
\* counts as nothing to restore.
RestoredSweep ==
  \A l \in left :
    LET output == setting_mode \in Outputs
        d == IF output THEN 2 ELSE 0
    IN /\ minFreq <= l.start /\ l.stop <= maxFreq /\ l.stop # 0
       /\ l.start = l.stop \/ l.stop - l.start > l.points
       /\ output \/ l.start \notin l.end - l.points .. l.end - 1
       => Within(frequency0, l.start, d) /\ Within(frequency1, l.stop, d)
=============================================================================
