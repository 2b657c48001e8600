# A TLA+ verification project for the Atom firmware

The firmware drives a tinySA Ultra+ (ZS407): a swept spectrum analyser and
generator on an STM32F303. It is the vendor's program (`main.c`, `sa_core.c`,
`sa_cmd.c`, `ui.c`, `flash.c`, the chip drivers) with a portable, allocation-free
library beside it (`modern/core`) and the code that ties that library to the
board (`modern/embedded`). The modules here are translated from that source; a
line reference in a comment names the file of the repository it is about.

## Inventory

### Who runs when

| Actor | Where | Runs |
| --- | --- | --- |
| sweep thread `Thread1` | `main.c:160-330` | a loop: copy to the backup registers, one sweep, at most one console command, `ui_process`, drawing |
| shell thread `myshellThread` | `main.c:3584-3596` | reads a line, runs it or hands it to the sweep thread; higher priority |
| button interrupt `extcb1`, touch interrupt | `ui.c:8387-8405` | sets flags in `operation_requested`, sets `break_execute` |
| USB interrupt, DMA | `usbcfg.c`, ChibiOS | fills and empties the USB queues |
| transport worker | `modern/embedded/zs407_usb_transport.c` | feeds the stream parser; nothing in this image can start it |

The threads share plain globals: `shell_function`, `shell_args`, `shell_line`,
`operation_requested`, `abort_enabled`, `sweep_mode`, `sweep_once_count`,
`break_execute`, `ui_mode`, `dirty`, `config`, `setting`, the frequency cache. Few
accesses are inside `chSysLock`. What interrupts a sweep is `operation_requested`;
what makes the next one calculate anew is `dirty`.

### Components

| Component | State | Operations | What makes it correct |
| --- | --- | --- | --- |
| SPSC byte ring (`zs407_spsc.c`) | storage, two wrapping cursors | init, available, free, write, read | bytes come out once, in order; the two sides never share a slot |
| stream parser (`zs407_protocol.c`) | window, expected length, running CRC, counters | init, feed | fragmentation and noise do not change what is delivered |
| console hand-over (`main.c`, `sa_cmd.c`, `ui.c`) | request word, argument buffer, shell queue, sampled buttons | read, parse, hand over, time out, take, run, resume, handle event | no lost wakeup; a command sees its own arguments; one command at a time; no ignored press |
| pause and waitscan (`main.c`) | `sweep_mode`, `sweep_once_count` | pause, resume, resume n, waitscan n, toggle | waitscan returns, after what it was asked to wait for |
| saved configuration and presets (`flash.c`) | flash words, RAM images, checksums | save, recall, clear | what a recall accepts was saved; a finished save lasts |
| sweep engine (`sa_core.c` `sweep`, `perform`) | `dirty`, `scandirty`, scan counts, trigger, the traces | recalculate, measure, fold into the trace, abort, wait for a trigger | a trace never mixes two settings; averages are even; changes and requests get through |
| RSSI buffer (`si4468.c`) | `age[]` as a ring of samples, read position | fill, trigger fill, read | the samples around the trigger, in order |
| tuning (`sa_core.c` `set_freq`, `perform`; `si4468.c`) | registers of two chips, five caches of them | set frequency, R, modulus, drive, crystal; offset; reset | both chips together receive the frequency of the point |
| sweep range (`main.c`) | start, stop, points, the range of the mode | start, stop, center, span, cw, points; mode, harmonic, ultra, mixer | inside the range and a hertz per point apart |
| bands (`main.c`, `ui.c`) | the bands, the points dealt to each | enable, move, deal | every point lies in an enabled band |
| backup registers (`main.c:191-230, 3950-3991`) | the words of a sweep and an XOR checksum | copy, take over | the same sweep after a reset |
| frequency grid (`zs407_core.c`, `main.c`) | adder: frequency, error, index | init, next, `getFrequency` | the grid is the legacy one, within the request |
| correction cursor (`zs407_core.c`) | cached segment | init, at | the answer does not depend on what was asked before |
| traces (`sa_core.c`, `ui.c`) | frozen, normalized, the reference | freeze, copy, normalize, preset | a normalized trace has its reference |
| peaks and markers (`sa_core.c`) | sorted table of peaks | walk, insert, assign | the n-th marker is on the n-th highest peak |
| user interface (`ui.c`) | `ui_mode`, menu stack, keypad | menus, forms, keypads; console `menu`, `mode`, `text` | somebody reads the keypad on the screen; the menus are those of the mode |
| dirty tiles, envelope (`zs407_ui_model.c`) | bitmap | clear, all, invalidate, pop | what was invalidated is drawn |
| bus scheduler, RF state, profile (`zs407_services.c`) | pending mask, holder, counters | request, grant, release, diff, observe | one holder, overtaken by more urgent ones only |
| the rest: see [Not modelled](#not-modelled) | | | |

`PROJECT.json` lists every component with its status and, under `hazards`, the
places where this code is hard to test.

## Modules

| Module | Models | Notes |
| --- | --- | --- |
| `ByteFifo` | what a ring promises | abstract: a bounded queue, one atomic step per call |
| `SpscRing` | `zs407_spsc.c` | one step per acquire load, memcpy and release store; `input`, `output` are the callers' buffers |
| `CommandServer` | what a patient host is promised | abstract: accept, start, finish, return |
| `ShellSweep` | shell thread, `Thread1`, `ui_process`, the two interrupts, `cmd_abort` | program counters name the place in each loop |
| `WaitScan` | `sweep_mode` and `sweep_once_count` | each read-modify-write of the sweep thread is a load and a store |
| `FrameStream` | wire format, whole-frame decode, what a scan of a finished stream claims | the reference for the parser |
| `StreamParser` | `zs407_stream_parser_feed` | one action per turn of its loop; the turn that completes a header is split before the payload copy |
| `FlashStore` | `flash.c` and its callers | one step per page erased and per word programmed |
| `SweepEngine` | one trace of `sweep` and `perform`, with `Thread1` around them | a sample is known by whether its calculation is of the present settings and by how it weighs in the average |
| `RssiBuffer` | `SI446x_Fill`, `SI446x_trigger_fill`, the buffered half of `Si446x_RSSI`, the two passes of spur removal in `perform` | a sample is known by its age |
| `Tuner` | `set_freq`, `perform`'s tuning, the drivers of both chips | the drivers' state is a record that the operators transform; one action per point tuned |
| `SweepRange` | `set_sweep_frequency`, `set_sweep_points`, `update_min_max_freq` | `outdated`, `widened`, `refined` say which code path left the sweep as it is |
| `BackupRegisters` | the copy of `Thread1` and `main` after a reset | extends `SweepRange`; one step per word; `left` is what a reset has found and what it was set on top of |
| `SweepBands`, `MultiBands` | `update_bands`, `getFrequency`, the menus of bands | floats of a coarse granularity; `MultiBands` has the instance that runs and proofs share |
| `FrequencyDda` | `zs407_frequency_dda` and `getFrequency` | fields that only `init` assigns are operators on the request |
| `CorrectionCursor` | `zs407_correction_cursor_init`, `zs407_correction_at` | the search is one step: the first segment from the cached one on that reaches the frequency |
| `TraceMath` | freezing, copying and normalizing traces, their tables of levels, presets of them | levels are left out: only whether the reference is still the one it was |
| `PeakFinder` | `add_to_peak_finding`, `search_maximum`, the tracking markers | one step per point of the walk |
| `UserScreens` | `ui_mode`, the stack of menus, keypads, `menu`, `mode`, `text` | entries of menus are known by how they leave the screen |
| `DirtyTiles` | `zs407_dirty_tiles` | a bit of the bitmap is its number; one pixel, any one, is watched |
| `BusScheduler` | the bus scheduler of `zs407_services.c` | `overtakers` is history |
| `SmallMachines`, `SweepMachines`, `SettingsMachines` | | for TLC: machines that share no state, run one at a time |
| `FastTuner` | | for TLC: the setup of one run of `Tuner` |
| `...Proofs`, `ModArithmetic` | | theorems, see [Proofs](#proofs) |

How they compose: `BackupRegisters` extends `SweepRange`, because what a reset
takes over is set again through `set_sweep_frequency`; `StreamParser` and
`ByteFifo`, `CommandServer` are tied to their details by `INSTANCE`; `SweepEngine`
holds the trigger's use of the pause that `WaitScan` has in full. The three
`...Machines` modules save TLC the product of what is independent: a variable
`running`, chosen at first, says which machine moves, and the others stay as they
began.

Conventions: variables keep the names of the C variables; `...Pc` variables are
places in a thread's loop; variables commented as history exist only for the
properties. An operator that stands directly before the one it varies (for example
`UsedUnwrapped` before `Used`) is a plausible mistake in that code, which the
mutants of `PROJECT.json` put in its place to show that a property notices.

### Abstractions

* `SpscRing`: the C11 acquire and release orders make every step atomic and in
  program order; a weaker order is not modelled. Bytes take two values.
* `ShellSweep`: a line is its number and one of seven kinds; the body of a command
  is a step that may take any time; a sweep is a step that ends when it likes,
  complete or not, because any flag of `operation_requested` only makes it end
  early. The prompt and the output are left out. Commands come from the USB host
  only: the loader of `.ini` files from the card is commented out in this build
  (`__SD_CARD_LOAD__`).
* `WaitScan`: `sweep_mode` has the flags enable, once and ui. The self-test,
  remote and calibration flags are left out. `pause` and `resume` run in the sweep
  thread while the shell waits for them.
* `StreamParser`: ten header bytes are four, the four trailer bytes two, a byte has
  few values, the CRC is a small order-dependent fold. No property depends on the
  strength of the CRC: a frame is delivered iff `zs407_frame_decode` accepts it.
* `FlashStore`: a page has three words, an image has one data word that varies;
  checksums of different words differ. An erase that is interrupted leaves each
  word of the page torn or as it was; a program that is interrupted leaves it torn;
  programming a word that is not erased changes nothing.
* `SweepEngine`: a frequency span, input mode, one stored trace. What is calculated
  is known by whether it belongs to the present settings. `disturbed` marks the
  scans whose average is uneven in the code as well: `scan_after_dirty` counts
  aborted scans and repetitions for a trigger, so that AV_100 gives later samples
  too little weight (found with the model; no document promises otherwise).
* `RssiBuffer`: repeated readings of the chip are one sample. `SI446x_Fill` with
  start -1 also writes before the array, which nothing reads; the array belongs to
  AV_MAX_DECAY as well, which the property leaves out. With spur removal (asked for,
  or automatic above the start of the ultra range) every point takes two samples and
  keeps the lower one, and the second pass over the first point waits for another
  trigger, even after a single one (`sa_core.c:5021-5046`, `4856`): the buffer is
  then used up in the middle of the trace, no window is promised, and `TriggerWindow`
  leaves these sweeps out. They are modelled because what they leave in the buffer's
  reading position and in the trigger must not disturb the sweeps after them. The age
  of the lower sample is not followed (`Lower`). A scan of one point
  (`main.c:1464`) is left out: a window of one sample has no middle.
* `Tuner`: frequencies are small integers, with the crystal, the intermediate
  frequency and the limits in proportion. A register is sent when it differs and
  register 0 always, so that the chip has what the driver has after `sendConfig`.
  The receiver tunes exactly and in a band it supports. Which R `perform` chooses
  depends on distances to multiples of 10 and 30 MHz, on RBW and span, and is left
  open among the ones it can choose. The settings change between sweeps; a sweep
  goes up and may begin again at any time. Left out: `setting.tracking` of the
  filter test, external modulation, the muted output, an LO2, spur shifts of the
  IF, which are one more IF, the mixer drive set by hand, and a modulus of 0 where
  the code would divide by it (`CanDivide`).
* `SweepRange`: frequencies are small; the range of a mode moves among a few
  ranges. A change of the range does not clamp the sweep (`outdated`), a span wider
  than the range leaves the start below it (`widened`), more points do not widen it
  (`refined`): in each case so does the code.
* `BackupRegisters`: three words, of start, of stop and of the mode with the
  checksum; attenuation, reference level, gain and RBW, which go the same way, are
  left out. The checksum is an XOR over the words, `BitXor`, which TLC gets from
  `Bitwise` and the proofs leave open; a copy cut off by a reset may pass
  it, and `WithinRange` holds of what `set_sweep_frequency` then makes of the words.
  A mode has several ranges (`ModeRanges`): harmonic, ultra and the mixer, of which the
  registers have the harmonic only, choose one of them, and may leave the sweep outside
  it before a copy; what `set_harmonic` makes of the harmonic word after a reset is any
  range of the mode. `main` takes the registers over on top of a startup preset, which
  may be of the same mode (`AfterSetMode`), or of the settings without one. Bound: each
  change of the sweep is copied before the next change.
* `SweepBands`: a float holds multiples of `Granularity`, `uint32_t` differences
  wrap at `Wrap`. Bands that share one sweep only.
* `FrequencyDda`: `uint64_t` sums do not wrap, as they stay within the request.
* `CorrectionCursor`: integers do not wrap. The product of a frequency below 2^34 Hz
  and a difference below 2^16 stays below the bound at which the code answers
  `ZS407_CORE_OUT_OF_RANGE`.
* `TraceMath`: a trace is frozen, normalized, the current one, shows a table of levels
  (a limit, or what a trigger compares with); the reference is still the measurement
  that normalization stored, or not. `overridden` marks what may be done to it without
  a warning: by the console, a preset, the debugging of a sweep, which writes into the
  last trace (the two flags for that are one), or a table, which the menu of the
  trigger puts on it though the menu of the traces would not select it. Bound: one
  trace at a time shows a table.
* `PeakFinder`: levels are integers; the measurements made of the peaks and the
  interpolation between points are left out.
* `UserScreens`: an entry of a menu opens a menu, a form or a keypad, goes back, or
  changes the mode. `awaiting`, `stuck` and `astray` mark what the code leaves
  inconsistent itself: a keypad that `menu` opened for a `text` to come, a form that
  `text` could not close, a mode changed below the menus by a preset, the factory
  settings, a self test or calibration, ENABLE ULTRA or the correction of an input
  level. Left out: the output mode that the entries of levels set only for the time of
  their keypad (`menu_output_level_acb`, `menu_curve_acb`).
* `DirtyTiles`: a screen of six by four pixels with tiles of two and words of four
  bits; as on the device the tiles do not fill the last word. Corners and sides stay
  small, as sums of `int16_t` do in the `int32_t` the code computes in.

## Runs

| Run | Bounds | Shows |
| --- | --- | --- |
| `SpscRing` | capacity 4, cursors modulo 16 (four wraps of the slots per wrap of the cursors), transfers up to 2 | `ExclusiveSlots`, `PromiseKept` and that the ring implements `ByteFifo`, whose queue never exceeds the capacity |
| `ShellSweep` | three lines of seven kinds; any number of timeouts and interrupts | no lost wakeup, no command left behind that the shell waited for, no ignored held press, the shell always comes back; until a timeout or abort mode, arguments are stable and the threads implement `CommandServer`. Three lines let one command run while another is pending and a third is read |
| `StreamParser` | streams of up to nine bytes (an empty frame is six, the longest one that fits seven), fragments of up to three | the frames delivered are those a scan of the whole stream finds; every byte is counted |
| `FlashStore` | one preset beside the two pages of the configuration, two values | with a power failure at any word, a recall accepts only whole images and a finished save lasts |
| `SweepMachines` | two points and four scans told apart, so that a first pass can be aborted between its points and an average has weights 1 to 4; requests up to 9 Hz and 7 points; waitscan for up to three scans, the shell between statements only | `HoldsOwnSamples`, `AverageIsMean`, `ChangeTakenUp`, `RequestEndsSweep`; the adder's grid is the legacy one and the nearest; `WaitScanReturns`, and `WaitedForSweeps`: after the sweeps it asked for |
| `SettingsMachines` | frequencies to 14, sweeps of 3 and 5 points; a menu stack of depth 4 and menus that overflow it; two bands of three points, rounded to even frequencies, wrapping at 32; three modes of one or two ranges, two startup presets; three traces, one preset, one table | `WithinRange`, `PointsApart`, `RestoredSweep`, `PointsInBands`, `KeypadListens`, `OutputFormInOutput`, `NormalizedTogether`, `ReferenceKept` |
| `SmallMachines` | tables of up to three points below 5 Hz, corrections at both ends of `int16_t`; rectangles that begin before, on and behind the screen; four bus clients; four samples and points of a triggered sweep, with and without spur removal; traces of seven points and four levels, two markers; a tuner with four points (below 25 MHz, mixed, without mixer or leaked, with a harmonic), two crystals, both oscillators | `AnswerOnCurve`, `NearestToLine`, `StaleIsDirty`, `OvertakenByUrgentOnly`, `TriggerWindow`, `MarkersOnPeaks`, `SearchFindsHighest`, `TunedToPoint`, `OscillatorKnown` |
| `RequestInterruptsSweep` | two lines | violated: the flag of a request is erased by the handling of a button or touch |
| `CalibrationSaved` | `FlashStore` with a second saving thread | violated: the shell changes `config` while the sweep thread programs it |
| `WaitScanReturns` | two scans, the shell inside statements too | violated: a lost update of `sweep_mode` |
| `CalculatedOrDirty` | two points | violated: `perform` clears the `dirty` of a load it has not seen |
| `ReceiverKnown` | four points in fast scanning, apart by more than half of what the offset reaches | violated: an offset that was cleared is not set again |

`StreamParser` disables the deadlock check: the bound on the stream lets the host
stop. Everywhere else something can always happen.

### Fairness

* `ShellSweep`: weak fairness of each thread's steps and of the timer. ChibiOS
  schedules both threads preemptively; the shell has the higher priority but blocks
  in its read, in its queue or in output, so the sweep thread always gets to run.
  Commands and sweeps are assumed to end. Nothing is assumed of the host, the user
  or the lever.
* `SweepEngine` (and `SweepMachines`): weak fairness of the sweep thread alone. That
  a trigger comes, that anyone presses or types, is not assumed: a sweep that waits
  for its trigger goes round for ever and must take up changes and requests there.
* `WaitScan` (and `SweepMachines`): weak fairness of the sweep thread, strong
  fairness of the poll of `cmd_waitscan`: it runs every 100 ms at the higher
  priority, but when the two threads are interleaved statement by statement it is
  not enabled inside a statement of the other one.

### What the violated runs say

1. `ui.c:8377, 8381`: the whole of `operation_requested` is cleared after a button
   or touch; a console request made meanwhile no longer interrupts the sweep. The
   command still runs, after the sweep.
2. `flash.c:90-103`: the configuration is checksummed once and read again word by
   word; commands of the shell thread that change it (`color`, `vbat_offset`) in
   between make the saved image invalid.
3. `main.c:262, 322, 324`: the read-modify-writes of `sweep_mode` race with those of
   `cmd_waitscan`, which can then wait until a button is pressed.
4. `sa_core.c:3683-3700`: `perform` sets `dirty` to false after it has recalculated.
   The console's `load` runs in the shell thread and may replace all settings and
   set `dirty` in between; the sweeps go on with a calculation of the old ones.
5. `sa_core.c:2602-2606`: `set_freq` does not set the offset it set last, but
   `SI4463_set_freq` has cleared it in between. A fast scan through the direct range
   whose step is between one half and the whole of the offset's reach (about 470 to
   940 kHz) receives every other point at the frequency of the one before.

Met while modelling, without a run of their own: after one timeout the shell's loop
ends when the command is taken, not when it has run (`main.c:3506`); waitscan
counts returns of `sweep`, aborted ones included (`main.c:259`), so that
`WaitedForSweeps` speaks of those; a request that ends the wait of a single zero
span trigger marks it done (`si4468.c:2005`, `sa_core.c:4913`), and one that ends the
reading of its buffer leaves the rest to the next sweep (`si4468.c:2214`); a sweep
that begins less than its points below the stop an input mode begins with loses its
start on a reset (`main.c:3984-3986`); the menu that is on top of a full stack is
overwritten (`ui.c:6695`).

## Proofs

TLAPS checks the following for every value of the constants that satisfies the named
assumption. Each component's theorems are in a proof module beside it; small
components share one.

| Proof module | About |
| --- | --- |
| `SpscRingProofs` | `SpscRing` and its refinement of `ByteFifo` |
| `ShellSweepProofs` | `ShellSweep` and its refinement of `CommandServer` |
| `StreamParserProofs` | `StreamParser` |
| `FlashStoreProofs` | `FlashStore` |
| `SweepProofs` | `SweepEngine`, `FrequencyDda`, `WaitScan` |
| `SettingsProofs` | `SweepRange`, `BackupRegisters`, `UserScreens`, `TraceMath`, `MultiBands` |
| `CoreProofs` | `CorrectionCursor`, `DirtyTiles`, `BusScheduler`, `RssiBuffer`, `PeakFinder`, `Tuner` |
| `ModArithmetic` | lemmas on division, remainders, least numbers, induction and recursion |

### The ring (`SpscAssumption`)

* `RingBounded`: `Spec => [](TypeOK /\ Bounded /\ PromiseKept)`. The inductive
  invariant `IndInv` adds `wcount <= Len(input)`, without which the second copy of a
  write could be asked for bytes the caller did not give. `AdvanceHead` and
  `AdvanceTail` are the arithmetic of a wrap; that the other side only ever frees room
  or adds bytes is what keeps a stale answer a promise.
* `RingExclusive`: `Spec => []ExclusiveSlots`. The bytes in flight on both sides are at
  most one capacity of consecutive cursors (`Bounded`), and `NearbyDistinct` says that
  such cursors have different slots. It rests on the capacity dividing the modulus of
  the cursors, which is what the ring's power-of-two check provides.
* `RingImplementsFifo`: `Spec => ImplementsFifo`. Only the release stores are steps of
  the abstract queue; a copy writes slots outside its contents. `TransferInv` says
  what a side that is between its copies and its release has already transferred,
  `StoredApart` that a slot written lies outside the contents the other side may read.

### The console hand-over (`ShellAssumption`)

For any number and mix of lines, timeouts and interrupts. `WakeupPending` is inductive
with `Asleep`, that a shell in its queue has not given up and is not in abort mode.
`NothingLeftBehind` is inductive by itself: `hurried` remembers whether the last
hand-over was one of abort mode, which does not wait.
What holds until the first timeout or abort mode needs `PatientInv`: a waiting shell
has its own command either pending or running, and nothing is pending or running
otherwise.

* `NoWakeupLost`, `OwnArguments`, `WaitedForOrDropped`: `[]WakeupPending`,
  `[]ArgumentsStable`, `[]NothingLeftBehind`.
* `Refinement`: `Spec => ImplementsServer`. While the host is patient each step of the
  threads is the step of `CommandServer` that the mapping of `phase` names, or leaves
  it alone; the first timeout or abort makes the promise void.

### The stream parser (`FrameAssumption`)

For streams and fragments of any length. `ParserInv` looks at the stream as a tape:
`Tape` (what was fed and not consumed is the input), `Window` (the storage is the end
of what was consumed), `Framing` (it begins like a frame and waits for the length its
header announces) and `Covered` (the checksum is that of the bytes before the
trailer). `Window` is said element by element, because every step, whether it skips
noise, joins bytes or resynchronizes, only moves the window (`WindowMoves`): it
consumes n bytes and drops the first k.

* `WindowSlides`: `Spec => []WindowIsSuffix`.
* `CrcCovers`: `Spec => []CrcCoversPrefix`. `CrcFoldConcat`, that a checksum can be
  continued, is induction over data; it is proved by a least counterexample from
  `LeastNumber` of `ModArithmetic`, which rests on finite sets ordered by inclusion.
* `DeliversTheStream`: `Spec => []DeliversClaims`, and `EveryByteAccounted`:
  `Spec => []BytesAccounted`. `Claims` scans a whole stream from right to left, the
  parser reads it from left to right and never sees its end. `Leads` bridges the two: a
  sequence of claims and a place lead a stream's first bytes if the scan of every
  stream that begins with them makes those claims and then what it claims from that
  place on. `Scanned` says that what the parser has claimed leads what it consumed, up
  to its window; `Refuted`, that a byte it drops begins no valid header however the
  stream goes on, moves the place (`LeadsOn`), and a whole frame moves it and adds a
  claim (`LeadsClaim`). At the end of what was consumed nothing more can be claimed
  (`LeadsToEnd`). That `Claims`, `Decoded` and `FlattenSeq` are what their recursion
  says comes from `Induction` and `Recursion` of `ModArithmetic`, which follow from
  `LeastNumber`.

### Saved images

Both theorems have the hypothesis `OnlyShellSaves`: the shell is the only thread that
saves. Without it they are false, as the run `CalibrationSaved` shows. They hold for
any number of presets and of values of a data word.

* `AcceptedOnlySaved`: `Spec => []AcceptedWasSaved`. `SumsTried` is the stronger and
  inductive half: the checksum word of an area is erased, torn, or the checksum of an
  image some save began with; an image that matches it is that one, because the
  checksum stands for the words it covers.
* `SavesLast`: `Spec => []SavedLasts`. `Progress` says of the save in progress which
  words of its area are erased and which are programmed, so that the last one
  completes the image; pages of different areas do not meet (`AreaShape` and the lemmas
  on addresses).

### The sweep and its grid (`SweepAssumption`)

* `AlwaysHoldsOwnSamples`, `AlwaysAverageIsMean`: for any number of points and of scans
  told apart. `HoldsOwnSamples` speaks of the end of a first pass, so the invariant has
  to say how far a pass has come: `OwnInv` says that the points before `point` are
  replaced, `EvenInv` that the number of samples of a point keeps up with the count of
  scans while nothing disturbs it, `AtFirst` which places of the loop belong to a
  recalculation. `StoredPoint` is what the folding of a sample does to one point.
* `AnswersMatchLegacy`: `DdaSpec => []MatchesLegacy`, for requests of any size. The
  invariant `GridInv` says that the current frequency and the error are quotient and
  remainder of the grid's dividend; `AddCarries` is the one step of long division the
  adder makes.
* `AnswersNearestHertz`: `DdaSpec => []Nearest`, from the same invariant: what
  separates a point from the line is the first error less the remainder
  (`OffTheLine`), and that is half a hertz at most.

### waitscan (`WaitScanAssumption`)

* `WaitScanWaits`: `~Between => (Wait!Spec => WaitedForSweeps)`, for any number of
  scans. `Counted` balances the scans still asked for against those that ended, by
  where the sweep thread stands; `Booked` says that what the thread holds between a
  load and its store is still a change of what is there, which is where `~Between`
  is needed: the run `WaitScanReturns` shows what happens without it.

### Settings

* `AlwaysWithinRange`, `AlwaysPointsApart`, for all frequencies, ranges and numbers of
  points (`RangeAssumption`: every range is in order and below the bound, and some
  number of points is the largest). Together with types they are inductive as they
  stand; the work is in one request, whose steps correct each other: `RequestedInside`,
  `ForcedInside` and `SetInside` say what each kind of request owes to the range and
  what it may keep of the sweep before.
* `SweepSurvivesReset`: `BackupSpec => []RestoredSweep`, and `ResetWithinRange`:
  `BackupSpec => []WithinRange`, for any modes, ranges, presets, numbers of points and any
  way of joining words in a checksum (`BackupAssumption`: the ranges of a mode are among
  the ranges, a preset holds a sweep in order, perhaps outside its range). `CopyInv` says
  which words of the registers are of the image being copied, so that after the last one
  they hold a sweep in order (`WordsOfOne`); `Starting` says what of the preset and of
  `set_mode` the words are then set on top of. `RestoresInput` and `RestoresOutput` follow
  the requests of `main` from there, each of which corrects the one before, for a sweep
  inside the range; `NotForced` says which sweeps `force_cw` leaves alone. `TakenInside`
  asks less of the words: those of two images that pass the checksum, or of a sweep that
  was left outside its range, still end inside it.
* `AlwaysKeypadListens`, `AlwaysOutputFormInOutput`, for a stack of any depth of at least
  two (`ScreensAssumption`). The strengthening `ListensInv` relates the keypad to what
  `Thread1` is doing; `Stacked` says that the top menu is only at the bottom and the
  menu of modes only above it, which is why leaving it leaves nothing of another mode,
  even after the stack has overflowed.
* `AlwaysNormalizedTogether`, `AlwaysReferenceKept`, for any number of traces
  (`TracesAssumption`). A recall brings back bookkeeping from an earlier time, so the
  invariant holds of the stored preset too (`PresetInv`); the reference is kept because
  the last trace is frozen, shows no table and is not the current one, unless one of the
  steps that `overridden` marks has made it so (`ReferenceInv`).
* `PointsStayInBands`: `Multi!Spec => []PointsInBands`, for any bands, points and
  precision of the step (`BandsAssumption`). The dealing is a function of the bands, so
  the invariant `Laid` says what the last one left; the work is in one dealing.
  `CapacityFacts`: a band that does not hold all points holds at least as many as its
  share of the span, less half a unit of the float's precision. `AllDealt` sums this up
  over the bands (`BelowSums`, by `Induction` and `Recursion`): where the step is wide
  enough (`Dealable`) there is room for all points, so that none keeps the band of an
  earlier dealing. That the sum of the spans may wrap only makes the steps smaller.

### The core library

* `AnswersOnCurve`: `Spec => [](TypeOK /\ AnswerOnCurve)`, for tables of any length
  (`CursorAssumption`). `SearchOnCurve` is the point of it: the search may start at a
  segment that begins exactly at the frequency and so answer from the segment above the
  point instead of the one below; `ExactAtFirst` and `ExactAtSecond` say that both
  interpolations give the point's own correction, rising or falling. It rests on the
  order of the points, which `init` checks between neighbours only; `Tables` states it
  for all pairs, as transitivity gives it.
* `AnswersNearest`: `Spec => []NearestToLine`: rounding away from zero and the clamp
  to an `int16_t` leave the answer within half a unit of the line.
* `BusByUrgency`: `BusSpec => []OvertakenByUrgentOnly`, for any number of clients.
* `StaleStaysDirty`: `TilesSpec => []StaleIsDirty`, for any screen, tile size and width
  of the bitmap's words (`TilesAssumption`). The clipping of a rectangle and the
  rounding to tiles never leave out a pixel on the screen, and a popped tile is the only
  one whose pixels are drawn.

### The RSSI buffer (`BufferAssumption`)

* `WindowAroundTrigger`: `Rssi!Spec => []TriggerWindow`, for any number of points from
  two on. `Circle` says that every slot holds a sample as old as its distance behind
  the next slot, which is so before a trigger can fire only because the level before
  the first sample of the wait is undefined; `FillInv` counts the samples that the
  window still wants; `Reading` follows the reading once round. What an aborted sweep
  leaves in the reading position is overwritten by the next fill. With spur removal
  the window is not claimed; `PcKnown` says that only then a point has a second pass,
  and that no sweep begins inside one.

### Peaks and markers (`PeakAssumption`)

* `MarkersFollowPeaks`: `Peak!Spec => []MarkersOnPeaks`, and `SearchEndsHighest`:
  `Peak!Spec => []SearchFindsHighest`, for traces of any length and levels, any noise
  and any number of markers. What a peak is, a highest point between two much lower
  ones, is said of the whole trace; the walk sees a point at a time. A `Candidate` is a
  point that becomes a peak as soon as the trace falls behind it: `Falling` says that
  down a slope every candidate already is a peak, `Climbing` that up a slope the
  remembered point is the only one, behind all peaks (`Turns`, `ClimbsOn`,
  `TopPassed`). `Table` says that the sorted table holds the highest peaks seen, the
  highest first, and all of them until it is full (`TableGrows`). A peak's rank is then
  its place (`TableRanks`), also for the walk that starts over at the points around zero
  hertz, as `SeenBelow` leaves those out.

### The tuner (`TunerAssumption`)

* `OscillatorStaysKnown`: `Tune!Spec => []OscillatorKnown`, for any points, dividers,
  crystals and settings. `Known` says it of the driver's state as one value: driver and
  chip make the frequency in the caches, or the caches are empty; every operation but a
  new modulus keeps it (`TunesOscillator`, `DrivesMixer`, `CountsR`, `TunesReceiver`). The
  modulus is the hard part: perform sets it without emptying a cache, which is harmless
  only if the R of a point decides its modulus and a new R empties the caches. `Settled`
  says that no point of the sweep changes the modulus of the present R;
  `DividersAgree` why a point through the mixer settles that, and `PointsInOrder` that
  every such point below the present one was tuned before it. So a leaked output can not
  be tuned with one modulus and be followed by a point with another, as points above a
  leaked one leak too, which is what `TunerAssumption` says of `sa_core.c:229-237`.
* `PointsAreTuned`: `Tune!Spec => []TunedToPoint`, the point of all this: in whatever order
  points are tuned, dividers chosen and settings changed, oscillator and receiver together
  are tuned to the point. `TunedInv` adds to the invariant above that the caches are right
  as well: the oscillator is at most a crystal away from what `set_freq` was asked for
  (`Near`), the receiver exactly where it was asked to go, without an offset left over from
  a fast scan or from modulation (`Placed`), and R always divides the crystal into
  something (`Sound`). The first two have to hold only while nothing has changed since the
  last point, as a change empties the caches before anything is tuned (`BegunKept`). `Kept`
  is what each operation of the drivers preserves. Three facts carry the arithmetic:
  `ErrorBelowCrystal` (rounding to half a reference, then dividing by the output divider
  and by the modulus, which never makes the error grow), `ErrorMadeUp` (on each of the
  three sides the error of the oscillator cancels but for the remainder of the harmonic
  and the tolerance) and `ReceiverAsked` (the receiver is never asked for frequency 0,
  which the caches would take for "none"). The last one is why `TunerAssumption` bounds
  the crystal and `MAX_COMPENSATION`, times the harmonic, by the intermediate frequency:
  30 MHz and 50 kHz against 977 MHz. The lowest frequency such an oscillator makes,
  34.375 MHz (`si4468.c:512-529`), is above the crystal. A bound of a whole crystal is
  crude, the device is accurate to a step of the modulus, but nothing finer is needed.
  Tracking output is excluded from both properties because they fail with it, where a
  direct point leaves the oscillator just where a later mixed point wants it: it is kept
  there, with a new modulus under its N and fraction. With a crystal of 8, an intermediate
  frequency of 28 and a direct point at 11, the mixed point at 39 is then received with an
  oscillator at 14 in place of 11.

### Only model-checked

* Liveness (`HeldPressHandled`, `ShellReturns`, `WaitScanReturns`, `ChangeTakenUp`,
  `RequestEndsSweep`): TLAPS has no support for fairness and `ENABLED` here.
  Every safety invariant, action property and refinement of a passing run is a theorem.

## Not modelled

* The binary USB transport, the arbitrary waveform output and the ownership of the
  CRC peripheral (`modern/embedded`): in this image no code qualifies the first two,
  so that they cannot start, and only the shell's self test uses the third. The ring
  and the parser below them are modelled.
* The trace codecs, measurements, FFT and the laboratory helpers of `modern/core`:
  functions of their arguments over byte strings and wide fixed-point numbers, where
  small bounds would show nothing that the unit tests do not.
* The level half of the sweep engine: filters, attenuation, gain control, spur
  tables, the feedback on the sweep time. It is arithmetic on measured levels, whose
  distribution is not in the code.
* `capture` against the drawing that shares its buffer, and the frequency cache that
  a `load` fills while a sweep reads it: see the notes of these hazards in
  `PROJECT.json`.
* Bands on several traces: the search for the next band (`sa_core.c:5181-5187`) reads
  behind the last one and never ends when none is enabled; what it reads is not
  defined by the code.
* Drawing, fonts, text formatting; the browser and the files of the SD card;
  USB, clock, ADC and codec drivers; board files; host tools. Layout, hardware
  access or scripts that never run on the device.
* FatFs, the USB stack, the register headers of the chips and the other vendored or
  generated files, which are most of the lines of the repository (FatFs and its
  tables alone 25,000 of 91,000).

## Plan

Done: the modules above. What would come next:

1. `SweepEngine` with several traces, and the bands on them.
2. Automatic attenuation and reference level of the sweep (`sa_core.c:5876-6014`): that
   they settle.
3. The self-test and remote flags of `sweep_mode` in `WaitScan`; `capture` and the
   drawing buffer in `ShellSweep`.
4. Proofs of what these add; the safety properties of the present runs are proved.
