----------------------------- MODULE RssiBuffer -----------------------------
(***************************************************************************)
(* The RSSI buffer of si4468.c: SI446x_Fill and SI446x_trigger_fill fill    *)
(* the array age at the first point of a zero span sweep, Si446x_RSSI hands *)
(* it out point by point, and sweep() of sa_core.c uses the same array for   *)
(* the counters of AV_MAX_DECAY.  A sample is known by how many samples ago   *)
(* it was taken; Old is a sample of an earlier sweep.  With spur removal      *)
(* perform() measures a point twice and keeps the lower sample.              *)
(***************************************************************************)
EXTENDS Integers

CONSTANT sweep_points    \* two at least

VARIABLES
  setting,               \* how the sweep measures, and its trigger
  trigger,               \* setting.trigger: T_NORMAL, T_SINGLE or T_DONE
  operation_requested,
  pc,                    \* where sweep() and perform() are
  age, buf_index, buf_end, buf_read,
  i, waiting, data_level, \* locals of SI446x_trigger_fill; data_level: the last level
  point,                 \* local i of sweep()
  spur_second_pass,      \* local of perform()
  trace,                 \* measured[t], as far as this sweep has come
  since,                 \* history: samples since the trigger fired, or Never
  completed

bufferVars == <<age, buf_index, buf_end, buf_read>>
fillVars == <<i, waiting, data_level, since>>
rssiVars == <<setting, trigger, operation_requested, pc, bufferVars, fillVars,
              point,
                 spur_second_pass, trace, completed>>

Slots == 0 .. sweep_points - 1
Old == 3 * sweep_points
Never == -1
\* A level below (0) or at and above (1) that of the trigger.
Levels == 0 .. 1
Undef == 2

\* The lower of two samples, whose age is not followed.
Lower == Old + 1

\* "fast" is zero span with SI446x_Fill, "triggered" zero span with a trigger,
\* "direct" every sweep that reads the chip point by point; mode and up are used by
\* a triggered one only.  A fast sweep is without spur removal.
Settings ==
  [measures: {"triggered"}, mode: {"PRE", "MID", "POST"}, up: Levels, decay: BOOLEAN,
   spur: BOOLEAN] \union
  [measures: {"fast"}, mode: {"PRE"}, up: {1}, decay: BOOLEAN, spur: {FALSE}] \union
  [measures: {"direct"}, mode: {"PRE"}, up: {1}, decay: BOOLEAN, spur: BOOLEAN]

\* Where age holds an earlier sweep's samples, or the counters of AV_MAX_DECAY.
Stale == [k \in Slots |-> Old]

Earlier(a) == IF a < Old THEN a + 1 ELSE a
\* What has been measured, one sample later.
Aged(b) == [k \in Slots |-> Earlier(b[k])]
\* The next slot, at the end of the array the first.
After(k) == IF k + 1 >= sweep_points THEN 0 ELSE k + 1

-----------------------------------------------------------------------------
Init ==
  /\ setting \in Settings /\ trigger = "NORMAL" /\ operation_requested = FALSE
  /\ pc = "idle" /\ age = Stale
  /\ buf_index = 0 /\ buf_end = 0 /\ buf_read = FALSE
  /\ i = 0 /\ waiting = "ARMING" /\ data_level = Undef /\ since = Never
  /\ point = 0 /\ spur_second_pass = FALSE /\ trace = Stale /\ completed = FALSE

\* A button, a touch or a console command.
Request ==
  /\ ~operation_requested /\ operation_requested' = TRUE
  /\ UNCHANGED <<setting, trigger, pc, bufferVars, fillVars, point,
                 spur_second_pass, trace, completed>>

\* Between two sweeps the request is served and may change the settings; T_NORMAL and
\* T_SINGLE resume the sweep that T_DONE had paused (set_trigger).
Serve ==
  /\ pc = "idle" /\ operation_requested
  /\ operation_requested' = FALSE
  /\ setting' \in Settings
  /\ trigger' \in {"NORMAL", "SINGLE", trigger}
  /\ completed' = FALSE /\ age' = Stale /\ trace' = Stale
  /\ UNCHANGED <<pc, buf_index, buf_end, buf_read, fillVars, point, spur_second_pass>>

\* The first point: fill the buffer, wait for the trigger, or neither.
Begin ==
  /\ pc = "idle" /\ trigger # "DONE"
  /\ pc' = (CASE setting.measures = "fast" -> "fill"
              [] setting.measures = "triggered" -> "trigger"
              [] OTHER -> "measure")
  /\ age' = Stale
  /\ trace' = Stale
  /\ i' = 0 /\ waiting' = "ARMING" /\ data_level' = Undef /\ since' = Never
  /\ point' = 0 /\ completed' = FALSE
  /\ UNCHANGED <<setting, trigger, operation_requested, buf_index, buf_end, buf_read,
                 spur_second_pass>>

\* SI446x_Fill(s, -1), with interrupts disabled: sample k goes to age[k], from
\* age[-1] on, and the last sample is the newest.
Fill ==
  /\ pc = "fill"
  /\ age' = [k \in Slots |-> sweep_points - 1 - k]
  /\ buf_index' = 0 /\ buf_end' = sweep_points - 1 /\ buf_read' = TRUE
  /\ pc' = "measure"
  /\ UNCHANGED <<setting, trigger, operation_requested, fillVars, point,
                 spur_second_pass, trace, completed>>

-----------------------------------------------------------------------------
(* SI446x_trigger_fill, one turn of its loop a step.                         *)

\* After the fill, complete or not, perform() ends a single trigger.
Return ==
  /\ trigger' = IF trigger = "SINGLE" THEN "DONE" ELSE trigger
  /\ pc' = "measure"

\* A request ends the wait for a trigger.
TriggerAborted ==
  /\ pc = "trigger" /\ operation_requested
  /\ Return
  /\ UNCHANGED <<setting, operation_requested, bufferVars, i, waiting, data_level, since,
                 point,
                 spur_second_pass, trace, completed>>

\* age[i++] = Si446x_readRSSI(), at the end of the array from its start again.
Sampled ==
  /\ age' = [Aged(age) EXCEPT ![i] = 0]
  /\ i' = After(i)

\* Waits for the trigger from the second sample on.
ArmingAtOnce ==
  /\ pc = "trigger" /\ ~operation_requested /\ waiting = "ARMING"
  /\ Sampled
  /\ waiting' = "WAITING"
  /\ UNCHANGED <<setting, trigger, operation_requested, pc, buf_index, buf_end, buf_read,
                 data_level, since, point,
                 spur_second_pass, trace, completed>>

\* The wait begins when the array is about to be full.
Arming ==
  /\ pc = "trigger" /\ ~operation_requested /\ waiting = "ARMING"
  /\ Sampled
  /\ waiting' = IF After(i) = sweep_points - 1 THEN "WAITING" ELSE "ARMING"
  /\ UNCHANGED <<setting, trigger, operation_requested, pc, buf_index, buf_end, buf_read,
                 data_level, since, point,
                 spur_second_pass, trace, completed>>

\* data_level = t_mode: the last two levels cross in the trigger's direction.
Crosses(level) == data_level = 1 - setting.up /\ level = setting.up

\* Where reading starts, which is also where filling ends.
WindowStart(k) ==
  IF setting.mode # "MID" THEN k
  ELSE IF k + sweep_points \div 2 >= sweep_points
       THEN k + sweep_points \div 2 - sweep_points
       ELSE k + sweep_points \div 2

\* A sample that does not trigger.
Waiting ==
  /\ pc = "trigger" /\ ~operation_requested /\ waiting = "WAITING"
  /\ \E level \in Levels : ~Crosses(level) /\ Sampled /\ data_level' = level
  /\ UNCHANGED <<setting, trigger, operation_requested, pc, buf_index, buf_end, buf_read,
                 waiting, since, point,
                 spur_second_pass, trace, completed>>

\* The sample that triggers; with T_POST it is also the last one of the window.
Triggers ==
  /\ pc = "trigger" /\ ~operation_requested /\ waiting = "WAITING"
  /\ Crosses(setting.up) /\ Sampled
  /\ waiting' = "FILLING" /\ since' = 0 /\ data_level' = setting.up
  /\ buf_index' = WindowStart(After(i))
  /\ IF setting.mode = "POST"
     THEN Return /\ buf_end' = buf_index' /\ buf_read' = TRUE
     ELSE UNCHANGED <<trigger, pc, buf_end, buf_read>>
  /\ UNCHANGED <<setting, operation_requested, point,
                 spur_second_pass, trace, completed>>

\* Samples after the trigger, until the window is full.
Filling ==
  /\ pc = "trigger" /\ ~operation_requested /\ waiting = "FILLING"
  /\ Sampled
  /\ since' = since + 1
  /\ IF After(i) = buf_index
     THEN Return /\ buf_end' = buf_index /\ buf_read' = TRUE
     ELSE UNCHANGED <<trigger, pc, buf_end, buf_read>>
  /\ UNCHANGED <<setting, operation_requested, buf_index, waiting, data_level,
                 point,
                 spur_second_pass, trace, completed>>

-----------------------------------------------------------------------------
(* The points of the sweep: Si446x_RSSI and the calculation of the trace.    *)

\* A request ends the sweep after the measurement, which is dropped.
EndPoint(stored) ==
  IF operation_requested
  THEN pc' = "idle" /\ trace' = stored /\ UNCHANGED <<point, completed>>
  ELSE /\ trace' = stored
       /\ IF point + 1 < sweep_points
          THEN point' = point + 1 /\ UNCHANGED <<pc, completed>>
          ELSE pc' = "idle" /\ completed' = TRUE /\ UNCHANGED point

\* With AV_MAX_DECAY age[point] is reset or counted up, unless the trace decays.
Decays(b) == {b} \union IF setting.decay THEN {[b EXCEPT ![point] = Old]} ELSE {}

\* The next sample of the buffer; the buffer is done where it began.
ReadBuffer ==
  /\ buf_read
  /\ buf_index' = After(buf_index)
  /\ buf_read' = (After(buf_index) # buf_end)
  /\ UNCHANGED buf_end

\* A sample of the chip ages what was measured before it.
SinceNext == IF since = Never THEN Never ELSE Earlier(since)

\* Spur removal that is automatic is switched for each point of a span; a zero span
\* has only one frequency.
FirstOfTwo == setting.spur /\ ~spur_second_pass
LastPass == FirstOfTwo => setting.measures = "direct"
Kept(sample) == IF spur_second_pass THEN Lower ELSE sample

\* The last or only pass over a point, from the buffer.
FromBuffer ==
  /\ pc = "measure" /\ LastPass
  /\ ReadBuffer
  /\ EndPoint([trace EXCEPT ![point] = Kept(age[buf_index])])
  /\ IF operation_requested THEN UNCHANGED age ELSE age' \in Decays(age)
  /\ spur_second_pass' = FALSE
  /\ UNCHANGED <<setting, trigger, operation_requested, fillVars>>

\* No buffer: a sample from the chip.
FromChip ==
  /\ pc = "measure" /\ ~buf_read /\ LastPass
  /\ EndPoint([Aged(trace) EXCEPT ![point] = Kept(0)])
  /\ IF operation_requested THEN age' = Aged(age) ELSE age' \in Decays(Aged(age))
  /\ spur_second_pass' = FALSE
  /\ since' = SinceNext
  /\ UNCHANGED <<setting, trigger, operation_requested, buf_index, buf_end, buf_read,
                 i, waiting, data_level>>

\* goto again: the sample is kept aside; at the first point of a triggered sweep the
\* buffer is filled again, after another trigger, even if that of T_SINGLE is T_DONE.
MeasureAgain ==
  /\ pc = "measure" /\ FirstOfTwo
  /\ spur_second_pass' = TRUE
  /\ \/ ReadBuffer /\ UNCHANGED <<age, trace>>
     \/ /\ ~buf_read /\ age' = Aged(age) /\ trace' = Aged(trace)
        /\ UNCHANGED <<buf_index, buf_end, buf_read>>
  /\ IF point = 0 /\ setting.measures = "triggered"
     THEN /\ pc' = "trigger" /\ i' = 0 /\ waiting' = "ARMING" /\ data_level' = Undef
          /\ since' = Never
     ELSE /\ since' = IF buf_read THEN since ELSE SinceNext
          /\ UNCHANGED <<pc, i, waiting, data_level>>
  /\ UNCHANGED <<setting, trigger, operation_requested, point, completed>>

Next ==
  \/ Request \/ Serve \/ Begin \/ Fill
  \/ TriggerAborted \/ Arming \/ Waiting \/ Triggers \/ Filling
  \/ FromBuffer \/ FromChip \/ MeasureAgain

Spec == Init /\ [][Next]_rssiVars

-----------------------------------------------------------------------------
(* Properties.                                                               *)

\* Where the sample that triggered is in the trace: just before it, in its middle
\* or at its end (si4468.c:2034-2047).
TriggerPosition ==
  CASE setting.mode = "PRE" -> -1
    [] setting.mode = "MID" -> sweep_points - 1 - sweep_points \div 2
    [] setting.mode = "POST" -> sweep_points - 1

\* A completed triggered sweep shows consecutive samples, oldest first, with the
\* sample that fired where the trigger mode promises it (si4468.c:1993-2062, 2207-2218),
\* unless AV_MAX_DECAY writes its counters into the buffer, or spur removal is on: each
\* point then takes two samples, the first point waits for a second trigger, and the
\* buffer ends in the middle of the trace (sa_core.c:5021-5046).
TriggerWindow ==
  (completed /\ setting.measures = "triggered" /\ ~setting.decay /\ ~setting.spur) =>
    LET p == TriggerPosition IN
    \A k \in Slots : trace[k] = since + p - k
=============================================================================
