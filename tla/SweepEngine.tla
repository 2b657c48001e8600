---------------------------- MODULE SweepEngine ----------------------------
(***************************************************************************)
(* One trace of sweep() and perform() of sa_core.c in input mode with a      *)
(* frequency span: the recalculation at the first point after a change, the  *)
(* points, the abort, the repetition until a trigger, the folding of samples *)
(* into the trace; with Thread1 before and after each sweep, and the console  *)
(* commands that change settings in the shell thread.  What is calculated     *)
(* from the settings is known by whether it belongs to the present ones.      *)
(***************************************************************************)
EXTENDS Integers

CONSTANTS Points,     \* sweep_points
          MaxScans    \* scans since a change that are told apart

ASSUME SweepAssumption == Points \in Nat \ {0} /\ MaxScans \in Nat \ {0}

VARIABLES
  dirty, scandirty, scan_after_dirty,
  calculated,          \* the calculation of perform() belongs to the present settings
  averaging,           \* setting.average: samples are folded into the trace
  trigger, triggered,
  enabled,             \* sweep_mode has SWEEP_ENABLE
  operation_requested,
  pc, point,
  trace,               \* per point: own calculation, samples folded, all with equal weight
  disturbed,           \* history: since the last change a scan was aborted or repeated
  completed

sweepVars == <<dirty, scandirty, scan_after_dirty, calculated, averaging, trigger, triggered,
               enabled, operation_requested, pc, point, trace, disturbed, completed>>
settingVars == <<calculated, averaging, trigger, enabled>>

Indices == 0 .. Points - 1
Triggers == {"AUTO", "NORMAL", "SINGLE", "DONE"}
TracePoints == [own: BOOLEAN, n: 0 .. MaxScans, even: BOOLEAN]

Init ==
  /\ dirty = TRUE /\ scandirty = TRUE /\ scan_after_dirty = 0 /\ calculated = FALSE
  /\ averaging \in BOOLEAN /\ trigger = "AUTO" /\ triggered = FALSE /\ enabled = TRUE
  /\ operation_requested = FALSE /\ pc = "rest" /\ point = 0
  /\ trace = [k \in Indices |-> [own |-> FALSE, n |-> 0, even |-> FALSE]]
  /\ disturbed = FALSE /\ completed = FALSE

-----------------------------------------------------------------------------
(* Who changes settings.                                                     *)

\* set_trigger: all but T_DONE assign sweep_mode, T_DONE pauses.
SetTrigger(t) == trigger' = t /\ enabled' = (t # "DONE")

\* Interrupts, and the shell for a command of the sweep thread.
Request ==
  /\ ~operation_requested /\ operation_requested' = TRUE
  /\ UNCHANGED <<dirty, scandirty, scan_after_dirty, settingVars, triggered, pc, point, trace,
                 disturbed, completed>>

\* Thread1 between sweeps: a command, a button or a touch is served.  It may pause or
\* resume, change any setting (and then dirty), the averaging (set_average) too.
Serve ==
  /\ pc = "rest" /\ operation_requested /\ operation_requested' = FALSE /\ pc' = "top"
  /\ \/ \E t \in {"AUTO", "NORMAL", "SINGLE"} : SetTrigger(t) /\ UNCHANGED <<dirty, calculated, averaging>>
     \/ enabled' \in BOOLEAN /\ UNCHANGED <<dirty, calculated, averaging, trigger>>
     \/ dirty' = TRUE /\ calculated' = FALSE /\ averaging' \in BOOLEAN /\ UNCHANGED <<trigger, enabled>>
  /\ UNCHANGED <<scandirty, scan_after_dirty, triggered, point, trace, disturbed, completed>>

\* load, in the shell thread and at any time: caldata_recall replaces the settings,
\* the count of scans among them, and resumes the sweep.  The shell has the higher
\* priority, so the sweep thread sees it done.
Load ==
  /\ dirty' = TRUE /\ calculated' = FALSE /\ averaging' \in BOOLEAN
  /\ trigger' \in {"AUTO", "NORMAL", "SINGLE"} /\ enabled' = TRUE
  /\ scan_after_dirty' \in {1, scan_after_dirty}
  /\ UNCHANGED <<scandirty, triggered, operation_requested, pc, point, trace, disturbed, completed>>

\* trigger, in the shell thread: set_trigger, and completed is claimed.
CmdTrigger ==
  /\ \E t \in {"AUTO", "NORMAL", "SINGLE"} : SetTrigger(t)
  /\ completed' = TRUE
  /\ UNCHANGED <<dirty, scandirty, scan_after_dirty, calculated, averaging, triggered,
                 operation_requested, pc, point, trace, disturbed>>

-----------------------------------------------------------------------------
(* The sweep thread.                                                         *)

\* Nothing to serve, or paused: Thread1 goes on round its loop.
Loop ==
  /\ \/ pc = "rest" /\ ~operation_requested /\ pc' = "top"
     \/ pc = "top" /\ ~enabled /\ pc' = "rest"
  /\ UNCHANGED <<dirty, scandirty, scan_after_dirty, settingVars, triggered, operation_requested,
                 point, trace, disturbed, completed>>

Begin ==
  /\ pc = "top" /\ enabled
  /\ triggered' = FALSE /\ pc' = "first" /\ point' = 0
  /\ UNCHANGED <<dirty, scandirty, scan_after_dirty, settingVars, operation_requested, trace,
                 disturbed, completed>>

\* perform(), first point: with dirty set everything is calculated from the settings.
Recalculate ==
  /\ pc = "first" /\ dirty
  /\ calculated' = TRUE /\ pc' = "calculated"
  /\ trace' = [k \in Indices |-> [trace[k] EXCEPT !.own = FALSE]]
  /\ UNCHANGED <<dirty, scandirty, scan_after_dirty, averaging, trigger, triggered, enabled,
                 operation_requested, point, disturbed, completed>>

\* Keeps the count of scans.
FirstPassGoesOnCounting ==
  /\ pc = "calculated" /\ scandirty' = TRUE /\ dirty' = FALSE /\ disturbed' = FALSE /\ pc' = "count"
  /\ UNCHANGED <<scan_after_dirty, settingVars, triggered, operation_requested,
                 point, trace, completed>>

\* Then the first pass with the new settings begins and dirty is cleared.
FirstPass ==
  /\ pc = "calculated"
  /\ scandirty' = TRUE /\ scan_after_dirty' = 0 /\ dirty' = FALSE
  /\ disturbed' = FALSE /\ pc' = "count"
  /\ UNCHANGED <<settingVars, triggered, operation_requested, point, trace, completed>>

NotDirty ==
  /\ pc = "first" /\ ~dirty /\ pc' = "count"
  /\ UNCHANGED <<dirty, scandirty, scan_after_dirty, settingVars, triggered, operation_requested,
                 point, trace, disturbed, completed>>

CountScan ==
  /\ pc = "count" /\ pc' = "measure"
  /\ scan_after_dirty' = IF scan_after_dirty < MaxScans THEN scan_after_dirty + 1 ELSE MaxScans
  /\ UNCHANGED <<dirty, scandirty, settingVars, triggered, operation_requested, point, trace,
                 disturbed, completed>>

\* An aborted pass counts as the first one.
AbortEndsFirstPass ==
  /\ pc = "measure" /\ operation_requested
  /\ completed' = FALSE /\ disturbed' = TRUE /\ pc' = "rest" /\ scandirty' = FALSE
  /\ UNCHANGED <<dirty, scan_after_dirty, settingVars, triggered,
                 operation_requested, point, trace>>

\* While a trigger is awaited, only at the last point.
AbortAutoOnly ==
  /\ pc = "measure" /\ operation_requested /\ trigger = "AUTO"
  /\ completed' = FALSE /\ disturbed' = TRUE /\ pc' = "rest"
  /\ UNCHANGED <<dirty, scandirty, scan_after_dirty, settingVars, triggered,
                 operation_requested, point, trace>>

\* A request drops the measurement and ends the sweep; scandirty stays.
Abort ==
  /\ pc = "measure" /\ operation_requested
  /\ completed' = FALSE /\ disturbed' = TRUE /\ pc' = "rest"
  /\ UNCHANGED <<dirty, scandirty, scan_after_dirty, settingVars, triggered,
                 operation_requested, point, trace>>

\* A sample replaces the point in the first pass and without averaging; else it is
\* folded in, by AV_100 with one part in scan_after_dirty.
Stored(p) ==
  IF scandirty \/ ~averaging
  THEN [own |-> TRUE, n |-> 1, even |-> TRUE]
  ELSE IF scan_after_dirty = MaxScans THEN p
  ELSE [own |-> p.own, n |-> IF p.n < MaxScans THEN p.n + 1 ELSE MaxScans,
        even |-> p.even /\ scan_after_dirty = p.n + 1]

Measure ==
  /\ pc = "measure" /\ ~operation_requested
  /\ trace' = [trace EXCEPT ![point] = Stored(@)]
  /\ triggered' \in {triggered, TRUE}
  /\ IF point + 1 < Points
     THEN point' = point + 1 /\ UNCHANGED pc
     ELSE pc' = "measured" /\ UNCHANGED point
  /\ UNCHANGED <<dirty, scandirty, scan_after_dirty, settingVars, operation_requested,
                 disturbed, completed>>

\* Measures again without looking at dirty.
AgainMeasures ==
  /\ pc = "measured" /\ trigger # "AUTO" /\ ~triggered
  /\ pc' = "count" /\ point' = 0 /\ disturbed' = TRUE
  /\ UNCHANGED <<dirty, scandirty, scan_after_dirty, settingVars, triggered,
                 operation_requested, trace, completed>>

\* No trigger yet: again, from the first point.
Again ==
  /\ pc = "measured" /\ trigger # "AUTO" /\ ~triggered
  /\ pc' = "first" /\ point' = 0 /\ disturbed' = TRUE
  /\ UNCHANGED <<dirty, scandirty, scan_after_dirty, settingVars, triggered,
                 operation_requested, trace, completed>>

\* The sweep is complete; a single trigger pauses.
Finish ==
  /\ pc = "measured" /\ (trigger = "AUTO" \/ triggered)
  /\ IF trigger = "SINGLE" THEN SetTrigger("DONE") ELSE UNCHANGED <<trigger, enabled>>
  /\ scandirty' = FALSE /\ completed' = TRUE /\ pc' = "rest"
  /\ UNCHANGED <<dirty, scan_after_dirty, calculated, averaging, triggered, operation_requested,
                 point, trace, disturbed>>

SweepThread ==
  \/ Loop \/ Begin \/ Recalculate \/ FirstPass \/ NotDirty \/ CountScan \/ Abort \/ Measure
  \/ Again \/ Finish \/ Serve

Next == SweepThread \/ Request \/ Load \/ CmdTrigger

Spec == Init /\ [][Next]_sweepVars /\ WF_sweepVars(SweepThread)

-----------------------------------------------------------------------------
(* Properties.                                                               *)

TypeOK ==
  /\ {dirty, scandirty, calculated, averaging, triggered, enabled, operation_requested,
      disturbed, completed} \subseteq BOOLEAN
  /\ scan_after_dirty \in 0 .. MaxScans /\ trigger \in Triggers
  /\ pc \in {"rest", "top", "first", "calculated", "count", "measure", "measured"}
  /\ point \in Indices /\ trace \in [Indices -> TracePoints]

\* Once the first pass is over, no point holds or averages a sample of an earlier
\* calculation, whatever was aborted since (sa_core.c:3697, 5606, 5780).
HoldsOwnSamples == (~scandirty /\ pc # "calculated") => \A k \in Indices : trace[k].own

\* In AV_100 all samples of a point weigh alike, unless a scan was aborted or repeated
\* for a trigger: those raise the count for points they did not add a sample to
\* (sa_core.c:3820-3823, 5640).
AverageIsMean ==
  (calculated /\ ~scandirty /\ ~disturbed /\ pc # "calculated") =>
    \A k \in Indices : trace[k].even

\* Settings are either calculated or still to be ("Calculate new scanning solution",
\* sa_core.c:5137).
CalculatedOrDirty == calculated \/ dirty

\* A change is taken up, even by a sweep that waits for its trigger, unless the sweep is
\* paused (sa_core.c:3672-3700).
ChangeTakenUp == dirty ~> (~dirty \/ ~enabled)

\* A request ends the sweep, even one that waits for its trigger (sa_core.c:5268).
RequestEndsSweep == operation_requested ~> pc = "rest"
=============================================================================
