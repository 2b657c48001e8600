----------------------------- MODULE TraceMath -----------------------------
(***************************************************************************)
(* The traces of sa_core.c.  A sweep measures the traces that are not frozen;  *)
(* a trace can be shown less a reference, which the first normalized trace      *)
(* leaves in the last trace, TRACE_TEMP.  The menus of ui.c, its files and the    *)
(* console copy, freeze, hide and normalize; a trace may show a table of levels,   *)
(* as a limit or to trigger on.  A preset keeps the settings, not the levels.       *)
(***************************************************************************)
EXTENDS Integers, FiniteSets

CONSTANTS
  TRACES_MAX,
  TablesMax      \* bound: the traces that show a table at once

ASSUME TracesAssumption == TRACES_MAX \in Nat \ {0}

VARIABLES
  stored,             \* setting.stored: frozen
  normalized,
  normalized_trace,   \* -1, or the trace that the reference was taken from
  current_trace,      \* the one the menus are about
  table,              \* setting.average is AV_TABLE: these show a table of levels
  debugging,          \* debug_avoid or debug_spur.  Bound: one of the two
  preset,             \* a saved copy of the settings
  reference,          \* history: TRACE_TEMP holds the reference
  overridden          \* history: something else has replaced, thawed or recalled it

settings == <<stored, normalized, normalized_trace, table>>
traceVars == <<settings, current_trace, debugging, preset, reference, overridden>>

Traces == 0 .. TRACES_MAX - 1
TRACE_STORED == 1
TRACE_TEMP == TRACES_MAX - 1
None == [t \in Traces |-> FALSE]

TraceInit ==
  /\ stored = None /\ normalized = None /\ normalized_trace = -1
  /\ table = {} /\ current_trace = 0 /\ debugging = FALSE
  /\ preset = [stored |-> None, normalized |-> None, trace |-> -1, table |-> {}]
  /\ reference = FALSE /\ overridden = FALSE

-----------------------------------------------------------------------------
\* The sweep thread measures a point of each trace that is not frozen; to debug, it leaves
\* what it measures in TRACE_TEMP in any case.
Sweep ==
  /\ reference' = (reference /\ stored[TRACE_TEMP] /\ ~debugging)
  /\ overridden' = (overridden \/ debugging)
  /\ UNCHANGED <<settings, current_trace, debugging, preset>>

\* Copies the levels only.
CopiedThawed(t) == stored

\* What copy_trace freezes.
Copied(t) == [stored EXCEPT ![t] = TRUE]

\* The other traces stay normalized.
LosingOnly(t) == {t}

\* toggle_normalize(t), off: the traces that lose the reference with t.
Losing(t) == {f \in Traces \ {TRACE_TEMP} : normalized[f] /\ (normalized_trace = t \/ f = t)}

NormalizeOn(t) ==
  /\ ~normalized[t]
  /\ normalized' = [normalized EXCEPT ![t] = TRUE]
  /\ IF normalized_trace = -1
     THEN stored' = Copied(TRACE_TEMP) /\ normalized_trace' = t /\ reference' = TRUE
          /\ overridden' = FALSE
     ELSE UNCHANGED <<stored, normalized_trace, reference, overridden>>
  /\ UNCHANGED <<table, current_trace, debugging, preset>>

NormalizeOff(t) ==
  /\ normalized[t]
  /\ normalized' = [f \in Traces |-> normalized[f] /\ f \notin Losing(t)]
  /\ IF normalized_trace = t
     THEN normalized_trace' = -1 /\ stored' = [stored EXCEPT ![TRACE_TEMP] = FALSE]
     ELSE UNCHANGED <<normalized_trace, stored>>
  /\ UNCHANGED <<table, current_trace, debugging, preset, reference, overridden>>

\* The menu does not offer it for the last trace.
ToggleNormalize ==
  /\ current_trace # TRACE_TEMP
  /\ NormalizeOn(current_trace) \/ NormalizeOff(current_trace)

\* menu_trace_acb: "Disable normalization first".  The menu of the markers selects trace 0.
SelectTrace(t) ==
  /\ ~(normalized_trace # -1 /\ t = TRACE_TEMP)
  /\ current_trace' = t
  /\ UNCHANGED <<settings, debugging, preset, reference, overridden>>

\* store_trace, from the menu or the console, neither of which looks at the reference.
StoreTrace(f, t) ==
  /\ f # t
  /\ stored' = Copied(t)
  /\ reference' = (reference /\ t # TRACE_TEMP)
  /\ overridden' = (overridden \/ t = TRACE_TEMP)
  /\ UNCHANGED <<normalized, normalized_trace, table, current_trace, debugging, preset>>

\* A level from the console.
EnterLevel(t) ==
  /\ reference' = (reference /\ t # TRACE_TEMP)
  /\ overridden' = (overridden \/ t = TRACE_TEMP)
  /\ UNCHANGED <<settings, current_trace, debugging, preset>>

\* The levels of a file, frozen.
LoadLevels ==
  /\ stored' = [stored EXCEPT ![current_trace] = TRUE]
  /\ reference' = (reference /\ current_trace # TRACE_TEMP)
  /\ UNCHANGED <<normalized, normalized_trace, table, current_trace, debugging, preset, overridden>>

FreezeFromMenu ==
  /\ stored' = [stored EXCEPT ![current_trace] = ~@]
  /\ UNCHANGED <<normalized, normalized_trace, table, current_trace, debugging, preset, reference,
                 overridden>>

FreezeFromConsole(t, on) ==
  /\ stored' = [stored EXCEPT ![t] = on]
  /\ overridden' = (overridden \/ t = TRACE_TEMP)
  /\ UNCHANGED <<normalized, normalized_trace, table, current_trace, debugging, preset, reference>>

\* Two traces show what is debugged.
ToggleDebug ==
  /\ debugging' = ~debugging
  /\ stored' = [t \in Traces |-> IF t \in {TRACE_STORED, TRACE_TEMP} THEN debugging' ELSE stored[t]]
  /\ overridden' = TRUE
  /\ UNCHANGED <<normalized, normalized_trace, table, current_trace, preset, reference>>

-----------------------------------------------------------------------------
(* Tables of levels.                                                         *)

\* limits_update, for some of the tables: those with levels enabled are shown, frozen.
Shown(tables) ==
  \E filled \in SUBSET tables :
    /\ stored' = [t \in Traces |-> IF t \in tables THEN t \in filled ELSE stored[t]]
    /\ reference' = (reference /\ TRACE_TEMP \notin filled)
    /\ overridden' = (overridden \/ TRACE_TEMP \in tables)

\* A limit is edited, or a sweep begins after a change.
UpdateLimits ==
  /\ Shown(table)
  /\ UNCHANGED <<normalized, normalized_trace, table, current_trace, debugging, preset>>

\* A table of levels from the menu, whose limits come later, or with them from a file.
ChooseTable ==
  /\ table' = table \union {current_trace}
  /\ Cardinality(table') <= TablesMax
  /\ \/ UNCHANGED <<stored, reference, overridden>>
     \/ Shown(table')
  /\ UNCHANGED <<normalized, normalized_trace, current_trace, debugging, preset>>

\* set_average, away from the table.
LeaveTable(t) ==
  /\ t \in table
  /\ table' = table \ {t} /\ stored' = [stored EXCEPT ![t] = FALSE]
  /\ overridden' = (overridden \/ t = TRACE_TEMP)
  /\ UNCHANGED <<normalized, normalized_trace, current_trace, debugging, preset, reference>>

\* menu_trigger_level_acb: the trace that triggered so far leaves its table, if it shows one.
\* Trace t, not shown by now, triggers with one, even the last trace while it is the reference.
TriggerTrace(t) ==
  \E former \in {{}} \union {{u} : u \in table \ {t}} :
    /\ table' = (table \ former) \union {t} /\ Cardinality(table') <= TablesMax
    /\ stored' = [u \in Traces |-> u = t \/ (stored[u] /\ u \notin former)]
    /\ current_trace' = t
    /\ overridden' = (overridden \/ TRACE_TEMP \in former \union {t})
    /\ UNCHANGED <<normalized, normalized_trace, debugging, preset, reference>>

-----------------------------------------------------------------------------
\* reset_settings, by a change of the mode or a self test, which freezes a trace.
ResetSettings ==
  /\ \E frozen \in {{}, {TRACE_STORED}} : stored' = [t \in Traces |-> t \in frozen]
  /\ normalized' = None /\ normalized_trace' = -1 /\ table' = {}
  /\ UNCHANGED <<current_trace, debugging, preset, reference, overridden>>

SavePreset ==
  /\ preset' = [stored |-> stored, normalized |-> normalized, trace |-> normalized_trace,
                table |-> table]
  /\ UNCHANGED <<settings, current_trace, debugging, reference, overridden>>

RecallPreset ==
  /\ stored' = preset.stored /\ normalized' = preset.normalized
  /\ normalized_trace' = preset.trace /\ table' = preset.table
  /\ overridden' = TRUE
  /\ UNCHANGED <<current_trace, debugging, preset, reference>>

TraceNext ==
  \/ Sweep \/ ToggleNormalize
  \/ \E t \in Traces : SelectTrace(t) \/ EnterLevel(t) \/ LeaveTable(t) \/ TriggerTrace(t)
  \/ \E f, t \in Traces : StoreTrace(f, t)
  \/ LoadLevels \/ FreezeFromMenu \/ ToggleDebug
  \/ \E t \in Traces, on \in BOOLEAN : FreezeFromConsole(t, on)
  \/ UpdateLimits \/ ChooseTable
  \/ ResetSettings \/ SavePreset \/ RecallPreset

TraceSpec == TraceInit /\ [][TraceNext]_traceVars

-----------------------------------------------------------------------------
(* Properties.                                                               *)

\* As long as a trace is normalized the one that the reference was taken from is, and
\* its number says so; presets keep the two together (sa_core.c:1545-1570, 637-669).
NormalizedTogether ==
  IF normalized_trace = -1 THEN \A t \in Traces : ~normalized[t]
  ELSE normalized[normalized_trace] /\ ~normalized[TRACE_TEMP]

\* While traces are normalized the last trace holds the reference they were normalized
\* with, whatever the menus of the traces do, which select no reference (sa_core.c:1545-1570,
\* 5575-5587; "Disable normalization first", ui.c:3347-3351).  Not so once it has been copied,
\* frozen or written to on purpose, a preset recalled, a sweep debugged, or a table of levels
\* put on it: the menu of the trigger offers that (sa_core.c:1441-1473; ui.c:3323-3332).
ReferenceKept == normalized_trace # -1 => reference \/ overridden
=============================================================================
