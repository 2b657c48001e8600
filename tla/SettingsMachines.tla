-------------------------- MODULE SettingsMachines --------------------------
(***************************************************************************)
(* What the user sets, for TLC: the sweep range, its backup registers, the   *)
(* bands, the screens and the traces.  The backup registers hold the sweep    *)
(* range; the other machines share no state, so that one of them, any one,     *)
(* runs while the others stay as they began.                                   *)
(***************************************************************************)
EXTENDS BackupRegisters, UserScreens, TraceMath, MultiBands, Bitwise

VARIABLE running    \* the machine that runs

\* Input modes from zero and from above it, and an output mode from zero; a preset with
\* few points, and one outside its range.
SomeRanges == {[min |-> 0, max |-> 9], [min |-> 0, max |-> 13], [min |-> 3, max |-> 12]}
SomeModes ==
  (0 :> {[min |-> 0, max |-> 9], [min |-> 0, max |-> 13]}) @@ (1 :> {[min |-> 3, max |-> 12]})
    @@ (2 :> {[min |-> 0, max |-> 9], [min |-> 0, max |-> 13]})
SomeTops == (0 :> 9) @@ (1 :> 12) @@ (2 :> 2)
SomePresets ==
  {[mode |-> 0, range |-> [min |-> 0, max |-> 9], sweep |-> [start |-> 2, stop |-> 4], points |-> 3],
   [mode |-> 2, range |-> [min |-> 0, max |-> 9], sweep |-> [start |-> 11, stop |-> 11], points |-> 5]}
ExclusiveOr(a, b) == a ^^ b

vars == <<backupVars, screenVars, traceVars, bandVars, running>>

MachinesInit ==
  /\ running \in {"range", "backup", "bands", "screens", "traces"}
  /\ BackupInit /\ (running \notin {"range", "backup"} => maxFreq = 9)
  /\ (running # "backup" => setting_mode \in {0, 1})
  /\ Multi!Init /\ (running # "bands" => band_points = POINTS_COUNT)
  /\ ScreenInit
  /\ TraceInit

MachinesNext ==
  /\ \/ running = "range" /\ Next /\ UNCHANGED <<regVars, bandVars, screenVars, traceVars>>
     \/ running = "backup" /\ BackupNext /\ UNCHANGED <<bandVars, screenVars, traceVars>>
     \/ running = "bands" /\ Multi!Next /\ UNCHANGED <<backupVars, screenVars, traceVars>>
     \/ running = "screens" /\ ScreenNext /\ UNCHANGED <<backupVars, bandVars, traceVars>>
     \/ running = "traces" /\ TraceNext /\ UNCHANGED <<backupVars, bandVars, screenVars>>
  /\ UNCHANGED running

MachinesSpec == MachinesInit /\ [][MachinesNext]_vars
=============================================================================
