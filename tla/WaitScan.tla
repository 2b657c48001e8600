------------------------------ MODULE WaitScan ------------------------------
(***************************************************************************)
(* cmd_waitscan of main.c runs in the shell thread: it turns continuous     *)
(* sweeping off, asks the sweep thread for some scans through sweep_mode    *)
(* and sweep_once_count and polls until the sweep is paused.  The sweep     *)
(* thread changes the same two variables, without a lock: it loads one,     *)
(* changes it in a register and stores it, and the shell thread, of higher  *)
(* priority, may run in between.  The shell's own changes are never         *)
(* interrupted by the sweep thread.                                         *)
(***************************************************************************)
EXTENDS FiniteSetsExt, Integers

CONSTANTS MaxScans,   \* bound on the scans asked for
          Between     \* TRUE: the shell may run between a load and its store

VARIABLES
  sweep_mode,         \* the flags set in it
  sweep_once_count,
  break_execute,      \* a button was pressed since the command began
  shellPc,            \* "idle", or "polling" in cmd_waitscan
  count,              \* the argument of the command, or of the last one
  sweepPc,            \* where Thread1 is
  held,               \* what Thread1 has loaded, changed and not yet stored
  ended,              \* history: sweeps that ended since the command began
  resumed             \* history: the menu let the sweep run on since then

modes == <<sweep_mode, sweep_once_count>>
history == <<ended, resumed>>
vars == <<modes, break_execute, shellPc, count, sweepPc, held, history>>

Paused(mode) == mode \cap {"enable", "once"} = {}
Storing == {"store count", "store once", "store ui", "leave ui"}
Capped(n) == Min({n, MaxScans + 1})

Init == /\ sweep_mode = {"enable"} /\ sweep_once_count = 1
        /\ break_execute = FALSE /\ shellPc = "idle" /\ count = 0
        /\ sweepPc = "decide" /\ held = {}
        /\ ended = 0 /\ resumed = FALSE

ShellRuns == Between \/ sweepPc \notin Storing

-----------------------------------------------------------------------------
(* The shell thread and the button interrupt.                                *)

\* Leaves the count of an earlier command in place.
WaitScanOldCount(n) ==
  /\ shellPc = "idle" /\ ShellRuns
  /\ break_execute' = FALSE
  /\ sweep_mode' = (sweep_mode \ {"enable"}) \cup {"once"}
  /\ shellPc' = "polling" /\ count' = n
  /\ ended' = 0 /\ resumed' = FALSE
  /\ UNCHANGED <<sweep_once_count, sweepPc, held>>

\* cmd_waitscan up to its loop: pause_sweep and resume_once
CmdWaitScan(n) ==
  /\ shellPc = "idle" /\ ShellRuns
  /\ break_execute' = FALSE
  /\ sweep_mode' = (sweep_mode \ {"enable"}) \cup {"once"}
  /\ sweep_once_count' = n
  /\ shellPc' = "polling" /\ count' = n
  /\ ended' = 0 /\ resumed' = FALSE
  /\ UNCHANGED <<sweepPc, held>>

\* A poll ends the loop.
Return == /\ shellPc = "polling" /\ ShellRuns
          /\ Paused(sweep_mode) \/ break_execute
          /\ shellPc' = "idle"
          /\ UNCHANGED <<modes, break_execute, count, sweepPc, held, history>>

\* extcb1
Press == /\ break_execute' = TRUE
         /\ UNCHANGED <<modes, shellPc, count, sweepPc, held, history>>

-----------------------------------------------------------------------------
(* The sweep thread.                                                         *)

Decide == /\ sweepPc = "decide"
          /\ sweepPc' = IF Paused(sweep_mode) THEN "command" ELSE "sweep"
          /\ UNCHANGED <<modes, break_execute, shellPc, count, held, history>>

\* sweep(true) returns; a touch or a button may have stopped it early.
SweepEnds == /\ sweepPc = "sweep" /\ sweepPc' = "count"
             /\ ended' = Capped(ended + 1)
             /\ UNCHANGED <<modes, break_execute, shellPc, count, held, resumed>>

\* The load of sweep_once_count-- or of sweep_mode &= ~SWEEP_ONCE
LoadCount ==
  /\ sweepPc = "count"
  /\ IF sweep_once_count > 1
     THEN held' = {sweep_once_count - 1} /\ sweepPc' = "store count"
     ELSE held' = sweep_mode \ {"once"} /\ sweepPc' = "store once"
  /\ UNCHANGED <<modes, break_execute, shellPc, count, history>>

\* The flag stays: the next sweep is asked for as well.
StoreOnceMissing ==
  /\ sweepPc = "store once" /\ sweepPc' = "command"
  /\ held' = {}
  /\ UNCHANGED <<modes, break_execute, shellPc, count, history>>

StoreCount == /\ sweepPc = "store count" /\ sweepPc' = "command"
              /\ \E n \in held : sweep_once_count' = n
              /\ held' = {}
              /\ UNCHANGED <<sweep_mode, break_execute, shellPc, count, history>>

StoreOnce == /\ sweepPc = "store once" /\ sweepPc' = "command"
             /\ sweep_mode' = held /\ held' = {}
             /\ UNCHANGED <<sweep_once_count, break_execute, shellPc, count, history>>

\* cmd_pause, while the shell waits for this thread to run it
CmdPause ==
  /\ sweepPc = "command" /\ shellPc = "idle"
  /\ sweep_mode' = sweep_mode \ {"enable"}
  /\ UNCHANGED <<sweep_once_count, break_execute, shellPc, count, sweepPc, held,
                 history>>

\* cmd_resume without an argument
CmdResume ==
  /\ sweepPc = "command" /\ shellPc = "idle"
  /\ sweep_mode' = sweep_mode \cup {"enable"}
  /\ UNCHANGED <<sweep_once_count, break_execute, shellPc, count, sweepPc, held,
                 history>>

\* cmd_resume with one: resume_once, which does not pause the sweep first
CmdResumeOnce(n) ==
  /\ sweepPc = "command" /\ shellPc = "idle"
  /\ sweep_mode' = sweep_mode \cup {"once"} /\ sweep_once_count' = n
  /\ UNCHANGED <<break_execute, shellPc, count, sweepPc, held, history>>

\* sweep_mode |= SWEEP_UI_MODE
EnterUi == /\ sweepPc = "command" /\ sweepPc' = "store ui"
           /\ held' = sweep_mode \cup {"ui"}
           /\ UNCHANGED <<modes, break_execute, shellPc, count, history>>
StoreUi == /\ sweepPc = "store ui" /\ sweepPc' = "ui"
           /\ sweep_mode' = held /\ held' = {}
           /\ UNCHANGED <<sweep_once_count, break_execute, shellPc, count, history>>

\* The pause entry of the touch menu, in ui_process: toggle_sweep
ToggleSweep ==
  /\ sweepPc = "ui"
  /\ sweep_mode' = IF "enable" \in sweep_mode THEN sweep_mode \ {"enable"}
                                              ELSE sweep_mode \cup {"enable"}
  /\ resumed' = (resumed \/ "enable" \notin sweep_mode)
  /\ UNCHANGED <<sweep_once_count, break_execute, shellPc, count, sweepPc, held,
                 ended>>

\* ui_process returns: sweep_mode &= ~SWEEP_UI_MODE
LeaveUi == /\ sweepPc = "ui" /\ sweepPc' = "leave ui"
           /\ held' = sweep_mode \ {"ui"}
           /\ UNCHANGED <<modes, break_execute, shellPc, count, history>>
StoreNoUi == /\ sweepPc = "leave ui" /\ sweepPc' = "decide"
             /\ sweep_mode' = held /\ held' = {}
             /\ UNCHANGED <<sweep_once_count, break_execute, shellPc, count, history>>

-----------------------------------------------------------------------------
SweepStep == Decide \/ SweepEnds \/ LoadCount \/ StoreCount \/ StoreOnce
             \/ EnterUi \/ StoreUi \/ LeaveUi \/ StoreNoUi

Next == \/ \E n \in 0..MaxScans : CmdWaitScan(n)
        \/ Return \/ Press \/ SweepStep
        \/ CmdPause \/ CmdResume \/ \E n \in 0..MaxScans : CmdResumeOnce(n)
        \/ ToggleSweep

\* Both threads keep running: sweeps end, and the shell polls every 100 ms.
Fairness == WF_vars(SweepStep) /\ SF_vars(Return)

Spec == Init /\ [][Next]_vars /\ Fairness

-----------------------------------------------------------------------------
(* Properties.                                                               *)

\* cmd_waitscan comes back, button or not (main.c:575-577), unless the user lets
\* the sweep run on from the menu meanwhile.
WaitScanReturns == shellPc = "polling" ~> shellPc = "idle" \/ resumed

\* If no flag is lost and no button broke the command, as many sweeps as were asked for
\* have ended when it returns, complete or not; the first may have ended just before
\* the command began and be counted after it (main.c:239-262).
WaitedForSweeps == [][Return /\ ~break_execute => ended + 1 >= count]_vars
=============================================================================
