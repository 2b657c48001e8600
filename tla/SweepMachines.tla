--------------------------- MODULE SweepMachines ---------------------------
(***************************************************************************)
(* Three machines of the sweep for TLC: the sweep of one trace, the grid of   *)
(* its frequencies, and the pause that waitscan waits for.  They share no      *)
(* state here, so that one of them, any one, runs while the others rest.        *)
(***************************************************************************)
EXTENDS SweepEngine, FrequencyDda

CONSTANTS MaxWaited,   \* bound on the scans that waitscan asks for
          Between

ASSUME WaitScanAssumption == MaxWaited \in Nat /\ Between \in BOOLEAN

VARIABLES sweep_mode, sweep_once_count, break_execute, shellPc, count, sweepPc, held,
          ended, resumed,
          running    \* the machine that runs

Wait == INSTANCE WaitScan WITH MaxScans <- MaxWaited

waitVars == <<sweep_mode, sweep_once_count, break_execute, shellPc, count, sweepPc, held,
              ended, resumed>>
vars == <<sweepVars, ddaVars, waitVars, running>>

\* The sweep while another machine runs: paused, with nothing asked of it.
Resting ==
  /\ dirty = FALSE /\ scandirty = FALSE /\ scan_after_dirty = 0 /\ calculated = TRUE /\ averaging = FALSE
  /\ trigger = "AUTO" /\ triggered = FALSE /\ enabled = FALSE /\ operation_requested = FALSE
  /\ pc = "rest" /\ point = 0 /\ trace = [k \in Indices |-> [own |-> TRUE, n |-> 0, even |-> TRUE]]
  /\ disturbed = FALSE /\ completed = TRUE

MachinesInit ==
  /\ running \in {"sweep", "grid", "waitscan"}
  /\ IF running = "sweep" THEN Init ELSE Resting
  /\ DdaInit
  /\ running # "grid" => request = [start_hz |-> 0, stop_hz |-> 0, point_count |-> 1]
  /\ Wait!Init

Sweeps(step) == running = "sweep" /\ step /\ UNCHANGED <<ddaVars, waitVars, running>>
Waits(step) == running = "waitscan" /\ step /\ UNCHANGED <<sweepVars, ddaVars, running>>

MachinesNext ==
  \/ Sweeps(Next) \/ Waits(Wait!Next)
  \/ running = "grid" /\ DdaNext /\ UNCHANGED <<sweepVars, waitVars, running>>

\* As in SweepEngine and in WaitScan.
Fairness == /\ WF_vars(Sweeps(SweepThread))
            /\ WF_vars(Waits(Wait!SweepStep)) /\ SF_vars(Waits(Wait!Return))

MachinesSpec == MachinesInit /\ [][MachinesNext]_vars /\ Fairness

-----------------------------------------------------------------------------
(* The properties of waitscan, under names a cfg can give.                   *)

\* cmd_waitscan comes back, button or not (main.c:575-577), unless the user lets the
\* sweep run on from the menu meanwhile.
WaitScanReturns == Wait!WaitScanReturns

\* When waitscan returns, and no button broke it, as many sweeps as were asked for have
\* ended; the first may have ended just before the command began and be counted after it
\* (main.c:239-262).
WaitedForSweeps == Wait!WaitedForSweeps
=============================================================================
