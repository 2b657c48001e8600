----------------------------- MODULE ShellSweep -----------------------------
(***************************************************************************)
(* The legacy console: the shell thread of main.c reads and parses lines,   *)
(* hands most commands to the sweep thread (Thread1) through the global     *)
(* shell_function and sleeps on a queue with a five second timeout; the     *)
(* sweep thread alternates a sweep, at most one command and the user        *)
(* interface of ui.c; button and touch interrupts, the shell and cmd_abort  *)
(* of sa_cmd.c all write the one byte operation_requested.                  *)
(*                                                                          *)
(* A line is its number: shell_function holds the number of the line that   *)
(* asked for it, args the line whose words shell_args points to, and text   *)
(* the line whose characters are in shell_line.                             *)
(***************************************************************************)
EXTENDS Naturals, FiniteSets

CONSTANTS MaxLines,    \* bound on the lines the host sends
          Kinds        \* the kinds of line it sends

LineKinds == {"wait", "capture", "plain", "abort", "abort on", "abort off", "unknown"}

ASSUME ShellAssumption ==
  MaxLines \in Nat /\ Kinds \subseteq LineKinds

VARIABLES
  text,        \* the line in the buffer shell_line
  kind,        \* the kind of that line
  args,        \* the line shell_args and shell_nargs were parsed from
  shellPc,     \* where the shell thread is
  wakeup,      \* what ended the shell's last sleep: "ok" or "timeout"
  timeout_count,
  shell_function,        \* 0, or the line whose command waits for the sweep thread
  operation_requested,   \* the flags set in that byte
  abort_enabled,
  sweepPc,     \* where Thread1 is
  running,     \* 0, or the line whose command Thread1 took
  button,      \* the lever is pressed
  button_state,            \* ui_process's sample of it
  previous_button_state,
  served,      \* history: the last line whose command ran to its end
  patient,     \* history: no timeout fired and abort mode was never on
  hurried      \* history: the last hand-over did not wait, in abort mode

shell == <<text, kind, args, shellPc, wakeup, timeout_count>>
sweep == <<sweepPc, running>>
buttons == <<button, button_state, previous_button_state>>
vars == <<shell, shell_function, operation_requested, abort_enabled, sweep,
          buttons, served, patient, hurried>>

\* sweep_mode has SWEEP_UI_MODE set: Thread1 is inside ui_process.
UiMode == sweepPc \in {"ui", "lever", "touch check", "touch"}

\* CMD_WAIT_MUTEX after the exception for CMD_RUN_IN_UI
RunsInSweep == kind = "wait" \/ (kind = "capture" /\ ~UiMode)

Init == /\ text = 0 /\ kind = "plain" /\ args = 0
        /\ shellPc = "read" /\ wakeup = "ok" /\ timeout_count = 0
        /\ shell_function = 0 /\ operation_requested = {} /\ abort_enabled = FALSE
        /\ sweepPc = "sweep" /\ running = 0
        /\ button = FALSE /\ button_state = FALSE /\ previous_button_state = FALSE
        /\ served = 0 /\ patient = TRUE /\ hurried = FALSE

-----------------------------------------------------------------------------
(* The shell thread.                                                         *)

\* VNAShell_readLine stores the next line of the host over the last one.
ReadLine == /\ shellPc = "read" /\ text < MaxLines
            /\ text' = text + 1 /\ kind' \in Kinds
            /\ shellPc' = "parse"
            /\ UNCHANGED <<args, wakeup, timeout_count, shell_function,
                           operation_requested, abort_enabled, sweep, buttons,
                           served, patient, hurried>>

\* VNAShell_parceLine finds no such command, or too many arguments.
RejectLine == /\ shellPc = "parse" /\ kind = "unknown"
              /\ args' = text /\ shellPc' = "read"
              /\ UNCHANGED <<text, kind, wakeup, timeout_count, shell_function,
                             operation_requested, abort_enabled, sweep, buttons,
                             served, patient, hurried>>

\* Reads the next line while the command is still to run.
HandOverWithoutWaiting ==
  /\ shellPc = "parse" /\ RunsInSweep
  /\ args' = text /\ shell_function' = text
  /\ operation_requested' = operation_requested \cup {"console"}
  /\ shellPc' = "read"
  /\ timeout_count' = 0
  /\ UNCHANGED <<text, kind, wakeup, abort_enabled, sweep, buttons, served,
                 patient, hurried>>

\* Hand the command to the sweep thread and, unless abort mode is on, enter
\* the queue.  The shell has the higher priority and does not block between
\* the two, so no step of the sweep thread comes between.
HandOver == /\ shellPc = "parse" /\ RunsInSweep
            /\ args' = text /\ shell_function' = text
            /\ operation_requested' = operation_requested \cup {"console"}
            /\ shellPc' = IF abort_enabled THEN "read" ELSE "waiting"
            /\ timeout_count' = 0
            /\ hurried' = abort_enabled
            /\ UNCHANGED <<text, kind, wakeup, abort_enabled, sweep, buttons,
                           served, patient>>

\* osalThreadEnqueueTimeoutS gives up after five seconds.
TimerFires == /\ shellPc = "waiting"
              /\ shellPc' = "woken" /\ wakeup' = "timeout"
              /\ patient' = FALSE
              /\ UNCHANGED <<text, kind, args, timeout_count, shell_function,
                             operation_requested, abort_enabled, sweep, buttons,
                             served, hurried>>

Timeouts == timeout_count + (IF wakeup = "timeout" THEN 1 ELSE 0)

\* Says "Command timeout" and leaves the command to the sweep thread.
GiveUpLeaving ==
  /\ shellPc = "woken" /\ wakeup = "timeout" /\ Timeouts > 3
  /\ shellPc' = "read" /\ timeout_count' = Timeouts
  /\ UNCHANGED <<text, kind, args, wakeup, shell_function, operation_requested,
                 abort_enabled, sweep, buttons, served, patient, hurried>>

\* "Command timeout": the pending command is dropped.
GiveUp == /\ shellPc = "woken" /\ wakeup = "timeout" /\ Timeouts > 3
          /\ shell_function' = 0
          /\ shellPc' = "read" /\ timeout_count' = Timeouts
          /\ UNCHANGED <<text, kind, args, wakeup, operation_requested,
                         abort_enabled, sweep, buttons, served, patient, hurried>>

\* Goes back to sleep whoever took the command meanwhile, however often.
WakeUpUnconditional ==
  /\ shellPc = "woken"
  /\ shellPc' = IF wakeup = "timeout" THEN "waiting" ELSE "read"
  /\ timeout_count' = Timeouts
  /\ UNCHANGED <<text, kind, args, wakeup, shell_function, operation_requested,
                 abort_enabled, sweep, buttons, served, patient, hurried>>

\* while (shell_function): sleep again as long as nobody took the command.
WakeUp == /\ shellPc = "woken" /\ ~(wakeup = "timeout" /\ Timeouts > 3)
          /\ shellPc' = IF shell_function # 0 THEN "waiting" ELSE "read"
          /\ timeout_count' = Timeouts
          /\ UNCHANGED <<text, kind, args, wakeup, shell_function,
                         operation_requested, abort_enabled, sweep, buttons,
                         served, patient, hurried>>

\* A command without CMD_WAIT_MUTEX runs in the shell thread, after the
\* request flags are cleared; it may sleep or block on its output.
StartPlain == /\ shellPc = "parse" /\ kind # "unknown" /\ ~RunsInSweep
              /\ args' = text
              /\ operation_requested' = {}
              /\ shellPc' = "plain"
              /\ UNCHANGED <<text, kind, wakeup, timeout_count, shell_function,
                             abort_enabled, sweep, buttons, served, patient,
                             hurried>>

\* cmd_abort sets the byte or the mode; when the settings are dirty the byte
\* is then set to true, which is OP_LEVER.
FinishPlain ==
  /\ shellPc = "plain"
  /\ abort_enabled' = CASE kind = "abort on"  -> TRUE
                        [] kind = "abort off" -> FALSE
                        [] OTHER              -> abort_enabled
  /\ \E dirty \in BOOLEAN :
       operation_requested' =
         IF dirty THEN {"lever"}
         ELSE IF kind = "abort" THEN {"console"} ELSE operation_requested
  /\ served' = text
  /\ patient' = (patient /\ kind # "abort on")
  /\ shellPc' = "read"
  /\ UNCHANGED <<text, kind, args, wakeup, timeout_count, shell_function, sweep,
                 buttons, hurried>>

-----------------------------------------------------------------------------
(* The sweep thread, Thread1.                                                *)

\* sweep(true) returns: complete, or early because of operation_requested.
SweepEnds == /\ sweepPc = "sweep" /\ sweepPc' = "take"
             /\ UNCHANGED <<shell, shell_function, operation_requested,
                            abort_enabled, running, buttons, served, patient, hurried>>

\* The command stays pending while it runs.
TakeCommandKeeping ==
  /\ sweepPc = "take"
  /\ running' = shell_function
  /\ sweepPc' = IF shell_function = 0 THEN "ui" ELSE "clear"
  /\ UNCHANGED <<shell, shell_function, operation_requested, abort_enabled,
                 buttons, served, patient, hurried>>

TakeCommand == /\ sweepPc = "take"
               /\ running' = shell_function /\ shell_function' = 0
               /\ sweepPc' = IF shell_function = 0 THEN "ui" ELSE "clear"
               /\ UNCHANGED <<shell, operation_requested, abort_enabled, buttons,
                              served, patient, hurried>>

\* operation_requested = OP_NONE, and the command is called.
StartCommand == /\ sweepPc = "clear" /\ sweepPc' = "run"
                /\ operation_requested' = {}
                /\ UNCHANGED <<shell, shell_function, abort_enabled, running,
                               buttons, served, patient, hurried>>

\* The command returns; the prompt follows unless a request came meanwhile.
FinishCommand == /\ sweepPc = "run" /\ sweepPc' = "resume"
                 /\ served' = running
                 /\ UNCHANGED <<shell, shell_function, operation_requested,
                                abort_enabled, running, buttons, patient,
                                hurried>>

\* osalThreadDequeueNextI, unless abort mode is on
ResumeShell == /\ sweepPc = "resume" /\ sweepPc' = "ui" /\ running' = 0
               /\ IF ~abort_enabled /\ shellPc = "waiting"
                  THEN shellPc' = "woken" /\ wakeup' = "ok"
                  ELSE UNCHANGED <<shellPc, wakeup>>
               /\ UNCHANGED <<text, kind, args, timeout_count, shell_function,
                              operation_requested, abort_enabled, buttons, served,
                              patient, hurried>>

\* ui_process samples the buttons.
SampleButtons ==
  /\ sweepPc = "ui"
  /\ button_state' = button
  /\ sweepPc' = IF "lever" \in operation_requested
                   \/ previous_button_state # button
                THEN "lever" ELSE "touch check"
  /\ UNCHANGED <<shell, shell_function, operation_requested, abort_enabled,
                 running, button, previous_button_state, served, patient, hurried>>

\* The buttons are sampled again after they were handled.
FinishLeverResampling ==
  /\ sweepPc = "lever" /\ sweepPc' = "touch check"
  /\ previous_button_state' = button
  /\ operation_requested' = {}
  /\ UNCHANGED <<shell, shell_function, abort_enabled, running, button,
                 button_state, served, patient, hurried>>

\* ui_process_lever is done: the sample becomes the previous state.
FinishLever == /\ sweepPc = "lever" /\ sweepPc' = "touch check"
               /\ previous_button_state' = button_state
               /\ operation_requested' = {}
               /\ UNCHANGED <<shell, shell_function, abort_enabled, running,
                              button, button_state, served, patient, hurried>>

CheckTouch == /\ sweepPc = "touch check"
              /\ sweepPc' = IF "touch" \in operation_requested
                            THEN "touch" ELSE "sweep"
              /\ UNCHANGED <<shell, shell_function, operation_requested,
                             abort_enabled, running, buttons, served, patient, hurried>>

\* ui_process_touch is done.
FinishTouch == /\ sweepPc = "touch" /\ sweepPc' = "sweep"
               /\ operation_requested' = {}
               /\ UNCHANGED <<shell, shell_function, abort_enabled, running,
                              buttons, served, patient, hurried>>

-----------------------------------------------------------------------------
(* Interrupts.                                                               *)

\* extcb1, on the rising edge of a button
Press == /\ ~button /\ button' = TRUE
         /\ operation_requested' = operation_requested \cup {"lever"}
         /\ UNCHANGED <<shell, shell_function, abort_enabled, sweep, button_state,
                        previous_button_state, served, patient, hurried>>

Release == /\ button /\ button' = FALSE
           /\ UNCHANGED <<shell, shell_function, operation_requested,
                          abort_enabled, sweep, button_state,
                          previous_button_state, served, patient, hurried>>

\* handle_touch_interrupt
Touch == /\ operation_requested' = operation_requested \cup {"touch"}
         /\ UNCHANGED <<shell, shell_function, abort_enabled, sweep, buttons,
                        served, patient, hurried>>

-----------------------------------------------------------------------------
ShellStep == RejectLine \/ HandOver \/ GiveUp \/ WakeUp \/ StartPlain \/ FinishPlain

SweepStep == SweepEnds \/ TakeCommand \/ StartCommand \/ FinishCommand
             \/ ResumeShell \/ SampleButtons \/ FinishLever \/ CheckTouch
             \/ FinishTouch

Interrupt == Press \/ Release \/ Touch

Next == ReadLine \/ ShellStep \/ TimerFires \/ SweepStep \/ Interrupt

\* Both threads keep running and a started timer expires.  No fairness for
\* the host, the user or the hand on the lever.
Fairness == WF_vars(ShellStep) /\ WF_vars(SweepStep) /\ WF_vars(TimerFires)

Spec == Init /\ [][Next]_vars /\ Fairness

-----------------------------------------------------------------------------
(* Properties.                                                               *)

TypeOK ==
  /\ text \in 0..MaxLines /\ args \in 0..MaxLines /\ kind \in LineKinds
  /\ shellPc \in {"read", "parse", "waiting", "woken", "plain"}
  /\ wakeup \in {"ok", "timeout"} /\ timeout_count \in 0..4
  /\ shell_function \in 0..MaxLines
  /\ operation_requested \subseteq {"lever", "touch", "console"}
  /\ abort_enabled \in BOOLEAN
  /\ sweepPc \in {"sweep", "take", "clear", "run", "resume", "ui", "lever",
                  "touch check", "touch"}
  /\ running \in 0..MaxLines
  /\ button \in BOOLEAN /\ button_state \in BOOLEAN
  /\ previous_button_state \in BOOLEAN
  /\ served \in 0..MaxLines /\ patient \in BOOLEAN /\ hurried \in BOOLEAN

\* No wakeup is lost: whenever the shell sleeps in the queue, either its
\* command is still to be taken or the sweep thread is on its way to the
\* dequeue, whatever mix of aborts, timeouts and abort mode came before
\* (main.c:305-310, 3491-3506).
WakeupPending ==
  shellPc = "waiting" =>
    shell_function # 0 \/ sweepPc \in {"clear", "run", "resume"}

\* A command runs with its own arguments: as long as no timeout fired and
\* abort mode was never on, neither shell_args nor the buffer it points into
\* changes from the hand-over to the end of the command (main.c:300, 3428, 3454-3472).
ArgumentsStable ==
  patient /\ sweepPc \in {"clear", "run"} => args = running /\ text = running

\* A command that the shell waits for is never left behind: as long as it is
\* pending, the shell is asleep over it and both its words and its line are its
\* own, so it is taken with them or dropped with "Command timeout", whatever
\* timeouts, aborts, wakeups of earlier commands and changes of abort mode came
\* before (main.c:294-310, 3491-3506).  In abort mode the shell does not wait: a
\* command handed over in it may be pending while later lines are read, even
\* after abort mode is switched off (main.c:3491).
NothingLeftBehind ==
  shell_function # 0 /\ ~hurried =>
    shellPc \in {"waiting", "woken"} /\ args = shell_function /\ text = shell_function

\* A press that is held is handled even when its OP_LEVER flag is erased by a
\* command, by a touch, by the shell or by the handling of an earlier event
\* (ui.c:8374-8382, main.c:299, 3509).
HeldPressHandled ==
  (button /\ ~previous_button_state) ~> (sweepPc = "lever" /\ button_state) \/ ~button

\* The shell never sleeps for ever (main.c:3491-3506).
ShellReturns == shellPc = "waiting" ~> shellPc = "read"

\* The comment at main.c:3488: a console request aborts the current sweep.
RequestInterruptsSweep ==
  sweepPc = "sweep" /\ shell_function # 0 => operation_requested # {}

Server == INSTANCE CommandServer WITH
  phase <- CASE shellPc = "read" -> "ready"
             [] shellPc = "parse" -> "accepted"
             [] shellPc = "plain" -> "running"
             [] OTHER -> IF shell_function # 0 \/ sweepPc = "clear" THEN "accepted"
                         ELSE IF sweepPc = "run" THEN "running" ELSE "done",
  line <- text,
  served <- served,
  void <- ~patient

\* As long as no timeout fires and abort mode stays off, the two threads serve
\* lines one at a time, each command once and with the next line held back until
\* it ended (main.c:291-310, 3477-3524).
ImplementsServer == Server!Spec
=============================================================================
