-------------------------- MODULE ShellSweepProofs --------------------------
(***************************************************************************)
(* The hand-over between the shell thread and the sweep thread, proved for   *)
(* every number and every mix of lines: no wakeup is lost, a command runs     *)
(* with its own arguments, and the two threads implement CommandServer.       *)
(***************************************************************************)
EXTENDS ShellSweep, TLAPS

\* The sweep thread has taken a command and has not tried to wake the shell yet.
Busy == sweepPc \in {"clear", "run", "resume"}

\* TypeOK in two parts, for the provers.
Flags ==
  /\ abort_enabled \in BOOLEAN /\ button \in BOOLEAN /\ button_state \in BOOLEAN
  /\ previous_button_state \in BOOLEAN /\ patient \in BOOLEAN /\ hurried \in BOOLEAN

Ranges ==
  /\ text \in 0..MaxLines /\ args \in 0..MaxLines /\ kind \in LineKinds
  /\ shellPc \in {"read", "parse", "waiting", "woken", "plain"}
  /\ wakeup \in {"ok", "timeout"} /\ timeout_count \in 0..4
  /\ shell_function \in 0..MaxLines
  /\ operation_requested \subseteq {"lever", "touch", "console"}
  /\ sweepPc \in {"sweep", "take", "clear", "run", "resume", "ui", "lever",
                  "touch check", "touch"}
  /\ running \in 0..MaxLines /\ served \in 0..MaxLines

\* What holds however the timeouts and abort mode went.
Asleep ==
  /\ shellPc # "read" => text # 0
  /\ shellPc \in {"waiting", "woken"} => ~abort_enabled /\ timeout_count <= 3

Inv == Flags /\ Ranges /\ Asleep /\ WakeupPending

\* As long as no timeout fired and abort mode was never on, the shell waits with its
\* own command either pending or running, and nothing is pending or running otherwise.
PatientInv ==
  patient =>
    /\ ~abort_enabled /\ wakeup = "ok" /\ timeout_count = 0
    /\ Busy <=> running # 0
    /\ shellPc # "waiting" => shell_function = 0 /\ running = 0
    /\ shellPc = "waiting" =>
         /\ args = text
         /\ shell_function = IF Busy THEN 0 ELSE text
         /\ running = IF Busy THEN text ELSE 0

IInv == Inv /\ PatientInv

-----------------------------------------------------------------------------
\* The tuples of the variables that a step leaves alone.
USE DEF shell, sweep, buttons

LEMMA TypeParts == TypeOK <=> Flags /\ Ranges
  BY Zenon DEF TypeOK, Flags, Ranges

LEMMA InitInv == Init => IInv
  <1> SUFFICES ASSUME Init PROVE IInv OBVIOUS
  <1>1. Flags BY DEF Init, Flags
  <1>2. Ranges
    <2>1. text \in 0..MaxLines /\ args \in 0..MaxLines /\ shell_function \in 0..MaxLines
      BY ShellAssumption DEF Init
    <2>2. running \in 0..MaxLines /\ served \in 0..MaxLines BY ShellAssumption DEF Init
    <2>3. timeout_count \in 0..4 BY DEF Init
    <2>4. kind \in LineKinds BY DEF Init, LineKinds
    <2> QED BY <2>1, <2>2, <2>3, <2>4 DEF Init, Ranges
  <1>3. Asleep /\ WakeupPending BY DEF Init, Asleep, WakeupPending
  <1>4. Inv BY <1>1, <1>2, <1>3 DEF Inv
  <1>5. PatientInv BY DEF Init, PatientInv, Busy
  <1> QED BY <1>4, <1>5 DEF IInv

LEMMA NextFlags == Flags /\ [Next]_vars => Flags'
  <1> SUFFICES ASSUME Flags, [Next]_vars PROVE Flags'
    OBVIOUS
  <1> USE DEF Flags
  <1>1. CASE ReadLine BY <1>1 DEF ReadLine
  <1>2. CASE RejectLine BY <1>2 DEF RejectLine
  <1>3. CASE HandOver BY <1>3 DEF HandOver
  <1>4. CASE TimerFires BY <1>4 DEF TimerFires
  <1>5. CASE GiveUp BY <1>5 DEF GiveUp
  <1>6. CASE WakeUp BY <1>6 DEF WakeUp
  <1>7. CASE StartPlain BY <1>7 DEF StartPlain
  <1>8. CASE FinishPlain BY <1>8 DEF FinishPlain
  <1>9. CASE SweepEnds BY <1>9 DEF SweepEnds
  <1>10. CASE TakeCommand BY <1>10 DEF TakeCommand
  <1>11. CASE StartCommand BY <1>11 DEF StartCommand
  <1>12. CASE FinishCommand BY <1>12 DEF FinishCommand
  <1>13. CASE ResumeShell BY <1>13 DEF ResumeShell
  <1>14. CASE SampleButtons BY <1>14 DEF SampleButtons
  <1>15. CASE FinishLever BY <1>15 DEF FinishLever
  <1>16. CASE CheckTouch BY <1>16 DEF CheckTouch
  <1>17. CASE FinishTouch BY <1>17 DEF FinishTouch
  <1>18. CASE Press BY <1>18 DEF Press
  <1>19. CASE Release BY <1>19 DEF Release
  <1>20. CASE Touch BY <1>20 DEF Touch
  <1>21. CASE UNCHANGED vars BY <1>21 DEF vars
  <1> QED BY <1>1, <1>2, <1>3, <1>4, <1>5, <1>6, <1>7, <1>8, <1>9, <1>10, <1>11, <1>12, <1>13, <1>14, <1>15, <1>16, <1>17, <1>18, <1>19, <1>20, <1>21
    DEF Next, ShellStep, SweepStep, Interrupt

LEMMA NextRanges == Inv /\ [Next]_vars => Ranges'
  <1> SUFFICES ASSUME Ranges, shellPc \in {"waiting", "woken"} => timeout_count <= 3,
                      [Next]_vars
               PROVE  Ranges'
    BY DEF Inv, Asleep
  <1>0. timeout_count \in 0..4 BY DEF Ranges
  <1>1. CASE ReadLine
    <2>1. text' \in 0..MaxLines
      <3>1. text \in 0..MaxLines BY DEF Ranges
      <3> QED BY <1>1, <3>1, ShellAssumption DEF ReadLine
    <2>2. kind' \in LineKinds BY <1>1, ShellAssumption DEF ReadLine
    <2> QED BY <1>1, <2>1, <2>2 DEF ReadLine, Ranges
  <1>2. CASE RejectLine BY <1>2 DEF RejectLine, Ranges
  <1>3. CASE HandOver
    <2>1. operation_requested' \subseteq {"lever", "touch", "console"}
      BY <1>3 DEF HandOver, Ranges
    <2>2. shellPc' \in {"read", "waiting"} BY <1>3 DEF HandOver
    <2>3. timeout_count' \in 0..4 BY <1>3 DEF HandOver
    <2> QED BY <1>3, <2>1, <2>2, <2>3 DEF HandOver, Ranges
  <1>4. CASE TimerFires BY <1>4 DEF TimerFires, Ranges
  <1>5. CASE GiveUp
    <2>1. timeout_count <= 3 BY <1>5 DEF GiveUp
    <2>2. Timeouts \in 0..4 BY <1>0, <2>1, <1>5 DEF Timeouts
    <2>3. timeout_count' \in 0..4 BY <2>2, <1>5 DEF GiveUp
    <2>4. shell_function' \in 0..MaxLines
      <3>1. shell_function \in 0..MaxLines BY DEF Ranges
      <3> QED BY <1>5, <3>1, ShellAssumption DEF GiveUp
    <2>5. shellPc' \in {"read", "waiting"} BY <1>5 DEF GiveUp
    <2> QED BY <2>3, <2>4, <2>5, <1>5 DEF GiveUp, Ranges
  <1>6. CASE WakeUp
    <2>1. timeout_count <= 3 BY <1>6 DEF WakeUp
    <2>2. Timeouts \in 0..4 BY <1>0, <2>1, <1>6 DEF Timeouts
    <2>3. timeout_count' \in 0..4 BY <2>2, <1>6 DEF WakeUp
    <2>4. shell_function' \in 0..MaxLines
      <3>1. shell_function \in 0..MaxLines BY DEF Ranges
      <3> QED BY <1>6, <3>1, ShellAssumption DEF WakeUp
    <2>5. shellPc' \in {"read", "waiting"} BY <1>6 DEF WakeUp
    <2> QED BY <2>3, <2>4, <2>5, <1>6 DEF WakeUp, Ranges
  <1>7. CASE StartPlain BY <1>7 DEF StartPlain, Ranges
  <1>8. CASE FinishPlain BY <1>8 DEF FinishPlain, Ranges
  <1>9. CASE SweepEnds BY <1>9 DEF SweepEnds, Ranges
  <1>10. CASE TakeCommand
    <2>1. sweepPc' \in {"ui", "clear"} BY <1>10 DEF TakeCommand
    <2>2. shell_function' \in 0..MaxLines BY <1>10, ShellAssumption DEF TakeCommand
    <2> QED BY <1>10, <2>1, <2>2 DEF TakeCommand, Ranges
  <1>11. CASE StartCommand BY <1>11 DEF StartCommand, Ranges
  <1>12. CASE FinishCommand BY <1>12 DEF FinishCommand, Ranges
  <1>13. CASE ResumeShell
    <2>1. shellPc' \in {"woken", shellPc} /\ wakeup' \in {"ok", wakeup} BY <1>13 DEF ResumeShell
    <2>2. running' \in 0..MaxLines BY <1>13, ShellAssumption DEF ResumeShell
    <2> QED BY <1>13, <2>1, <2>2 DEF ResumeShell, Ranges
  <1>14. CASE SampleButtons BY <1>14 DEF SampleButtons, Ranges
  <1>15. CASE FinishLever BY <1>15 DEF FinishLever, Ranges
  <1>16. CASE CheckTouch BY <1>16 DEF CheckTouch, Ranges
  <1>17. CASE FinishTouch BY <1>17 DEF FinishTouch, Ranges
  <1>18. CASE Press BY <1>18 DEF Press, Ranges
  <1>19. CASE Release BY <1>19 DEF Release, Ranges
  <1>20. CASE Touch BY <1>20 DEF Touch, Ranges
  <1>21. CASE UNCHANGED vars BY <1>21 DEF vars, Ranges
  <1> QED BY <1>1, <1>2, <1>3, <1>4, <1>5, <1>6, <1>7, <1>8, <1>9, <1>10, <1>11, <1>12, <1>13, <1>14, <1>15, <1>16, <1>17, <1>18, <1>19, <1>20, <1>21
    DEF Next, ShellStep, SweepStep, Interrupt

LEMMA NextAsleep == Inv /\ [Next]_vars => Asleep'
  <1> SUFFICES ASSUME Ranges, Asleep, [Next]_vars PROVE Asleep'
    BY DEF Inv
  <1> USE DEF Asleep
  <1>1. CASE ReadLine
    <2>1. text \in 0..MaxLines BY DEF Ranges
    <2> QED BY <1>1, <2>1 DEF ReadLine
  <1>2. CASE RejectLine BY <1>2 DEF RejectLine
  <1>3. CASE HandOver BY <1>3 DEF HandOver
  <1>4. CASE TimerFires BY <1>4 DEF TimerFires
  <1>5. CASE GiveUp
    <2>1. timeout_count \in 0..4 BY DEF Ranges
    <2>2. Timeouts \in Nat BY <2>1 DEF Timeouts
    <2>3. shellPc' = "waiting" => timeout_count' <= 3 BY <2>1, <2>2, <1>5 DEF GiveUp, Timeouts
    <2>4. shellPc' # "woken" BY <1>5 DEF GiveUp
    <2> QED BY <1>5, <2>3, <2>4 DEF GiveUp
  <1>6. CASE WakeUp
    <2>1. timeout_count \in 0..4 BY DEF Ranges
    <2>2. Timeouts \in Nat BY <2>1 DEF Timeouts
    <2>3. shellPc' = "waiting" => timeout_count' <= 3 BY <2>1, <2>2, <1>6 DEF WakeUp, Timeouts
    <2>4. shellPc' # "woken" BY <1>6 DEF WakeUp
    <2> QED BY <1>6, <2>3, <2>4 DEF WakeUp
  <1>7. CASE StartPlain BY <1>7 DEF StartPlain
  <1>8. CASE FinishPlain BY <1>8 DEF FinishPlain
  <1>9. CASE SweepEnds BY <1>9 DEF SweepEnds
  <1>10. CASE TakeCommand BY <1>10 DEF TakeCommand
  <1>11. CASE StartCommand BY <1>11 DEF StartCommand
  <1>12. CASE FinishCommand BY <1>12 DEF FinishCommand
  <1>13. CASE ResumeShell BY <1>13 DEF ResumeShell
  <1>14. CASE SampleButtons BY <1>14 DEF SampleButtons
  <1>15. CASE FinishLever BY <1>15 DEF FinishLever
  <1>16. CASE CheckTouch BY <1>16 DEF CheckTouch
  <1>17. CASE FinishTouch BY <1>17 DEF FinishTouch
  <1>18. CASE Press BY <1>18 DEF Press
  <1>19. CASE Release BY <1>19 DEF Release
  <1>20. CASE Touch BY <1>20 DEF Touch
  <1>21. CASE UNCHANGED vars BY <1>21 DEF vars
  <1> QED BY <1>1, <1>2, <1>3, <1>4, <1>5, <1>6, <1>7, <1>8, <1>9, <1>10, <1>11, <1>12, <1>13, <1>14, <1>15, <1>16, <1>17, <1>18, <1>19, <1>20, <1>21
    DEF Next, ShellStep, SweepStep, Interrupt

LEMMA NextWakeupPending == Inv /\ [Next]_vars => WakeupPending'
  <1> SUFFICES ASSUME Asleep, WakeupPending, [Next]_vars PROVE WakeupPending'
    BY DEF Inv
  <1> USE DEF Asleep, WakeupPending
  <1>1. CASE ReadLine BY <1>1 DEF ReadLine
  <1>2. CASE RejectLine BY <1>2 DEF RejectLine
  <1>3. CASE HandOver BY <1>3 DEF HandOver
  <1>4. CASE TimerFires BY <1>4 DEF TimerFires
  <1>5. CASE GiveUp BY <1>5 DEF GiveUp
  <1>6. CASE WakeUp BY <1>6 DEF WakeUp
  <1>7. CASE StartPlain BY <1>7 DEF StartPlain
  <1>8. CASE FinishPlain BY <1>8 DEF FinishPlain
  <1>9. CASE SweepEnds BY <1>9 DEF SweepEnds
  <1>10. CASE TakeCommand BY <1>10 DEF TakeCommand
  <1>11. CASE StartCommand BY <1>11 DEF StartCommand
  <1>12. CASE FinishCommand BY <1>12 DEF FinishCommand
  <1>13. CASE ResumeShell BY <1>13 DEF ResumeShell
  <1>14. CASE SampleButtons BY <1>14 DEF SampleButtons
  <1>15. CASE FinishLever BY <1>15 DEF FinishLever
  <1>16. CASE CheckTouch BY <1>16 DEF CheckTouch
  <1>17. CASE FinishTouch BY <1>17 DEF FinishTouch
  <1>18. CASE Press BY <1>18 DEF Press
  <1>19. CASE Release BY <1>19 DEF Release
  <1>20. CASE Touch BY <1>20 DEF Touch
  <1>21. CASE UNCHANGED vars BY <1>21 DEF vars
  <1> QED BY <1>1, <1>2, <1>3, <1>4, <1>5, <1>6, <1>7, <1>8, <1>9, <1>10, <1>11, <1>12, <1>13, <1>14, <1>15, <1>16, <1>17, <1>18, <1>19, <1>20, <1>21
    DEF Next, ShellStep, SweepStep, Interrupt

\* A pending command that is waited for keeps the shell where it is.
LEMMA NextNothingLeft == NothingLeftBehind /\ [Next]_vars => NothingLeftBehind'
  <1> SUFFICES ASSUME NothingLeftBehind, [Next]_vars PROVE NothingLeftBehind'
    OBVIOUS
  <1> USE DEF NothingLeftBehind
  <1>1. CASE ReadLine BY <1>1 DEF ReadLine
  <1>2. CASE RejectLine BY <1>2 DEF RejectLine
  <1>3. CASE HandOver BY <1>3 DEF HandOver
  <1>4. CASE TimerFires BY <1>4 DEF TimerFires
  <1>5. CASE GiveUp BY <1>5 DEF GiveUp
  <1>6. CASE WakeUp BY <1>6 DEF WakeUp
  <1>7. CASE StartPlain BY <1>7 DEF StartPlain
  <1>8. CASE FinishPlain BY <1>8 DEF FinishPlain
  <1>9. CASE SweepEnds BY <1>9 DEF SweepEnds
  <1>10. CASE TakeCommand BY <1>10 DEF TakeCommand
  <1>11. CASE StartCommand BY <1>11 DEF StartCommand
  <1>12. CASE FinishCommand BY <1>12 DEF FinishCommand
  <1>13. CASE ResumeShell BY <1>13 DEF ResumeShell
  <1>14. CASE SampleButtons BY <1>14 DEF SampleButtons
  <1>15. CASE FinishLever BY <1>15 DEF FinishLever
  <1>16. CASE CheckTouch BY <1>16 DEF CheckTouch
  <1>17. CASE FinishTouch BY <1>17 DEF FinishTouch
  <1>18. CASE Press BY <1>18 DEF Press
  <1>19. CASE Release BY <1>19 DEF Release
  <1>20. CASE Touch BY <1>20 DEF Touch
  <1>21. CASE UNCHANGED vars BY <1>21 DEF vars
  <1> QED BY <1>1, <1>2, <1>3, <1>4, <1>5, <1>6, <1>7, <1>8, <1>9, <1>10, <1>11, <1>12, <1>13, <1>14, <1>15, <1>16, <1>17, <1>18, <1>19, <1>20, <1>21
    DEF Next, ShellStep, SweepStep, Interrupt

LEMMA NextInv == Inv /\ [Next]_vars => Inv'
  BY NextFlags, NextRanges, NextAsleep, NextWakeupPending DEF Inv

\* Patience does not come back.
LEMMA Impatient == [Next]_vars /\ patient' => patient
  <1> SUFFICES ASSUME [Next]_vars, patient' PROVE patient
    OBVIOUS
  <1>1. CASE ReadLine BY <1>1 DEF ReadLine
  <1>2. CASE RejectLine BY <1>2 DEF RejectLine
  <1>3. CASE HandOver BY <1>3 DEF HandOver
  <1>4. CASE TimerFires BY <1>4 DEF TimerFires
  <1>5. CASE GiveUp BY <1>5 DEF GiveUp
  <1>6. CASE WakeUp BY <1>6 DEF WakeUp
  <1>7. CASE StartPlain BY <1>7 DEF StartPlain
  <1>8. CASE FinishPlain BY <1>8 DEF FinishPlain
  <1>9. CASE SweepEnds BY <1>9 DEF SweepEnds
  <1>10. CASE TakeCommand BY <1>10 DEF TakeCommand
  <1>11. CASE StartCommand BY <1>11 DEF StartCommand
  <1>12. CASE FinishCommand BY <1>12 DEF FinishCommand
  <1>13. CASE ResumeShell BY <1>13 DEF ResumeShell
  <1>14. CASE SampleButtons BY <1>14 DEF SampleButtons
  <1>15. CASE FinishLever BY <1>15 DEF FinishLever
  <1>16. CASE CheckTouch BY <1>16 DEF CheckTouch
  <1>17. CASE FinishTouch BY <1>17 DEF FinishTouch
  <1>18. CASE Press BY <1>18 DEF Press
  <1>19. CASE Release BY <1>19 DEF Release
  <1>20. CASE Touch BY <1>20 DEF Touch
  <1>21. CASE UNCHANGED vars BY <1>21 DEF vars
  <1> QED BY <1>1, <1>2, <1>3, <1>4, <1>5, <1>6, <1>7, <1>8, <1>9, <1>10, <1>11, <1>12, <1>13, <1>14, <1>15, <1>16, <1>17, <1>18, <1>19, <1>20, <1>21
    DEF Next, ShellStep, SweepStep, Interrupt

LEMMA NextPatientInv == IInv /\ [Next]_vars => PatientInv'
  <1> SUFFICES ASSUME Ranges, Asleep, WakeupPending, PatientInv, [Next]_vars, patient, patient' PROVE PatientInv'
    BY Impatient DEF IInv, Inv, PatientInv
  <1> USE DEF PatientInv, Busy, Asleep, WakeupPending
  <1>1. CASE ReadLine
    <2>1. shellPc = "read" /\ shellPc' = "parse" /\ UNCHANGED <<shell_function, running, sweepPc>>
      BY <1>1 DEF ReadLine
    <2> QED BY <1>1, <2>1 DEF ReadLine
  <1>2. CASE RejectLine BY <1>2 DEF RejectLine
  <1>3. CASE HandOver BY <1>3 DEF HandOver
  <1>4. CASE TimerFires BY <1>4 DEF TimerFires
  <1>5. CASE GiveUp
    <2> QED BY <1>5 DEF GiveUp
  <1>6. CASE WakeUp
    <2>1. shellPc = "woken" /\ shell_function = 0 /\ wakeup = "ok" /\ timeout_count = 0
      BY <1>6 DEF WakeUp
    <2>2. Timeouts = 0 BY <2>1 DEF Timeouts
    <2> QED BY <1>6, <2>1, <2>2 DEF WakeUp
  <1>7. CASE StartPlain BY <1>7 DEF StartPlain
  <1>8. CASE FinishPlain BY <1>8 DEF FinishPlain
  <1>9. CASE SweepEnds BY <1>9 DEF SweepEnds
  <1>10. CASE TakeCommand BY <1>10 DEF TakeCommand
  <1>11. CASE StartCommand BY <1>11 DEF StartCommand
  <1>12. CASE FinishCommand BY <1>12 DEF FinishCommand
  <1>13. CASE ResumeShell BY <1>13 DEF ResumeShell
  <1>14. CASE SampleButtons BY <1>14 DEF SampleButtons
  <1>15. CASE FinishLever BY <1>15 DEF FinishLever
  <1>16. CASE CheckTouch BY <1>16 DEF CheckTouch
  <1>17. CASE FinishTouch BY <1>17 DEF FinishTouch
  <1>18. CASE Press BY <1>18 DEF Press
  <1>19. CASE Release BY <1>19 DEF Release
  <1>20. CASE Touch BY <1>20 DEF Touch
  <1>21. CASE UNCHANGED vars BY <1>21 DEF vars
  <1> QED BY <1>1, <1>2, <1>3, <1>4, <1>5, <1>6, <1>7, <1>8, <1>9, <1>10, <1>11, <1>12, <1>13, <1>14, <1>15, <1>16, <1>17, <1>18, <1>19, <1>20, <1>21
    DEF Next, ShellStep, SweepStep, Interrupt

THEOREM Invariance == Spec => []IInv
  <1>1. IInv /\ [Next]_vars => IInv' BY NextInv, NextPatientInv DEF IInv
  <1> QED BY InitInv, <1>1, PTL DEF Spec

\* The variables keep their types.
THEOREM TypesKept == Spec => []TypeOK
  <1>1. IInv => TypeOK BY TypeParts DEF IInv, Inv
  <1> QED BY <1>1, Invariance, PTL

\* Whenever the shell sleeps, its command is pending or the sweep thread is on its way
\* to the dequeue, for any mix of lines, timeouts and abort mode (main.c:305-310,
\* 3491-3506).
THEOREM NoWakeupLost == Spec => []WakeupPending
  <1>1. IInv => WakeupPending BY DEF IInv, Inv
  <1> QED BY <1>1, Invariance, PTL

\* shell_args and the line it points into stay put while a command of the sweep thread
\* runs, as long as no timeout fired and abort mode was never on (main.c:300, 3428,
\* 3454-3472).
THEOREM OwnArguments == Spec => []ArgumentsStable
  <1>1. IInv => ArgumentsStable BY DEF IInv, PatientInv, Busy, ArgumentsStable
  <1> QED BY <1>1, Invariance, PTL

\* A command that the shell waits for is pending only while the shell is asleep over it,
\* with its own words and line, for any mix of lines, timeouts and abort mode
\* (main.c:294-310, 3491-3506).
THEOREM WaitedForOrDropped == Spec => []NothingLeftBehind
  <1>1. Init => NothingLeftBehind BY DEF Init, NothingLeftBehind
  <1> QED BY <1>1, NextNothingLeft, PTL DEF Spec

-----------------------------------------------------------------------------
(* Refinement of CommandServer.                                              *)

\* The phase that the mapping in ShellSweep gives the server.
Phase == CASE shellPc = "read" -> "ready"
           [] shellPc = "parse" -> "accepted"
           [] shellPc = "plain" -> "running"
           [] OTHER -> IF shell_function # 0 \/ sweepPc = "clear" THEN "accepted"
                       ELSE IF sweepPc = "run" THEN "running" ELSE "done"

\* The phase in each place of the shell thread, case by case.
LEMMA PhaseCases ==
  /\ shellPc = "read" => Phase = "ready"
  /\ shellPc = "parse" => Phase = "accepted"
  /\ shellPc = "plain" => Phase = "running"
  /\ shellPc \in {"waiting", "woken"} =>
       Phase = IF shell_function # 0 \/ sweepPc = "clear" THEN "accepted"
               ELSE IF sweepPc = "run" THEN "running" ELSE "done"
  BY DEF Phase

LEMMA PhaseCasesNext ==
  /\ shellPc' = "read" => Phase' = "ready"
  /\ shellPc' = "parse" => Phase' = "accepted"
  /\ shellPc' = "plain" => Phase' = "running"
  /\ shellPc' \in {"waiting", "woken"} =>
       Phase' = IF shell_function' # 0 \/ sweepPc' = "clear" THEN "accepted"
                ELSE IF sweepPc' = "run" THEN "running" ELSE "done"
  BY DEF Phase

\* A step of CommandServer, or none, in terms of Phase.
Served ==
  \/ Phase = "ready" /\ Phase' = "accepted" /\ text' = text + 1 /\ served' = served
  \/ Phase = "accepted" /\ Phase' = "ready" /\ UNCHANGED <<text, served>>
  \/ Phase = "accepted" /\ Phase' = "running" /\ UNCHANGED <<text, served>>
  \/ Phase = "running" /\ Phase' \in {"done", "ready"} /\ served' = text /\ text' = text
  \/ Phase = "done" /\ Phase' = "ready" /\ UNCHANGED <<text, served>>
  \/ UNCHANGED <<Phase, text, served>>

LEMMA ServedIsStep == Served => [Server!Next \/ (~patient)']_(Server!vars)
  BY DEF Served, Phase, Server!Next, Server!vars, Server!Accept, Server!Reject, Server!Start,
         Server!Finish, Server!Return

\* The steps of the sweep thread between commands.
LEMMA SamePhase ==
  ASSUME UNCHANGED <<shellPc, shell_function>>,
         \/ sweepPc' = sweepPc
         \/ sweepPc \notin {"clear", "run"} /\ sweepPc' \notin {"clear", "run"}
  PROVE  Phase' = Phase
  BY DEF Phase

LEMMA StepServes == IInv /\ [Next]_vars /\ patient' => Served
  <1> SUFFICES ASSUME Ranges, Asleep, WakeupPending, PatientInv, [Next]_vars, patient, patient' PROVE Served
    BY Impatient DEF IInv, Inv, PatientInv
  <1> USE PhaseCases, PhaseCasesNext DEF PatientInv, Busy, Asleep, WakeupPending
  <1>1. CASE ReadLine BY <1>1 DEF ReadLine, Served
  <1>2. CASE RejectLine BY <1>2 DEF RejectLine, Served
  <1>3. CASE HandOver BY <1>3 DEF HandOver, Served
  <1>4. CASE TimerFires BY <1>4 DEF TimerFires, Served
  <1>5. CASE GiveUp BY <1>5 DEF GiveUp, Served
  <1>6. CASE WakeUp BY <1>6 DEF WakeUp, Served
  <1>7. CASE StartPlain BY <1>7 DEF StartPlain, Served
  <1>8. CASE FinishPlain BY <1>8 DEF FinishPlain, Served
  <1>9. CASE SweepEnds
    <2>1. Phase' = Phase BY <1>9, SamePhase DEF SweepEnds
    <2> QED BY <1>9, <2>1 DEF SweepEnds, Served
  <1>10. CASE TakeCommand
    <2>1. UNCHANGED <<text, served, shellPc>> BY <1>10 DEF TakeCommand
    <2>2. CASE shell_function = 0
      <3>1. Phase' = Phase BY <1>10, <2>2, SamePhase DEF TakeCommand
      <3> QED BY <2>1, <3>1 DEF Served
    <2>3. CASE shell_function # 0
      <3>1. shellPc = "waiting" BY <2>3
      <3>2. Phase = "accepted" /\ Phase' = "accepted" BY <1>10, <2>3, <3>1 DEF TakeCommand
      <3> QED BY <2>1, <3>2 DEF Served
    <2> QED BY <2>2, <2>3
  <1>11. CASE StartCommand BY <1>11 DEF StartCommand, Served
  <1>12. CASE FinishCommand BY <1>12 DEF FinishCommand, Served
  <1>13. CASE ResumeShell BY <1>13 DEF ResumeShell, Served
  <1>14. CASE SampleButtons
    <2>1. Phase' = Phase BY <1>14, SamePhase DEF SampleButtons
    <2> QED BY <1>14, <2>1 DEF SampleButtons, Served
  <1>15. CASE FinishLever
    <2>1. Phase' = Phase BY <1>15, SamePhase DEF FinishLever
    <2> QED BY <1>15, <2>1 DEF FinishLever, Served
  <1>16. CASE CheckTouch
    <2>1. Phase' = Phase BY <1>16, SamePhase DEF CheckTouch
    <2> QED BY <1>16, <2>1 DEF CheckTouch, Served
  <1>17. CASE FinishTouch
    <2>1. Phase' = Phase BY <1>17, SamePhase DEF FinishTouch
    <2> QED BY <1>17, <2>1 DEF FinishTouch, Served
  <1>18. CASE Press
    <2>1. Phase' = Phase BY <1>18, SamePhase DEF Press
    <2> QED BY <1>18, <2>1 DEF Press, Served
  <1>19. CASE Release
    <2>1. Phase' = Phase BY <1>19, SamePhase DEF Release
    <2> QED BY <1>19, <2>1 DEF Release, Served
  <1>20. CASE Touch
    <2>1. Phase' = Phase BY <1>20, SamePhase DEF Touch
    <2> QED BY <1>20, <2>1 DEF Touch, Served
  <1>21. CASE UNCHANGED vars BY <1>21, SamePhase DEF vars, Served
  <1> QED BY <1>1, <1>2, <1>3, <1>4, <1>5, <1>6, <1>7, <1>8, <1>9, <1>10, <1>11, <1>12, <1>13, <1>14, <1>15, <1>16, <1>17, <1>18, <1>19, <1>20, <1>21
    DEF Next, ShellStep, SweepStep, Interrupt

\* Patient, the two threads serve one line after the other (main.c:291-310, 3477-3524).
THEOREM Refinement == Spec => ImplementsServer
  <1>1. Init => Server!Init
    BY DEF Init, Server!Init
  <1>2. IInv /\ [Next]_vars => [Server!Next \/ (~patient)']_(Server!vars)
    <2>1. CASE patient' BY <2>1, StepServes, ServedIsStep
    <2>2. CASE ~patient' BY <2>2
    <2> QED BY <2>1, <2>2
  <1> QED BY <1>1, <1>2, Invariance, PTL DEF Spec, ImplementsServer, Server!Spec

=============================================================================
