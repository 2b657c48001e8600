---------------------------- MODULE CommandServer ----------------------------
(***************************************************************************)
(* What a host that sends one line and waits for its prompt is promised:    *)
(* lines are accepted one at a time, the command of a line runs once, and   *)
(* the next line is accepted only after it has run.  Nothing is promised    *)
(* any more once the promise is void.                                       *)
(***************************************************************************)
EXTENDS Naturals

VARIABLES phase,    \* what the server is doing with the current line
          line,     \* the number of lines accepted
          served,   \* the last line whose command ran to its end
          void      \* the promise no longer holds

vars == <<phase, line, served>>

Init == phase = "ready" /\ line = 0 /\ served = 0

Accept == /\ phase = "ready" /\ phase' = "accepted"
          /\ line' = line + 1 /\ UNCHANGED served

\* The line names no command.
Reject == /\ phase = "accepted" /\ phase' = "ready"
          /\ UNCHANGED <<line, served>>

Start == /\ phase = "accepted" /\ phase' = "running"
         /\ UNCHANGED <<line, served>>

Finish == /\ phase = "running" /\ phase' \in {"done", "ready"}
          /\ served' = line /\ UNCHANGED line

Return == /\ phase = "done" /\ phase' = "ready"
          /\ UNCHANGED <<line, served>>

Next == Accept \/ Reject \/ Start \/ Finish \/ Return

Spec == Init /\ [][Next \/ void']_vars
=============================================================================
