----------------------------- MODULE FastTuner -----------------------------
(***************************************************************************)
(* For TLC: a tuner in fast scanning, past the mixer.                        *)
(***************************************************************************)
EXTENDS Tuner

\* Four points at a distance of more than half of what the offset register reaches.
FastSweep == {[mode |-> "input", from |-> 21, to |-> 30, fast |-> TRUE, narrow |-> FALSE,
               fm |-> FALSE, tracking |-> FALSE]}
=============================================================================
