---------------------------- MODULE FrequencyDda ----------------------------
(***************************************************************************)
(* zs407_frequency_dda of modern/core/zs407_core.c: the frequencies of a    *)
(* sweep, one per call, by adding a whole step and carrying a remainder     *)
(* instead of dividing.  set_frequencies of main.c fills its cache with     *)
(* them in place of the formula of the legacy getFrequency.  The struct     *)
(* fields that only init assigns are operators on the request; no sum wraps *)
(* its integer, since all stay within the request (see Nearest).            *)
(***************************************************************************)
EXTENDS Integers

CONSTANTS MaxHz,       \* bound on the frequencies of a request
          MaxPoints    \* bound on its points

ASSUME DdaAssumption == MaxHz \in Nat /\ MaxPoints \in Nat \ {0}

\* the requests zs407_frequency_dda_init accepts
Requests == {r \in [start_hz : 0..MaxHz, stop_hz : 0..MaxHz,
                    point_count : 1..MaxPoints] : r.start_hz <= r.stop_hz}

VARIABLES request,       \* the request of the last init
          current_hz, index, error,
          frequency_hz   \* the answer of the last call since init

ddaVars == <<request, current_hz, index, error, frequency_hz>>

Delta(r) == r.stop_hz - r.start_hz
Denominator(r) == IF r.point_count = 1 THEN 1 ELSE r.point_count - 1
WholeStep(r) == IF r.point_count = 1 THEN 0 ELSE Delta(r) \div Denominator(r)
Remainder(r) == IF r.point_count = 1 THEN 0 ELSE Delta(r) % Denominator(r)

\* Rounds down instead of to the nearest.
FirstErrorZero(r) == 0

FirstError(r) == IF r.point_count = 1 THEN 0 ELSE Denominator(r) \div 2

DdaInit == /\ request \in Requests
           /\ current_hz = request.start_hz /\ index = 0
           /\ error = FirstError(request)
           /\ frequency_hz = request.start_hz

\* zs407_frequency_dda_init, with a new request
Restart == /\ request' \in Requests
           /\ current_hz' = request'.start_hz /\ index' = 0
           /\ error' = FirstError(request')
           /\ frequency_hz' = request'.start_hz

\* The carry is lost when it is exact.
CarriesStrictly(sum) == sum > Denominator(request)

Carries(sum) == sum >= Denominator(request)

\* zs407_frequency_dda_next
NextPoint ==
  /\ index < request.point_count
  /\ frequency_hz' = current_hz /\ index' = index + 1
  /\ IF index' < request.point_count
     THEN LET sum == error + Remainder(request)
              step == current_hz + WholeStep(request)
          IN IF Carries(sum)
             THEN error' = sum - Denominator(request) /\ current_hz' = step + 1
             ELSE error' = sum /\ current_hz' = step
     ELSE UNCHANGED <<error, current_hz>>
  /\ UNCHANGED request

DdaNext == Restart \/ NextPoint

DdaSpec == DdaInit /\ [][DdaNext]_ddaVars

-----------------------------------------------------------------------------
(* Properties.                                                               *)

\* getFrequency of main.c without the cache; it divides by zero for one point.
Legacy(r, i) ==
  r.start_hz + (Delta(r) \div (r.point_count - 1)) * i
    + ((r.point_count - 1) \div 2 + (Delta(r) % (r.point_count - 1)) * i)
        \div (r.point_count - 1)

\* "Match the legacy grid exactly" (zs407_core.c:29): every answer is the one
\* the formula of getFrequency gives (main.c:1833).
MatchesLegacy ==
  request.point_count > 1 /\ index > 0 => frequency_hz = Legacy(request, index - 1)

\* "round each rational point to nearest" (zs407_core.c:29): no point leaves the request,
\* and the last one is its end, where the line is at a whole hertz (zs407_core.c:44-49).
Nearest ==
  request.point_count > 1 /\ index > 0 =>
    LET d == Denominator(request)
        off == frequency_hz * d - (request.start_hz * d + (index - 1) * Delta(request))
    IN 2 * off <= d /\ -d <= 2 * off
=============================================================================
