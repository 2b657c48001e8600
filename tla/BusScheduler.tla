---------------------------- MODULE BusScheduler ----------------------------
(***************************************************************************)
(* zs407_bus_scheduler of modern/core/zs407_services.c: who may use the SPI *)
(* bus that the RF chips, the display, the touch screen and the SD card     *)
(* share.  Clients are numbered by falling priority, from 0 for the RF      *)
(* chips.                                                                   *)
(***************************************************************************)
EXTENDS Integers, FiniteSetsExt

CONSTANT ClientCount    \* ZS407_BUS_CLIENT_COUNT

ASSUME BusAssumption == ClientCount \in Nat

Clients == 0..(ClientCount - 1)
None == ClientCount    \* ZS407_BUS_NONE

VARIABLES pending_mask,    \* the clients that wait
          active_client,   \* the one that has the bus, or None
          overtakers       \* history: per waiting client, those that were
                           \* granted the bus since it began to wait

busVars == <<pending_mask, active_client, overtakers>>

BusInit == /\ pending_mask = {} /\ active_client = None
           /\ overtakers = [c \in Clients |-> {}]

\* zs407_bus_request
Request(c) == /\ pending_mask' = pending_mask \cup {c}
              /\ overtakers' = IF c \in pending_mask THEN overtakers
                               ELSE [overtakers EXCEPT ![c] = {}]
              /\ UNCHANGED active_client

\* The last client that waits, not the first.
ChosenLast == Max(pending_mask)

\* the first bit set in the mask
Chosen == Min(pending_mask)

\* zs407_bus_grant_next
GrantNext == /\ active_client = None /\ pending_mask # {}
             /\ active_client' = Chosen
             /\ pending_mask' = pending_mask \ {Chosen}
             /\ overtakers' = [c \in Clients |->
                                 IF c \in pending_mask \ {Chosen}
                                 THEN overtakers[c] \cup {Chosen} ELSE {}]

\* zs407_bus_release, refused for a client that does not hold the bus
Release(c) == /\ active_client = c
              /\ active_client' = None
              /\ UNCHANGED <<pending_mask, overtakers>>

BusNext == GrantNext \/ \E c \in Clients : Request(c) \/ Release(c)

BusSpec == BusInit /\ [][BusNext]_busVars

-----------------------------------------------------------------------------
(* Properties.                                                               *)

\* While a client waits the bus goes to more urgent clients only, so the RF
\* chips wait for one release at most, whatever the others request meanwhile
\* (zs407_services.c:111-119).
OvertakenByUrgentOnly == \A c \in pending_mask : \A d \in overtakers[c] : d < c
=============================================================================
