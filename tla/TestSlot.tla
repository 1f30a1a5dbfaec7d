------------------------------ MODULE TestSlot ------------------------------
(***************************************************************************)
(* What the controller promises its dashboard about test sessions: there   *)
(* is ONE test slot.  A test takes the slot when it is created, is         *)
(* launched at most once, and gives the slot back when it completes or is  *)
(* stopped; a session that gave the slot back never takes it again.        *)
(*                                                                         *)
(* Controller.tla implements this module: its session table, with an       *)
(* arbitrary number of finished sessions in it, shows a dashboard nothing  *)
(* this one-slot machine could not show.                                   *)
(***************************************************************************)
EXTENDS Naturals

CONSTANT MaxSessions          \* how many tests are ever created

VARIABLES
    holder,                   \* the session in the slot, 0 when it is free
    phase,                    \* "free", "pending" or "running"
    issued                    \* number of sessions created so far

slotVars == <<holder, phase, issued>>

SlotInit == holder = 0 /\ phase = "free" /\ issued = 0

\* A new session, the next in creation order, takes the free slot.
Take == /\ phase = "free"
        /\ issued < MaxSessions
        /\ issued' = issued + 1
        /\ holder' = issued + 1
        /\ phase' = "pending"

\* The session in the slot is launched.
Launch == /\ phase = "pending"
          /\ phase' = "running"
          /\ UNCHANGED <<holder, issued>>

\* The session in the slot completes or is stopped.
Release == /\ phase # "free"
           /\ holder' = 0
           /\ phase' = "free"
           /\ UNCHANGED issued

SlotNext == Take \/ Launch \/ Release

SlotSpec == SlotInit /\ [][SlotNext]_slotVars
=============================================================================
