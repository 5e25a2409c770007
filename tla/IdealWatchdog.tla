---------------------------- MODULE IdealWatchdog ----------------------------
(***************************************************************************)
(* What the communication watchdog of one outdoor unit promises, with an   *)
(* unbounded clock and an unbounded count of silent ticks: the fault is up *)
(* exactly when, at the last tick looked at, more than LIMIT whole ticks   *)
(* had gone by without a request that feeds the watchdog.                  *)
(*                                                                         *)
(* CommunicationWatchdog implements this with a 32-bit millisecond clock,  *)
(* a counter that saturates at LIMIT, and batches of ticks.                *)
(***************************************************************************)
EXTENDS Integers

CONSTANTS
  TICK_MS,   \* length of a tick
  LIMIT      \* silent ticks that are still tolerated

VARIABLES
  clock,     \* milliseconds since boot, never wraps
  ticked_at, \* the instant up to which ticks have been counted
  silence,   \* ticks since the watchdog was last fed
  fault      \* the communication fault

ideal_vars == <<clock, ticked_at, silence, fault>>

Ticks == (clock - ticked_at) \div TICK_MS

Init ==
  /\ clock = 0
  /\ ticked_at = 0
  /\ silence = 0
  /\ fault = FALSE

Pass ==
  /\ clock' \in Nat
  /\ clock' > clock
  /\ UNCHANGED <<ticked_at, silence, fault>>

\* Whole ticks are accounted for, one by one in the firmware; the verdict is
\* that of the last of them, reached before the feed (if any) clears the count.
Look(fed) ==
  /\ ticked_at' = ticked_at + Ticks * TICK_MS
  /\ fault' = IF Ticks = 0 THEN fault ELSE silence + Ticks > LIMIT
  /\ silence' = IF fed THEN 0 ELSE silence + Ticks
  /\ UNCHANGED clock

Reset ==
  /\ ticked_at' = clock
  /\ silence' = 0
  /\ fault' = FALSE
  /\ UNCHANGED clock

Next ==
  \/ Pass
  \/ \E fed \in BOOLEAN : Look(fed)
  \/ Reset

Spec == Init /\ [][Next]_ideal_vars
==============================================================================
