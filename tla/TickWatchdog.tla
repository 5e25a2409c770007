----------------------------- MODULE TickWatchdog -----------------------------
(***************************************************************************)
(* The communication watchdog of one outdoor unit seen in whole ticks, with *)
(* everything the rest of the unit can tell of it: the ticks that went by  *)
(* since it was advanced, its counter and verdict, the injected fault and  *)
(* the bit of the fault word.  Ticks come at any time and in any number.   *)
(*                                                                         *)
(* Two modules implement it: CommunicationWatchdog, which computes the     *)
(* ticks from a wrapping millisecond clock, and CommunicationLoss, in which *)
(* the bit stops a unit.  That is what lets the second count ticks only.   *)
(***************************************************************************)
EXTENDS Integers

CONSTANT LIMIT

VARIABLES
  enabled,    \* the profile is not DISABLED
  elapsed,    \* ticks since the watchdog was advanced
  counter,
  timed_out,
  injected,   \* injected_communication_fault_
  fault       \* fault_words[2] & FAULT_MASK

tick_vars == <<enabled, elapsed, counter, timed_out, injected, fault>>

TooMany == elapsed > LIMIT - counter

Verdict == IF elapsed = 0 THEN timed_out ELSE TooMany

Init ==
  /\ enabled \in BOOLEAN
  /\ elapsed = 0
  /\ counter = 0
  /\ timed_out = FALSE
  /\ injected = FALSE
  /\ fault = FALSE

Pass ==
  /\ enabled
  /\ elapsed' \in Nat
  /\ elapsed' > elapsed
  /\ UNCHANGED <<enabled, counter, timed_out, injected, fault>>

\* advance_communication_watchdog(), or observe_modbus_request() with a request
\* that may feed
Look(fed) ==
  /\ enabled
  /\ timed_out' = Verdict
  /\ counter' = IF fed THEN 0 ELSE IF TooMany THEN LIMIT ELSE counter + elapsed
  /\ elapsed' = 0
  /\ fault' = (Verdict \/ injected)
  /\ UNCHANGED <<enabled, injected>>

set_fault_word(bit) ==
  /\ injected' = bit
  /\ fault' = (timed_out \/ bit)
  /\ UNCHANGED <<enabled, elapsed, counter, timed_out>>

configure ==
  /\ enabled' \in BOOLEAN
  /\ elapsed' = 0
  /\ counter' = 0
  /\ timed_out' = FALSE
  /\ injected' = FALSE
  /\ fault' = FALSE

Next ==
  \/ Pass
  \/ \E b \in BOOLEAN : Look(b) \/ set_fault_word(b)
  \/ configure

Spec == Init /\ [][Next]_tick_vars
==============================================================================
