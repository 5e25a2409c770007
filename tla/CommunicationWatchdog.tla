------------------------ MODULE CommunicationWatchdog ------------------------
(***************************************************************************)
(* The communication watchdog of every outdoor unit (ODU) on the bus, and  *)
(* bit 0 of fault word 3 that it drives.  The main loop advances all       *)
(* watchdogs to millis() on every pass; a request with a valid CRC that    *)
(* the hub sees on the bus is shown to both units, and feeds the one it    *)
(* is addressed to when its function code is 3, 6 or 16.                   *)
(*                                                                         *)
(* millis() is `clock % CLOCK_WRAP`.  `clock`, `ticked_at` and `silence`   *)
(* are history variables: the code sees them through millis() only, and    *)
(* only Pass, which is external, reads ticked_at in its guard.             *)
(***************************************************************************)
EXTENDS Integers, FiniteSets

CONSTANTS
  Unit,         \* the units (models_[0], models_[1])
  UnitAddress,  \* their bus addresses, pairwise different
  BusAddress,   \* addresses that requests carry
  FunctionCode, \* function codes that requests carry
  Gap,          \* milliseconds that may pass between two passes of the loop
  TICK_MS,
  LIMIT,
  CLOCK_WRAP    \* 2^32 in the program

ASSUME UnitsAssumption ==
  /\ UnitAddress \in [Unit -> BusAddress]
  /\ \A u, v \in Unit : u # v => UnitAddress[u] # UnitAddress[v]

ASSUME TimesAssumption ==
  /\ TICK_MS \in Nat \ {0}
  /\ LIMIT \in Nat \ {0}
  /\ CLOCK_WRAP \in Nat
  /\ CLOCK_WRAP > TICK_MS
  /\ Gap \subseteq Nat \ {0}

VARIABLES
  last_tick_ms, \* 32-bit time of the last tick counted
  counter,
  timed_out,
  enabled,      \* the profile is not DISABLED
  injected,     \* injected_communication_fault_
  fault_bit,    \* fault_words[2] & FAULT_MASK
  clock,
  ticked_at,
  silence

watchdog == <<last_tick_ms, counter, timed_out>>
history == <<ticked_at, silence>>
vars == <<last_tick_ms, counter, timed_out, enabled, injected, fault_bit,
          clock, ticked_at, silence>>

Lesser(a, b) == IF a < b THEN a ELSE b

millis == clock % CLOCK_WRAP

FAULT_FEEDING == {3, 6, 16}

Feeds(u, request) ==
  /\ request.crc_valid
  /\ request.address = UnitAddress[u]
  /\ request.function_code \in FAULT_FEEDING

------------------------------------------------------------------------------
(* CommunicationWatchdog::advance, as functions of one unit's state.       *)

ElapsedTicks_NoWrap(u) ==
  IF millis < last_tick_ms[u] THEN 0 ELSE (millis - last_tick_ms[u]) \div TICK_MS

ElapsedTicks(u) == ((millis - last_tick_ms[u]) % CLOCK_WRAP) \div TICK_MS

AdvancedTickTime(u) ==
  (last_tick_ms[u] + ElapsedTicks(u) * TICK_MS) % CLOCK_WRAP

AdvancedVerdict_CompareAfter(u) ==
  IF ElapsedTicks(u) = 0 THEN timed_out[u]
                         ELSE ElapsedTicks(u) >= LIMIT - counter[u]

AdvancedVerdict(u) ==
  IF ElapsedTicks(u) = 0 THEN timed_out[u]
                         ELSE ElapsedTicks(u) > LIMIT - counter[u]

AdvancedCounter(u) ==
  counter[u] + Lesser(ElapsedTicks(u), LIMIT - counter[u])

\* Every enabled unit is advanced to now; those in fed then start counting anew.
Advance(fed) ==
  /\ last_tick_ms' =
       [u \in Unit |-> IF enabled[u] THEN AdvancedTickTime(u) ELSE last_tick_ms[u]]
  /\ timed_out' =
       [u \in Unit |-> IF enabled[u] THEN AdvancedVerdict(u) ELSE timed_out[u]]
  /\ counter' =
       [u \in Unit |-> IF ~enabled[u] THEN counter[u]
                       ELSE IF u \in fed THEN 0 ELSE AdvancedCounter(u)]

\* sync_communication_fault_ at the end of the same call.
SyncedFault(u) == timed_out'[u] \/ injected[u]

TrueTicks(u) == (clock - ticked_at[u]) \div TICK_MS

RecordHistory(fed) ==
  /\ ticked_at' =
       [u \in Unit |-> IF enabled[u] THEN ticked_at[u] + TrueTicks(u) * TICK_MS
                                     ELSE ticked_at[u]]
  /\ silence' =
       [u \in Unit |-> IF ~enabled[u] THEN silence[u]
                       ELSE IF u \in fed THEN 0 ELSE silence[u] + TrueTicks(u)]

------------------------------------------------------------------------------
Init ==
  /\ clock = 0
  /\ last_tick_ms = [u \in Unit |-> 0]
  /\ counter = [u \in Unit |-> 0]
  /\ timed_out = [u \in Unit |-> FALSE]
  /\ enabled = [u \in Unit |-> FALSE]
  /\ injected = [u \in Unit |-> FALSE]
  /\ fault_bit = [u \in Unit |-> FALSE]
  /\ ticked_at = [u \in Unit |-> 0]
  /\ silence = [u \in Unit |-> 0]

\* Time passes between two passes of the loop.  No enabled unit is left
\* unattended for a whole period of the 32-bit clock (49.7 days).
Pass(ms) ==
  /\ \A u \in Unit : enabled[u] => clock + ms - ticked_at[u] < CLOCK_WRAP
  /\ clock' = clock + ms
  /\ UNCHANGED <<last_tick_ms, counter, timed_out, enabled, injected, fault_bit,
                 ticked_at, silence>>

\* advance_communication_watchdogs(millis()), on every loop() and update().
LoopAdvance ==
  /\ Advance({})
  /\ RecordHistory({})
  /\ fault_bit' =
       [u \in Unit |-> IF enabled[u] THEN SyncedFault(u) ELSE fault_bit[u]]
  /\ UNCHANGED <<enabled, injected, clock>>

\* A request is seen on the bus: each unit advances, then may be fed.
observe_modbus_request(request) ==
  LET fed == {u \in Unit : enabled[u] /\ Feeds(u, request)}
  IN /\ Advance(fed)
     /\ RecordHistory(fed)
     /\ fault_bit' =
          [u \in Unit |-> IF enabled[u] THEN SyncedFault(u) ELSE fault_bit[u]]
     /\ UNCHANGED <<enabled, injected, clock>>

\* set_fault_word(2, value): only bit 0 of the value is followed here.
set_fault_word(u, bit) ==
  /\ injected' = [injected EXCEPT ![u] = bit]
  /\ fault_bit' = [fault_bit EXCEPT ![u] = timed_out[u] \/ bit]
  /\ UNCHANGED <<watchdog, enabled, clock, history>>

\* set_profile -> configure(profile, millis()): the unit starts from scratch.
configure(u, profile_enabled) ==
  /\ last_tick_ms' = [last_tick_ms EXCEPT ![u] = millis]
  /\ counter' = [counter EXCEPT ![u] = 0]
  /\ timed_out' = [timed_out EXCEPT ![u] = FALSE]
  /\ enabled' = [enabled EXCEPT ![u] = profile_enabled]
  /\ injected' = [injected EXCEPT ![u] = FALSE]
  /\ fault_bit' = [fault_bit EXCEPT ![u] = FALSE]
  /\ ticked_at' = [ticked_at EXCEPT ![u] = clock]
  /\ silence' = [silence EXCEPT ![u] = 0]
  /\ UNCHANGED clock

Request ==
  [address : BusAddress, function_code : FunctionCode, crc_valid : BOOLEAN]

Next ==
  \/ \E ms \in Gap : Pass(ms)
  \/ LoopAdvance
  \/ \E request \in Request : observe_modbus_request(request)
  \/ \E u \in Unit, b \in BOOLEAN : set_fault_word(u, b) \/ configure(u, b)

Spec == Init /\ [][Next]_vars

------------------------------------------------------------------------------
(* Properties.                                                             *)

\* Every variable has its type; the counter never passes LIMIT (it is a
\* uint16_t compared with LIMIT by an unsigned subtraction).
TypeOK ==
  /\ last_tick_ms \in [Unit -> 0 .. CLOCK_WRAP - 1]
  /\ counter \in [Unit -> 0 .. LIMIT]
  /\ timed_out \in [Unit -> BOOLEAN]
  /\ enabled \in [Unit -> BOOLEAN]
  /\ injected \in [Unit -> BOOLEAN]
  /\ fault_bit \in [Unit -> BOOLEAN]
  /\ clock \in Nat
  /\ ticked_at \in [Unit -> Nat]
  /\ silence \in [Unit -> Nat]

\* advance(): whatever the batching of ticks and however often millis() wraps,
\* a unit that heard nothing for more than LIMIT ticks is in fault, and one in
\* fault either heard nothing for that long or was fed since its last tick.
FaultMeansSilence ==
  \A u \in Unit : enabled[u] =>
    /\ silence[u] > LIMIT => timed_out[u]
    /\ timed_out[u] => silence[u] > LIMIT \/ silence[u] = 0

\* sync_communication_fault_(): the register shows the fault exactly when the
\* watchdog tripped or the user injects it, whichever call came last.
FaultBitInSync ==
  \A u \in Unit : enabled[u] => (fault_bit[u] <=> timed_out[u] \/ injected[u])

\* The inductive invariant behind the properties: the 32-bit time of the last
\* tick is the true one modulo the clock's period, the unit is less than a
\* period behind, and the counter is the silence, saturated.
UnitInv(u) ==
  /\ last_tick_ms[u] = ticked_at[u] % CLOCK_WRAP
  /\ ticked_at[u] <= clock
  /\ enabled[u] => clock - ticked_at[u] < CLOCK_WRAP
  /\ counter[u] = Lesser(silence[u], LIMIT)
  /\ silence[u] > LIMIT => timed_out[u]
  /\ timed_out[u] => silence[u] > LIMIT \/ silence[u] = 0

IInv == TypeOK /\ \A u \in Unit : UnitInv(u)

\* observe_request(): traffic for one unit of the pair never feeds the other.
OneUnitFed ==
  [][\A u, v \in Unit :
       counter'[u] < counter[u] /\ counter'[v] < counter[v] => u = v]_vars

Ideal(u) == INSTANCE IdealWatchdog WITH
  ticked_at <- ticked_at[u], silence <- silence[u], fault <- timed_out[u]

IdealStep(u) == [Ideal(u)!Next]_(Ideal(u)!ideal_vars)

\* The 32-bit clock, the saturating counter and the batch of ticks in
\* advance() implement, for every unit, the watchdog that counts every tick:
\* \A u \in Unit : Ideal(u)!Spec, with the quantifier moved inside the box.
ImplementsIdeal ==
  /\ \A u \in Unit : Ideal(u)!Init
  /\ [][\A u \in Unit : IdealStep(u)]_vars

Ticked(u) == INSTANCE TickWatchdog WITH
  enabled <- enabled[u], elapsed <- IF enabled[u] THEN TrueTicks(u) ELSE 0,
  counter <- counter[u], timed_out <- timed_out[u], injected <- injected[u],
  fault <- fault_bit[u]

TickStep(u) == [Ticked(u)!Next]_(Ticked(u)!tick_vars)

\* Seen in whole ticks, with the bit it drives, each unit's watchdog is the one
\* that CommunicationLoss puts beside a unit: \A u \in Unit : Ticked(u)!Spec.
ImplementsTicks ==
  /\ \A u \in Unit : Ticked(u)!Init
  /\ [][\A u \in Unit : TickStep(u)]_vars
==============================================================================
