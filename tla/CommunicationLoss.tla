--------------------------- MODULE CommunicationLoss ---------------------------
(***************************************************************************)
(* An outdoor unit and its communication watchdog together: the hub feeds  *)
(* the watchdog with what it receives and hands a request to the unit only *)
(* after the response delay, the fault of the watchdog stops the unit in   *)
(* its next update, and with the simulation switched off updates and       *)
(* replies cease while the watchdog goes on.                               *)
(*                                                                         *)
(* The unit is OduModel.  The watchdog is that of TickWatchdog, which      *)
(* CommunicationWatchdog implements: ticks pass unnoticed until someone    *)
(* advances it.  The writes and switches that change what a stop or a      *)
(* forced defrost has to wait for come with it; water flows from the       *)
(* external pump.                                                          *)
(***************************************************************************)
EXTENDS OduModel

CONSTANTS
  LIMIT,       \* silent ticks that are still tolerated
  MaxElapsed   \* bound: ticks until the watchdog is advanced

ASSUME LossAssumption == {LIMIT, MaxElapsed} \subseteq Nat \ {0}

VARIABLES
  elapsed,     \* ticks since the watchdog was advanced
  counter,
  timed_out,
  injected,    \* injected_communication_fault_
  simulation_enabled,
  pending,     \* a request waits for its response delay
  silence,     \* history: ticks since a request for the unit came in, as far
               \* as LIMIT + 1
  updates      \* history: how many calls of update() there were, modulo 2

watchdog == <<elapsed, counter, timed_out>>
loss_vars == <<vars, watchdog, injected, simulation_enabled, pending, silence, updates>>

More(n) == IF n > LIMIT THEN n ELSE n + 1

Verdict == IF elapsed = 0 THEN timed_out ELSE elapsed > LIMIT - counter

\* The unit with the fault as sync_communication_fault_() leaves it
Synced(tripped, by_user) == [odu EXCEPT !.communication_fault = tripped \/ by_user]

\* advance_communication_watchdog(): not of a unit without a profile
Advance(fed) ==
  IF odu.enabled
  THEN /\ timed_out' = Verdict
       /\ counter' = IF fed THEN 0 ELSE counter + Lesser(elapsed, LIMIT - counter)
       /\ elapsed' = 0
  ELSE UNCHANGED watchdog

Advanced == IF odu.enabled THEN Synced(Verdict, injected) ELSE odu
------------------------------------------------------------------------------
Tick ==
  /\ elapsed < MaxElapsed
  /\ elapsed' = IF odu.enabled THEN elapsed + 1 ELSE 0
  /\ silence' = More(silence)
  /\ UNCHANGED <<vars, counter, timed_out, injected, simulation_enabled, pending, updates>>

\* QuattOduModbusHub::loop()
LoopAdvance ==
  /\ Advance(FALSE) /\ odu' = Advanced
  /\ UNCHANGED <<ui, commanded, injected, simulation_enabled, pending, silence, updates>>

\* A request for the unit: it feeds at once; one at a time waits for its delay.
Receive ==
  /\ Advance(TRUE) /\ odu' = Advanced
  /\ pending' = TRUE /\ silence' = 0
  /\ UNCHANGED <<ui, commanded, injected, simulation_enabled, updates>>

Write ==
  \/ \E value \in Request : write_1999(value)
  \/ \E mode \in WorkingMode : write_working_mode(mode)
  \/ write_forced_defrost

\* The delay is over.  Besides the writes there are reads, and requests that a
\* fault injection of the hub drops.
ProcessRequest ==
  /\ pending /\ pending' = FALSE
  /\ \/ simulation_enabled /\ Write
     \/ UNCHANGED vars
  /\ UNCHANGED <<watchdog, injected, simulation_enabled, silence, updates>>

\* A broadcast reaches every unit at once, whether it would answer or not, and
\* feeds none.
ProcessBroadcast ==
  /\ Write
  /\ UNCHANGED <<watchdog, injected, simulation_enabled, pending, silence, updates>>

SimulatorUpdate_LateAdvance ==
  /\ UNCHANGED watchdog
  /\ IF simulation_enabled /\ odu.enabled
     THEN /\ \E dt \in Dt : odu' \in Updated(odu, dt)
          /\ commanded' = (commanded /\ ~MustStop(odu))
     ELSE /\ odu' = odu /\ UNCHANGED commanded
  /\ updates' = 1 - updates
  /\ UNCHANGED <<ui, injected, simulation_enabled, pending, silence>>

\* QuattOduSimulator::update(), every 250 ms
SimulatorUpdate ==
  /\ Advance(FALSE)
  /\ IF simulation_enabled /\ odu.enabled
     THEN /\ \E dt \in Dt : odu' \in Updated(Advanced, dt)
          /\ commanded' = (commanded /\ ~MustStop(Advanced))
     ELSE /\ odu' = Advanced /\ UNCHANGED commanded
  /\ updates' = 1 - updates
  /\ UNCHANGED <<ui, injected, simulation_enabled, pending, silence>>

set_simulation_enabled(on) ==
  /\ simulation_enabled' = on
  /\ UNCHANGED <<vars, watchdog, injected, pending, silence, updates>>

\* set_fault_word(2, value)
inject_communication_fault(on) ==
  /\ injected' = on /\ odu' = Synced(timed_out, on)
  /\ UNCHANGED <<ui, commanded, watchdog, simulation_enabled, pending, silence, updates>>

Configure(enabled) ==
  /\ configure(enabled)
  /\ elapsed' = 0 /\ counter' = 0 /\ timed_out' = FALSE /\ injected' = FALSE
  /\ silence' = 0
  /\ UNCHANGED <<simulation_enabled, pending, updates>>

\* The other settings of the interface
Setting ==
  /\ \E switch \in Switch, on \in BOOLEAN : set_switch(switch, on)
  /\ UNCHANGED <<watchdog, injected, simulation_enabled, pending, silence, updates>>
------------------------------------------------------------------------------
LossInit ==
  /\ odu = ConfiguredOdu(TRUE)
  /\ ui = [w \in AllSwitches |-> w \in {"hold_level", "external_flow"}]
  /\ commanded = FALSE
  /\ elapsed = 0 /\ counter = 0 /\ timed_out = FALSE /\ injected = FALSE
  /\ simulation_enabled = TRUE /\ pending = FALSE /\ silence = 0 /\ updates = 0

LossNext ==
  \/ Tick \/ LoopAdvance \/ Receive \/ ProcessRequest \/ ProcessBroadcast
  \/ SimulatorUpdate \/ Setting
  \/ \E on \in BOOLEAN :
       set_simulation_enabled(on) \/ inject_communication_fault(on) \/ Configure(on)

\* update() is called every 250 ms for ever.  This is WF of SimulatorUpdate,
\* which is always enabled and the only action that changes `updates`; said of
\* the counter alone it takes TLC a fraction of the time.
UpdateAgain == updates' = 1 - updates

LossSpec == LossInit /\ [][LossNext]_loss_vars /\ WF_updates(UpdateAgain)
------------------------------------------------------------------------------
(* Properties.                                                             *)

\* A compressor is only started for a controller that was heard within the
\* limit, however late the loop looks at the watchdog and whatever a broadcast,
\* a request that waited or a time with the simulation switched off left in the
\* registers.
StartsOnlyWhenSpokenTo ==
  [][odu.active_mode = STANDBY /\ odu'.active_mode # STANDBY => silence <= LIMIT]_loss_vars

\* A controller that falls silent for good, or an injected fault that stays,
\* leaves a compressor that stands still in the end, though writes or broadcasts
\* go on, unless the simulation is off or the user freezes the speed.
SilenceStopsCompressor ==
  <>[](odu.enabled /\ simulation_enabled /\ ~ui["freeze"] /\ (silence > LIMIT \/ injected))
    => <>[](odu.active_mode = STANDBY)

\* A forced defrost ends, completed or aborted, as long as the simulation is not
\* switched off again and again.
ForcedDefrostEnds ==
  <>[]simulation_enabled => (odu.forced_defrost ~> ~odu.forced_defrost)

\* The watchdog of this module, its bit in the unit included, is that of
\* CommunicationWatchdog seen in whole ticks, and nothing else the unit or the
\* controller does moves it.
Ticked == INSTANCE TickWatchdog WITH
  enabled <- odu.enabled, fault <- odu.communication_fault

ImplementsTicks == Ticked!Init /\ [][Ticked!Next]_(Ticked!tick_vars)
==============================================================================
