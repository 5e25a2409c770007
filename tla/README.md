# A formal model of the OpenQuatt simulator

This directory holds TLA+ models of the control logic of the OpenQuatt
simulator: the firmware that plays two Quatt outdoor units (ODUs) on a Modbus
bus, an OpenTherm boiler and an OpenTherm thermostat towards a controller under
test. The modules are translated from the code under `src/`; `PROJECT.json`
lists, for each definition, the lines it stands for.

* `tlc -config X.cfg M` checks a model, `tlapm M_proofs.tla` its proofs.
* Contents: [inventory](#inventory), [modules](#modules), [runs](#runs),
  [what the runs found](#what-the-runs-found), [proofs](#proofs),
  [limits](#what-is-not-modelled), [plan](#plan).

## Inventory

All firmware code runs on the ESPHome main loop, except interrupts of the
OpenTherm driver (RMT receive and transmit done) and the HTTP server's task.
"Main loop" includes component `loop()`s, intervals, buttons and web requests,
which therefore interleave but never overlap.

| Part | State | Operations | What is hard about it |
|---|---|---|---|
| Communication watchdog (`quatt_odu_communication_watchdog.h`) | last tick, counter, verdict, per unit | `reset`, `advance`, `observe_request` | 32-bit clock, saturation, batches of ticks, two units on one bus |
| ODU model (`quatt_odu_simulator_model.h`) | `OduState`, settings | register writes, `update(dt)`, injected defrost, fault words, `configure` | two overlapping defrosts, a deferred level, safety stop against writes, compressor timers |
| Heating limits (`quatt_odu_heating_limits.h`) | outside band, release of F19/F20 | `configure`, `reset`, `apply` | hysteresis over jumps and boundary values |
| M2 hub (`quatt_odu_simulator.cpp`) | pending request, reply in transmission, injected faults, retry awaited, counters | `loop`, buttons, settings sync, `on_shutdown` | a UART that fails or stalls, one-shot faults, deadlines, loss |
| Address configuration (`quatt_odu_simulator.h`, package YAML) | pending, persisted and active addresses | Apply, boot, restart | two values persisted apart, applied one by one |
| OpenTherm driver (`OpenTherm.cpp`) | ring of received frames, status, transmission | interrupts, `process`, `sendResponse`, `begin`, `end` | shared by interrupt and main loop, bounded ring |
| OpenTherm slave (`hcq_ot_boiler_simulator.cpp`, `opentherm_response_scheduler.h`) | start/OTA state, pending reply | `loop`, OTA callbacks, response switch and delay, `on_shutdown` | late replies, cancellation, starting on a busy bus |
| Boiler model (`boiler_simulator_model.h`) | mode, flame, ignition | `step`, manual mode, `reset` | stale demand, interrupted ignition |
| Thermostat simulator (`hcq_ot_thermostat_simulator.cpp`) | next request, time of the last one, interval, counters | `loop`, response callback, `set_poll_interval_ms`, OTA, `on_shutdown` | the driver calls itself ready when a late answer or noise arrives while its own request is on the wire |
| Start-sequence diagnostics (`opentherm_start_sequence_diagnostics.h`) | first frames seen | `observe`, `reset` | passive |
| Web server SSE backport (`web_server_idf.cpp`) | sessions, one event buffer and a deferred queue each, results and work shared with HTTPD | accept, adopt, list, publish, send, close, destroy | two threads, socket reuse, stalled clients, work that cannot be queued |
| Thermodynamics, performance and register tables | floats, generated constants | interpolation | data |
| YAML user interface, HTTP probe, HIL scripts | | | glue and tools |

Interactions:

* The hub shows every request with a good CRC to both watchdogs, and passes the
  ones addressed to a unit to its ODU model. The watchdog drives bit 0 of fault
  word 3, which `update()` of the ODU model turns into a safety stop.
* The hub feeds a unit's watchdog when a request comes in and hands the request
  to the unit after the response delay; a broadcast goes to all units at once and
  feeds none. With the simulation switched off, replies and `update()` stop, the
  watchdogs go on.
* The ODU model asks the heating limits for the level while it heats.
* The slave takes requests from the driver, keeps the master's status and TSet
  for the boiler model and sends what the boiler model answers, after a delay.
* The HTTP server's task parks new sessions and wakes the main loop, which adopts
  them; the main loop queues sends and shutdowns for the task, which runs them and
  ends a session whenever its socket closes.
* The settings syncs of the YAML copy every switch and number into the
  components every 500 ms; buttons call them directly.

What makes each part correct is listed with the runs below; `PROJECT.json`
lists the hazards, at their lines, with the properties that watch over them.

## Modules

| Module | Models | State and actions |
|---|---|---|
| `IdealWatchdog` | what a watchdog promises | unbounded clock and tick count |
| `TickWatchdog` | a watchdog with the injected fault and the fault bit, seen in whole ticks | `Look` is `advance_communication_watchdog` and `observe_modbus_request`, `Pass` any number of ticks |
| `CommunicationWatchdog` | both watchdogs, `sync_communication_fault_`, `set_fault_word`, `configure` | functions over the units; `LoopAdvance` and `observe_modbus_request` are the hub's calls, `Pass` is time |
| `OduModel` | commands, defrosts, safety stop, pump and compressor | `odu` is `OduState`, `ui` the switches; one action per register, switch and `update(dt)` |
| `CompressorRest` | what the compressor's timers and guards are for | EXTENDS `OduModel` with the history `turned`: the mode in which it last turned, and its rest since |
| `CommunicationLoss` | a unit with its watchdog: hub reception and response delay, `QuattOduSimulator::update`, broadcasts, the simulation switch | EXTENDS `OduModel`; the watchdog in whole ticks, `TickWatchdog` |
| `HeatingLimits` | `HeatingLimits` | one action per method; `apply` with valid and invalid readings |
| `ModbusHub` | `QuattOduModbusHub` | one record `hub`; `loop()` is cut where it calls `Modbus::loop()`, into `LoopTop`, received frames and one of three `Finish` actions |
| `AddressConfig` | pending numbers, Apply, globals in flash, boot lambda, `set_address` | one action per step, plus a power cut |
| `OpenThermDriver` | the driver's frame ring, `process`, transmission | operators on a driver record, no variables: two components own such a driver |
| `OpenThermSlave` | the protocol half of `HCQOTBoilerSimulator` over the driver | `Serve` and `Start` are `loop()`, the others the callbacks, interrupts, master and clock |
| `ThermostatMaster` | `HCQOTThermostatSimulator` over the driver | `loop`, start, stop, OTA, interval; what comes over the wire is any frame at any time |
| `BoilerSimulator` | the boiler half: model step, master status, switches | `update` every 500 ms of the code, requests, switches, the ignition delay |
| `EventSource` | `AsyncEventSource` and its sessions, HTTPD against the main loop | one record per session; `Httpd` and `MainLoop` are the two threads |
| `MC...` | bounded instances for TLC. `MCOpenTherm` explores slave and thermostat, `MCConfiguration` addresses and limits | |
| `..._proofs` | theorems | |

Conventions. A record stands for a C++ object and keeps its field names. An
operation that calls another one is a composition of operators, so an action is
the whole handler. What another party decides is an existential: what the UART
driver answers (`io` in `ModbusHub`), whether the line is quiet, when time
passes, what the master sends. History variables (`silence`, `commanded`,
`turned`, `demand`, `normal`, ...) are declared as such and no code variable depends on
them. Deadlines are kept as the time left, where the code reads them only
before or at the deadline; where it reads them long after (the awaited retry,
the age of the master's status, the watchdog's tick) the wrap of the 32-bit
clock is kept, with a small period.

Abstractions worth knowing:

* A level stands for its frequency: the compressor ramps through levels, and a
  frequency table is valid or not. A write to one table entry may leave the
  table valid or not. The demand limiter and the maximum frequency are `derated`:
  the target is at most some lower level. The duration of a forced defrost is a
  constant, though it can be set; `no_duration` stands for the values that are no
  duration, with which 3999=4 is refused. `external_flow` stands for all that may
  close the flow switch without 2010.
* In `ModbusHub` a PDU is its address, kind (read, write, one that gets an
  exception) and start address; the reply is a number of pieces. Injections
  "silent" and "timeout" have the effect of "every nth", "incomplete" that of a
  reply too short to be marked. A pass of `loop()` has one answer of the UART
  driver for the pump of replies and that of parity faults: a pass calls the driver
  for at most one of them, since only one has something under way.
* In `CommunicationLoss` only the writes and switches appear that change what a
  stop or a forced defrost waits for; the injected defrost is left to the `odu` run.
* In `ThermostatMaster` what is asked and answered is left out. A `begin()` that
  fails is not tried again by the code, nor by the model.
* In `EventSource` an event is its source and kind, its length the number of sends
  it takes. An operation of the main loop is one step, although HTTPD runs beside
  it: of what the main loop reads, HTTPD only ever sets `fd_` to zero, a queued
  flag to false and a result just before that flag, so a late read is a step of
  HTTPD that came earlier. `AsyncEventSource::loop()` is cut between sessions, and
  a session's `loop()` before its listing, where a result is looked at again.
  `missed` names the states the code drops by intent (a state published while
  others are listed); broadcasts compete with states for the buffer.
* In `OpenThermSlave` a frame is valid, bad (parity or type) or garbled.
  `enabled_` is never changed at run time and is taken true.
* In `OpenThermDriver` the ages of frames and of the transmission stop counting
  past the timeout. The code compares 32-bit counts of CPU cycles, which go round
  in 18 to 27 seconds: a frame that lies unread for just that long would count as
  young again, and is not modelled.
* Temperatures of the boiler and its modulation are left out: no step depends
  on them. The age of its master's status, `silence`, keeps after the first turn of
  the clock only the place in the turn.
* The synchronisation of `AddressConfig` with flash follows ESPHome's
  preferences: each global under a key of its own, both written on an orderly
  restart.

## Runs

Each run takes one question; every property of a passing run is known to fail
for at least one plausible bug in the code it is about (`mutants` in
`PROJECT.json`).

| Run | Shows | Bounds |
|---|---|---|
| `watchdog` | `ImplementsIdeal`: each watchdog behaves like the ideal one. `FaultMeansSilence` | 2 units and a foreign address, tick 3, limit 2, clock of period 16 followed for 24: the limit is met exactly and passed, ticks come in batches, the clock wraps, and 3 does not divide 16 |
| `odu` | `CyclesAccountedFor`, `DeferredOnlyInDefrost`, `StopIsFinal`, `RestsBeforeReversal`, `FrozenDuringDefrost` | levels 0..2, of which 0, 1 and 3 (capped to 2) are asked for, so that a level that runs can be held against 0 and against another; a start delay of 1 update, timers of 1 or 2, one forced defrost per configuration: an update can end, continue or abort it, and both defrosts overlap |
| `communication_loss` | `StartsOnlyWhenSpokenTo`, `SilenceStopsCompressor`, `ForcedDefrostEnds` | a unit of one level, all timers 1 update, its tables always valid; a limit of 2 ticks and at most 2 that pass before anybody looks: a batch meets the limit or passes it; requests wait, broadcasts do not, the simulation goes off and on |
| `odu_deferred_level` | violation of `LatestLevelApplies`, below | |
| `hub` | `ExclusiveDriver` (one driver of the bus, one armed fault), `EvenParityRestored`, `RetriesHaveFaults`, `UncountedOnlyIfTaken` | one unit, broadcasts and an unknown address, replies in 2 pieces, every answer of the UART driver including up to two failed restores in a row, a clock ring of 4 so that an awaited retry wraps |
| `hub_liveness` | `TransmissionEnds`, `RequestServed` | one kind of request; a reply of one piece, deadlines of one tick |
| `configuration` | `EachUnitReachable`; `CeilingIsNearby`, `NoChatter`, `EveryReasonReported` | addresses 1 to 4: both factory addresses and two others. Readings in half degrees on and beside the boundaries of bands 0-2, 4 and 8-9, the cold shutdown and its restart, and the release window; levels 18 and 20 asked for; a legacy profile and V2 new |
| `address_swap` | violation of `AppliedBecomesActive`, below | |
| `opentherm` | slave: `PendingOnlyWhileServing`, `NormalLoadIsClean`, `AnsweredInTime`, `ReadyMeansIdle`, `SlaveStarts`; thermostat: `OneRequestOnWire`, `TimeoutMeansStall`, `PollingGoesOn` | ring of 3 (2 frames), 2 transmissions in the peripheral; delays of 1 and 2 ticks against a master that waits 4, noise and stalls at any time; poll intervals of 2 and 3 ticks against frames of 1; the driver's timeout of 5, shared by both, longer than the patience and the intervals, as in the code |
| `boiler` | `StaleOnlyAtClockTurn`, `IgnitionTakesTime`, `IgnitionGoesOn` | ignition delays of 0 to 3 ticks, changed at any time; updates up to 3 ticks apart, of which a step accepts 2; status valid for 1; a clock of period 5 that goes round as often as it likes |
| `boiler_ignition` | violation of `OnlyBurningSkipsIgnition`, below | |
| `event_source` | `TypeOK` (with the queue's bound), `NoDangling`, `BufferPinned`, `OnlyGivenUpShutDown`, `StaleOnlyIfMissed`, `OnlyStuckClosed`; `GivenUpIsDeleted`, `StuckIsClosed`, `ParkedIsAdopted` | one session and one socket that are used again and again, by other clients too; one source and one sorting group; events of 2 sends; a stall timeout of 2 ticks against retries of 1; both kinds of work may fail to be queued, every time |

Two runs check two components each, in one state space: `configuration` and
`opentherm`. The components of such a pair share no state and run on devices, or
parts of the program, that do not meet, so each is explored by itself while the
other rests (`explored`, `device`), and nothing is lost by not interleaving them.

Time constants are scaled so that their order is that of the code and every
threshold can be missed, met and passed. The number of units is two where they
interact (`watchdog`, `configuration`); in the hub the units differ only in the
index of a counter, so one unit, a broadcast and an unknown address show all
paths. Sessions of the event source share nothing but the round over them; the
safety of any number of them is proved.

A few properties in words, with what they leave out:

* `RestsBeforeReversal`: a compressor that turns one way has stood still in
  standby for the whole start delay since it turned the other way. The standstill
  guard of `update()` is what it is about: without it a unit whose frozen or slowly
  falling speed is not zero yet would start in the other mode.
* `FrozenDuringDefrost`: while the level is held, only two things move it, both to
  zero: the safety stop, and 1999=0 that aborts the forced one of two defrosts.
* `UncountedOnlyIfTaken`: a request that leaves the queue, or a reply that leaves
  the line, was sent, is being sent, or was counted as dropped. Two ways to vanish
  uncounted are left. `LineTaken`: `send_pdu_` returns false because a byte came
  in between the check of `loop()` and the reply, and nobody looks at the result.
  And a restart, which clears the counters too.
* `RetriesHaveFaults` counts retries against faults. It does not see a retry that
  is counted because it came when the clock had gone half round (24.8 days) and
  its deadline seemed ahead again.
* `EvenParityRestored` holds "unless the driver refused to restore it": after a
  failed restore the line stays at odd parity until a later fault restores it or
  the device restarts. `restore_failed` marks that state.
* `NormalLoadIsClean`, `AnsweredInTime`, `ReadyMeansIdle` are about the normal
  load of the tester's manual: a master that waits for its answer or its own
  timeout, no noise, and a loop that runs at least once a tick. `normal` turns
  false with the first deviation.
* `StaleOnlyAtClockTurn`: an automatic step leaves a flame on a status older than
  the timeout in one window only, the 10 s after the millisecond clock has gone
  round since that status (49.7 days, and every turn after it), when the difference
  of the clock values is small again. The run reaches that flame.
* `IgnitionTakesTime` and `IgnitionGoesOn` say together that a flame is lit exactly
  when the same heat was wanted for the ignition delay, however the delay is changed
  meanwhile. The exception of the first is `HeatByHand`: a boiler taken out of
  manual mode with heat switched on lights at once, which `boiler_ignition` is about.
* `StartsOnlyWhenSpokenTo` is about the moment a compressor starts: `update()`
  advances the watchdog before it decides. Deciding on the verdict of the last
  `loop()` would be wrong only with the ticks of one batch in between, which is
  the mutant of that run.
* `SilenceStopsCompressor` has an exception the code makes: with `freeze` on, the
  measured speed never reaches standstill, and the stop waits for the switch.
  `ForcedDefrostEnds` asks that the simulation be on for good in the end; while it
  is off nothing counts the defrost down.
* `OneRequestOnWire` shows what keeps the thermostat's requests apart. Not the
  driver's status: a frame that comes in during a transmission takes the driver
  from sending to READY. Only the poll interval does, which is at least 250 ms
  against 34 ms for a frame.
* `TimeoutMeansStall`: `timeout_count_` of the thermostat does not count answers
  that never come, since after a request the driver is READY and waits for none.
  It counts requests that were still being sent a second later, which takes a
  stalled loop.
* `StaleOnlyIfMissed`: for every client that is served and every source, the latest
  state was sent, is in the buffer or the queue, or is still to be listed. The
  exception are the sources `missed`: a state published while the initial listing
  goes on is dropped by `deferrable_send_state`, and a client whose source was
  listed before stays with the old state until the source publishes again.
* `OnlyStuckClosed`, `StuckIsClosed`: `quiet` counts the time without progress
  independently of `send_failure_started_ms_`.

### Fairness

* `communication_loss`: weak fairness of `update()`. It is called from the polling
  component every 250 ms for ever, whether the simulation is enabled or not;
  nothing a controller writes can hold it back. It is stated as `WF_updates` over
  the history bit that each call flips, which is the same as fairness of the action
  (always enabled, and the only one to change the bit), and cheaper. Writes,
  switches, time and the hub's loop have no fairness.
* `hub_liveness`: weak fairness of `loop()` and of time, strong fairness of
  serving a request on a quiet line: `loop()` retries on every pass, and a
  client that waits for its answer leaves the line quiet again and again. A
  `lap` bit flips on each pass, so that a pass that changes nothing still counts
  and fairness never forces an answer of the UART driver: the properties hold
  when it reports "not yet" for ever.
* `opentherm`: weak fairness of each device's main loop, of time and of the RMT
  peripheral finishing a frame. Nothing is assumed of the bus: it may be busy for
  ever.
* `event_source`: weak fairness of the main loop's round; strong fairness of time,
  which passes between rounds, of the HTTPD task running what was queued for it and
  closing a socket that was shut down (the task serves its control queue and its
  sockets in turn), and of a close that is offered again and again being queued at
  last. Sends need not succeed, nor be queued, ever.

## What the runs found

1. **Exchanging the two addresses has no effect** (`address_swap`,
   `AppliedBecomesActive`). The boot lambda gives unit 1 its stored address while
   unit 2 still has its factory address, and `set_address` ignores an address
   the other unit has (`quatt_odu_simulator.h:199`). A stored pair 2, 1 passes
   the check of Apply but is refused at every boot. `EachUnitReachable`, which
   the same guard protects, holds in all cases.
2. **An older deferred level can override a later 0** (`odu_deferred_level`,
   `LatestLevelApplies`). In a forced defrost that overlaps an injected one,
   `1999=0` aborts the forced defrost and takes effect at once, but the level
   deferred before stays pending and is restored when the injected defrost ends
   (`quatt_odu_simulator_model.h:612`).
3. **A flame without ignition after manual mode** (`boiler_ignition`,
   `OnlyBurningSkipsIgnition`). The model decides by its mode, not by its flame,
   whether an ignition is needed; manual mode sets the two separately
   (`boiler_simulator_model.h:148`).

`PROJECT.json` quotes the statements these runs contradict.

## Proofs

All theorems hold for every value of the constants that the modules' named
assumptions allow; TLC evaluates those assumptions in the runs. Each proof
module has the same layout: lemmas about the operators, `Init` establishes the
invariant, a step per action, and temporal theorems that only combine them.

| Module | Theorems | Argument |
|---|---|---|
| `CommunicationWatchdog_proofs` | `TypeCorrect`, `FaultCorrect` (`FaultMeansSilence`), `FaultBitCorrect` (`FaultBitInSync`), `OnlyOneUnitFed` (`OneUnitFed`), `Refinement` (`ImplementsIdeal`), `TickRefinement` (`ImplementsTicks`) | `IInv`: the 32-bit tick time is the unbounded one modulo the clock's period, and the counter is the silent ticks, capped at the limit. Neither `FaultMeansSilence` nor the refinement is inductive without it: the code decides from the wrapped difference of two times. Then every step of the code is a step of `IdealWatchdog` or leaves it alone; and, with `TrueTicks` for the ticks that wait to be counted, one of `TickWatchdog`. |
| `ModbusHub_proofs` | `HubTypes` (`TypeOK`), `OneDriver` (`ExclusiveDriver`), `ParityComesBack` (`EvenParityRestored`), `RetriesAreAnswers` (`RetriesHaveFaults`), `LossIsCountedOrTaken` (`UncountedOnlyIfTaken`) | `HubInv`: besides the three invariants, which need each other (a fault begins only on a line that the pin says is free; a reply aborts to even parity because no other fault is active), that a response whose parity fault is armed or begun is the only one, that a hub that receives has no fault on the bus and that one that is down has nothing queued. A reply is followed through `pump_tx` by `Pumped`: it is on the bus as before, or settled. |
| `BoilerSimulator_proofs` | `TypeCorrect`, `FlameStaleOnlyAtClockTurn` (`StaleOnlyAtClockTurn`), `IgnitionIsWhole` (`IgnitionTakesTime`), `IgnitionEnds` (`IgnitionGoesOn`), `FlameSurvivesSwitch` (`BurningSwitches`) | `BInv`: the age computed on the wrapping clock is the true one until the clock has gone round, and from then on the place in its turn; an ignition is for the heat wanted last and exactly as long under way as that wish is old; a heat that is wanted is on or ignites; and heat without a flame was put there by hand. The four action properties follow from it. |
| `OpenThermDriver_proofs` | lemmas: each operator keeps `DriverOK` | the driver's types, and a ring of received frames that keeps one slot empty |
| `OpenTherm_proofs`, the slave | `TypeCorrect`, `NoReplyIsLeftBehind` (`PendingOnlyWhileServing`); `NormalLoadStaysClean` (`NormalLoadIsClean`), `RepliesComeInTime` (`AnsweredInTime`), `ReadyIsIdle` (`ReadyMeansIdle`) | `SInv`: with the first property, that a slave that runs is not in an update and its device is up. `ota_ended` and `setup` need that: they reset neither `started_` nor the reply, and are right only because the slave was stopped before. `LoadInv` follows the one request of the normal load: it is in the ring alone and as old as the master's wait, or its reply is held back with enough of the master's patience left for delay and frame, or the reply is on the wire and ends before it. The three properties are read off from it; none is inductive, since each is a race between the clocks of master, delay and peripheral. |
| `OpenTherm_proofs`, the thermostat | `RequestsKeptApart` (`OneRequestOnWire`), `TimeoutsAreStalls` (`TimeoutMeansStall`) | `PollInv`: while a request is on the wire, the time since it was sent plus what is left of it is at most a frame. The time only grows by the tick that also takes from the frame, and is only reset where a frame is handed over. `StallInv`: a frame at place i of the ring is at most as old as the passes that are left until it is taken, so a loop that runs each tick meets none that is older than the driver's timeout. |
| `Configuration_proofs` | `AddressesDistinct`, `UnitsReachable` (`EachUnitReachable`); `CeilingsAreNearby` (`CeilingIsNearby`), `ReasonsReported` (`EveryReasonReported`), `NoSwingChatters` (`NoChatter`) | `AInv` of the addresses, on which the hub's `Units` rest: they differ, whatever pair is in flash, by the guard of `set_address` alone, so that the order of the boot lambda and power cuts do not matter. `CeilingInv` of the limits: the temperature lies in the window of the band in force, the band left last was left for a temperature outside its window, and the result is computed from that band. That two such windows leave a swing of at least two degrees (`BandsApart`) is what keeps a ceiling from going back and forth. For every set of temperatures and levels. |
| `OduModel_proofs` | `OduTypes` (`TypeOK`), `CyclesAreCounted` (`CyclesAccountedFor`), `DeferredEndsWithDefrost` (`DeferredOnlyInDefrost`), `StopRestoresNothing` (`StopIsFinal`), `HeldLevelIsFrozen` (`FrozenDuringDefrost`), `RestBeforeReversal` (`RestsBeforeReversal`); `LossInvariant`, `StartsAreHeard` (`StartsOnlyWhenSpokenTo`), `LossRefinesTicks` (`ImplementsTicks`) | `OduInv`: types, the count of the cycles together with the timer of the one that runs, a deferred level only in a defrost, and nothing left after a stop. None of these is inductive alone: that the end of a defrost releases the level needs that the timer runs exactly while a cycle does, and that a stop is final needs that no level is deferred past it. That a held level is frozen follows from it, action by action. For the rest before a reversal, `Rested` is added: in standby the compressor stands still, and has done so for at least as long as its start timer says; in a mode it last turned that way, or has rested. `LossInv` adds to it, for the composition with the watchdog, that in an enabled unit the silence is at most what the watchdog has counted and has yet to count, or it has tripped: an update that starts a compressor has just counted and not tripped. `LossRefinesTicks`: the watchdog there is `TickWatchdog`, for nothing a unit does moves its fault but the watchdog, the injection and a new configuration. |
| `EventSource_proofs` | `SessionTypes` (`TypeOK`), `DeletedInTime` (`NoDangling`), `BufferStandsStill` (`BufferPinned`), `ShutsDownItsOwn` (`OnlyGivenUpShutDown`), `LostOnlyWhileListing` (`StaleOnlyIfMissed`), `OnlyStuckAreClosed` (`OnlyStuckClosed`) | `Shared /\ Round`: a session keeps its socket as long as the socket carries it; each item queued for or run by HTTPD has its flag up in the session, and is not queued twice; a send is queued only over a full buffer and never beside a close; sockets are shut down only of sessions given up. `Kept` is what every operation of the main loop leaves to HTTPD: it raises flags and never lowers them, which is why the order of the two threads does not matter. A state is missed only in a listing because every operation of the main loop that does not give the session up `Carries` each source on, from the list to the queue, the buffer and the client; that it holds only from the adoption on, where the initial listing begins, is why the invariant says so of sessions that are served. Only stuck clients are given up because the time counted from the first stall never exceeds that for which the buffer stood still. For any number of sessions, sockets and sources. |

The assumptions: units have different addresses (`UnitsAssumption`); the clock's
period is longer than what is compared on it (`TimesAssumption`,
`BoilerAssumption`); times, levels, ring and peripheral are not empty
(`OduAssumption`, `LossAssumption`, `DriverAssumption`, `SlaveAssumption`); levels
are at most 20 and an invalid reading is no temperature (`LimitsAssumption`); `NONE` and the other
client are no sessions, sockets, sources or buffers (`EventSourceAssumption`,
`BufferAssumption`). Three more are about the order of times in the code:

* `PollAssumption` (thermostat): every poll interval is longer than a frame. The
  interface lets the user set 250 ms and more; a frame takes 34 ms.
* `RingAssumption` (`TimeoutsAreStalls`): the driver's timeout is at least a frame,
  and the ring has no more slots than the timeout has ticks, plus one. In the
  program: four slots, 1000 ms.
* `LoadAssumption` (the slave's normal load): delay and frame are within the
  master's patience, and so is a tick with a frame; a frame is within the driver's
  timeout. The delay is at most 700 ms.

A drop counter has more than one value (`HubAssumption`; the code's have 2^32), so
that one drop shows in it: `LossIsCountedOrTaken` needs that. No theorem has a premise
that is not one of these assumptions.

`FaultBitInSync`, `OneUnitFed`, `BurningSwitches` and the type invariants of the
watchdog, the unit, the hub, the slave and the boiler are proved and no run checks them any
more: the runs are kept for what the proofs do not cover or a reader wants to see
on an instance. `OneRequestOnWire` and `TimeoutMeansStall` are checked through `MCOpenTherm` under
the same names. The two `ImplementsTicks` were checked by TLC with the constants of
`watchdog` and `communication_loss` and are left to the proofs.

What a proof attempt found: in an earlier model an update that ended after a
shutdown could start the thermostat of a device that was off. The device takes no
callbacks then, and `ThermostatMaster!ota_ended` says so now.

Only model-checked: all liveness (`SilenceStopsCompressor`, `ForcedDefrostEnds`,
`TransmissionEnds`, `RequestServed`, `SlaveStarts`, `PollingGoesOn`,
`GivenUpIsDeleted`, `StuckIsClosed`, `ParkedIsAdopted`), since fairness and ENABLED
are outside the prover's reach; and, by their nature, the three statements that the
code contradicts. Every invariant and action property of a passing run is proved.
Nothing is proved about recursive data or by induction over it.

## What is not modelled

* Thermodynamics, pressures, power and the performance tables: floating-point
  data flow without control decisions. The read side of the register map and
  the generated contract: tables.
* Decoding of Manchester pulses (its three results are kept), encoding of
  frames, typed getters of the OpenTherm library.
* The start-sequence diagnostics: a passive observer that compares each request
  with the one before; nothing reads what it notes.
* Request parsing, authentication, multipart uploads and utilities of the vendored
  web server: code of ESPHome that the simulator's logic does not depend on; only
  the event source was rewritten here.
* What the event source does with the body of an event (chunked encoding, buffer
  sizes) and with more than one web server.
* The persistence of profile and model settings other than the addresses.
* Sensors, texts and layout of the user interface; the HTTP probe and the
  hardware-in-the-loop scripts, which run outside the firmware.

## Plan

Done, in this order: the watchdog with its abstract specification and proofs;
the ODU model; the hub; addresses; heating limits; the OpenTherm driver and
slave; the boiler; the thermostat over the same driver; the event source; the
composition of watchdog, hub reception and unit; proofs for the thermostat, the
ODU model, the event source and the hub; proofs for the limits, for the slave's
normal load and the thermostat's timeouts; the watchdog in whole ticks.

Left:

1. The slave and the thermostat on one wire, if a test setup ever joins them.
2. The composition of unit and watchdog as an implementation of `OduModel`, whose
   steps would have to be taken two at a time.
