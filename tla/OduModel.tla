------------------------------- MODULE OduModel -------------------------------
(***************************************************************************)
(* One simulated outdoor unit, QuattOduSimulatorModel: the registers that  *)
(* command it (1999 level, 2010 pump, 3999 working mode, the frequency     *)
(* tables), the switches of the user interface, and update(dt), the step   *)
(* of the simulation that runs every 250 ms.                               *)
(*                                                                         *)
(* `odu` is OduState and `ui` the part of ModelSettings and OduState that  *)
(* the interface switches set.  Times are in units of the smallest dt and  *)
(* timers stop counting at the threshold they are compared with.  A        *)
(* frequency is the level whose table entry it is; a frequency table is    *)
(* only valid or not.  Temperatures, power and pressures are left out.     *)
(***************************************************************************)
EXTENDS Integers

CONSTANTS
  MAX_LEVEL,        \* maximum_level() of the profile
  Request,          \* levels that are asked for
  Dt,               \* lengths of an update
  START_DELAY,      \* compressor_start_delay_s
  MINIMUM_RUNTIME,  \* minimum_runtime_s
  STOP_DELAY,       \* stop_delay_s
  RAMP_UP,          \* levels per unit of time
  RAMP_DOWN,
  DEFROST_DURATION, \* forced_defrost_duration_s
  LimitedLevel,     \* levels the heating limits or a derating may allow
  Switch,           \* the interface switches that are ever turned
  Table,            \* the modes whose frequency table is ever written
  MaxCycles         \* bound: forced defrosts started

\* external_flow: the flow switch may close without 2010 (force_flow_without_relay,
\*   force_flow_switch_on, residual flow with no flow_start_delay_s);
\* derated: demand_limiter or maximum_frequency_hz are below the tables;
\* no_duration: forced_defrost_duration_s is no number, or below 1.
AllSwitches == {"hold_level", "freeze", "manual_telemetry", "external_flow",
                "heating_limits", "derated", "no_duration"}

STANDBY == "STANDBY"
COOLING == "COOLING"
HEATING == "HEATING"
RunningMode == {COOLING, HEATING}
WorkingMode == RunningMode \cup {STANDBY}

\* One more than the maximum stands for all that are capped.
Level == 0 .. MAX_LEVEL + 1

ASSUME OduAssumption ==
  /\ {MAX_LEVEL, START_DELAY, MINIMUM_RUNTIME, STOP_DELAY, RAMP_UP, RAMP_DOWN,
      DEFROST_DURATION, MaxCycles} \subseteq Nat \ {0}
  /\ Request \subseteq Level
  /\ Dt \subseteq Nat \ {0}
  /\ LimitedLevel \subseteq Nat
  /\ Switch \subseteq AllSwitches
  /\ Table \subseteq RunningMode

VARIABLES
  odu,
  ui,
  commanded  \* history: a level was written since the last safety stop

vars == <<odu, ui, commanded>>

Lesser(a, b) == IF a < b THEN a ELSE b

defrost_active(s) == s.defrost \/ s.forced_defrost

Faulty(s) == s.communication_fault \/ s.other_fault

\* A defrost freezes the level.
Holds_OnlyForced(s) == s.forced_defrost /\ ui["hold_level"]

Holds(s) == defrost_active(s) /\ ui["hold_level"]

AcceptedLevel(value) == Lesser(value, MAX_LEVEL)

Demand(s) == s.requested_mode # STANDBY /\ s.accepted_level > 0

------------------------------------------------------------------------------
(* The deferred level and the forced defrost.                              *)

update_deferred_defrost_level(s) ==
  IF defrost_active(s) \/ ~s.deferred_pending THEN s
  ELSE [s EXCEPT !.accepted_level = s.deferred_level,
                 !.deferred_level = 0,
                 !.deferred_pending = FALSE]

abort_forced_defrost_Always(s) ==
  update_deferred_defrost_level(
    [s EXCEPT !.forced_defrost = FALSE, !.forced_remaining = 0, !.aborted = @ + 1])

abort_forced_defrost(s) ==
  IF ~s.forced_defrost THEN s
  ELSE update_deferred_defrost_level(
         [s EXCEPT !.forced_defrost = FALSE,
                   !.forced_remaining = 0,
                   !.aborted = @ + 1])

manual_defrost_ready(s) ==
  /\ s.enabled /\ ~ui["manual_telemetry"] /\ ~s.defrost /\ ~Faulty(s)
  /\ s.requested_mode = HEATING /\ s.active_mode = HEATING
  /\ s.accepted_level > 0 /\ s.measured > 0
  /\ s.flow_switch /\ ~ui["no_duration"]

update_forced_defrost(s, dt) ==
  IF ~s.forced_defrost THEN s
  ELSE IF ~manual_defrost_ready(s) THEN abort_forced_defrost(s)
  ELSE IF s.forced_remaining > dt THEN [s EXCEPT !.forced_remaining = @ - dt]
  ELSE update_deferred_defrost_level(
         [s EXCEPT !.forced_defrost = FALSE,
                   !.forced_remaining = 0,
                   !.completed = @ + 1])

------------------------------------------------------------------------------
(* update(dt): safety stop, forced defrost, pump, compressor.              *)

MustStop_OnlyRunning(s) == s.communication_fault /\ s.active_mode # STANDBY

MustStop(s) ==
  /\ s.communication_fault
  /\ \/ s.requested_mode # STANDBY
     \/ s.active_mode # STANDBY
     \/ defrost_active(s)

safety_stop_KeepsDeferred(s) ==
  IF ~MustStop(s) THEN s
  ELSE [abort_forced_defrost(s) EXCEPT
          !.requested_mode = STANDBY, !.requested_level = 0, !.accepted_level = 0]

safety_stop(s) ==
  IF ~MustStop(s) THEN s
  ELSE [abort_forced_defrost(s) EXCEPT
          !.requested_mode = STANDBY,
          !.requested_level = 0,
          !.accepted_level = 0,
          !.deferred_level = 0,
          !.deferred_pending = FALSE]

\* The flow switch, and flow enough beside it, follow the pump with a lag.
FlowOutcomes(s) == IF s.pump_request \/ ui["external_flow"] THEN BOOLEAN ELSE {FALSE}

MayStart(s) == Demand(s) /\ s.active_mode = STANDBY

Standstill_NotAwaited(s) == TRUE

Standstill(s) == s.measured = 0

update_compressor(s, dt, cap) ==
  LET demand == Demand(s)
      waiting == MayStart(s)
      start_timer == IF waiting THEN Lesser(s.start_timer + dt, START_DELAY)
                     ELSE IF demand THEN s.start_timer ELSE 0
      starts == waiting /\ start_timer >= START_DELAY
      running_mode == IF starts THEN s.requested_mode ELSE s.active_mode
      runs == running_mode # STANDBY
      running_timer == IF runs
                       THEN Lesser((IF starts THEN 0 ELSE s.running_timer) + dt,
                                   MINIMUM_RUNTIME)
                       ELSE s.running_timer
      stopping == /\ runs
                  /\ ~demand \/ s.requested_mode # running_mode
                  /\ running_timer >= MINIMUM_RUNTIME
      stop_timer == IF stopping THEN Lesser(s.stop_timer + dt, STOP_DELAY)
                    ELSE IF runs THEN 0 ELSE s.stop_timer
      stops == stopping /\ stop_timer >= STOP_DELAY /\ Standstill(s)
      mode == IF stops THEN STANDBY ELSE running_mode
      follows == /\ mode # STANDBY /\ mode = s.requested_mode /\ demand
                 /\ s.table_valid[mode]
      limited == \/ ui["derated"]
                 \/ ui["heating_limits"] /\ mode = HEATING /\ ~defrost_active(s)
      target == IF ~follows THEN 0
                ELSE IF limited THEN Lesser(s.accepted_level, cap)
                ELSE s.accepted_level
      ramped == IF target >= s.measured
                THEN Lesser(target, s.measured + RAMP_UP * dt)
                ELSE IF s.measured - target <= RAMP_DOWN * dt THEN target
                ELSE s.measured - RAMP_DOWN * dt
  IN [s EXCEPT !.active_mode = mode,
               !.start_timer = IF stops THEN 0 ELSE start_timer,
               !.running_timer = running_timer,
               !.stop_timer = IF stops THEN 0 ELSE stop_timer,
               !.measured = IF ui["freeze"] THEN s.measured ELSE ramped]

\* What an update may make of `s`.
Updated(s, dt) ==
  LET t == update_forced_defrost(safety_stop(s), dt)
  IN  {update_compressor([t EXCEPT !.flow_switch = flow], dt, cap) :
         flow \in FlowOutcomes(t), cap \in LimitedLevel}

update(dt) ==
  /\ odu.enabled
  /\ odu' \in Updated(odu, dt)
  /\ commanded' = (commanded /\ ~MustStop(odu))
  /\ UNCHANGED ui

------------------------------------------------------------------------------
(* Register writes that can_write_register accepts.                        *)

write_1999(value) ==
  /\ odu.enabled
  /\ LET forced_stop == value = 0 /\ odu.forced_defrost
         s == IF forced_stop THEN abort_forced_defrost(odu) ELSE odu
         accepted == AcceptedLevel(value)
     IN odu' = IF ~forced_stop /\ Holds(s)
               THEN [s EXCEPT !.requested_level = value,
                              !.deferred_level = accepted,
                              !.deferred_pending = TRUE]
               ELSE [s EXCEPT !.requested_level = value,
                              !.accepted_level = accepted]
  /\ commanded' = TRUE
  /\ UNCHANGED ui

\* 3999 := 0, 1, 2 selects a mode and ends a forced defrost.
write_working_mode(mode) ==
  /\ odu.enabled
  /\ odu' = [abort_forced_defrost(odu) EXCEPT !.requested_mode = mode]
  /\ UNCHANGED <<ui, commanded>>

write_forced_defrost_Restarts ==
  /\ odu.enabled
  /\ odu.forced_defrost \/ (manual_defrost_ready(odu) /\ odu.started < MaxCycles)
  /\ odu' = [odu EXCEPT !.forced_defrost = TRUE,
                        !.forced_remaining = DEFROST_DURATION,
                        !.started = IF odu.forced_defrost THEN @ ELSE @ + 1]
  /\ UNCHANGED <<ui, commanded>>

\* 3999 := 4 starts a forced defrost; while one runs it is only acknowledged.
write_forced_defrost ==
  /\ odu.enabled
  /\ \/ odu.forced_defrost
     \/ manual_defrost_ready(odu) /\ odu.started < MaxCycles
  /\ odu' = IF odu.forced_defrost THEN odu
            ELSE [odu EXCEPT !.forced_defrost = TRUE,
                             !.forced_remaining = DEFROST_DURATION,
                             !.started = @ + 1]
  /\ UNCHANGED <<ui, commanded>>

write_2010(on) ==
  /\ odu.enabled
  /\ odu' = [odu EXCEPT !.pump_request = on]
  /\ UNCHANGED <<ui, commanded>>

\* A table write changes one entry: the table it leaves may be valid or not.
write_table(mode, valid) ==
  /\ odu.enabled
  /\ odu' = [odu EXCEPT !.table_valid[mode] = valid]
  /\ UNCHANGED <<ui, commanded>>

------------------------------------------------------------------------------
(* The user interface, and the fault words the watchdog also drives.       *)

set_defrost_KeepsDeferred(on) ==
  /\ odu' = [odu EXCEPT !.defrost = on]
  /\ UNCHANGED <<ui, commanded>>

set_defrost(on) ==
  /\ odu' = update_deferred_defrost_level([odu EXCEPT !.defrost = on])
  /\ UNCHANGED <<ui, commanded>>

set_switch(switch, on) ==
  /\ ui' = [ui EXCEPT ![switch] = on]
  /\ UNCHANGED <<odu, commanded>>

set_communication_fault(on) ==
  /\ odu' = [odu EXCEPT !.communication_fault = on]
  /\ UNCHANGED <<ui, commanded>>

set_other_fault(on) ==
  /\ odu' = [odu EXCEPT !.other_fault = on]
  /\ UNCHANGED <<ui, commanded>>

ConfiguredOdu(enabled) ==
  [enabled |-> enabled,
   requested_mode |-> STANDBY, active_mode |-> STANDBY,
   requested_level |-> 0, accepted_level |-> 0,
   deferred_level |-> 0, deferred_pending |-> FALSE,
   pump_request |-> FALSE, flow_switch |-> FALSE,
   defrost |-> FALSE, forced_defrost |-> FALSE, forced_remaining |-> 0,
   started |-> 0, completed |-> 0, aborted |-> 0,
   communication_fault |-> FALSE, other_fault |-> FALSE,
   table_valid |-> [m \in RunningMode |-> TRUE],
   start_timer |-> 0, running_timer |-> 0, stop_timer |-> 0,
   measured |-> 0]

\* Manual telemetry is part of the state, and off until the next sync.
configure(enabled) ==
  /\ odu' = ConfiguredOdu(enabled)
  /\ commanded' = FALSE
  /\ ui' = [ui EXCEPT !["manual_telemetry"] = FALSE]

------------------------------------------------------------------------------
Init ==
  /\ odu = ConfiguredOdu(FALSE)
  /\ ui = [w \in AllSwitches |-> w = "hold_level"]
  /\ commanded = FALSE

ControllerNext ==
  \/ \E value \in Request : write_1999(value)
  \/ \E mode \in WorkingMode : write_working_mode(mode)
  \/ write_forced_defrost
  \/ \E on \in BOOLEAN : write_2010(on)
  \/ \E mode \in Table, valid \in BOOLEAN : write_table(mode, valid)

InterfaceNext ==
  \/ \E on \in BOOLEAN : set_defrost(on)
  \/ \E switch \in Switch, on \in BOOLEAN : set_switch(switch, on)
  \/ \E on \in BOOLEAN : set_other_fault(on)

\* What changes the registers and switches between two updates
Between ==
  \/ ControllerNext
  \/ InterfaceNext
  \/ \E on \in BOOLEAN : set_communication_fault(on)

Next ==
  \/ Between
  \/ \E enabled \in BOOLEAN : configure(enabled)
  \/ \E dt \in Dt : update(dt)

Spec == Init /\ [][Next]_vars

------------------------------------------------------------------------------
(* Properties.                                                             *)

TypeOK ==
  /\ odu \in [enabled : BOOLEAN,
              requested_mode : WorkingMode, active_mode : WorkingMode,
              requested_level : Level, accepted_level : 0 .. MAX_LEVEL,
              deferred_level : 0 .. MAX_LEVEL, deferred_pending : BOOLEAN,
              pump_request : BOOLEAN, flow_switch : BOOLEAN,
              defrost : BOOLEAN, forced_defrost : BOOLEAN,
              forced_remaining : 0 .. DEFROST_DURATION,
              started : 0 .. MaxCycles, completed : 0 .. MaxCycles,
              aborted : 0 .. MaxCycles,
              communication_fault : BOOLEAN, other_fault : BOOLEAN,
              table_valid : [RunningMode -> BOOLEAN],
              start_timer : 0 .. START_DELAY,
              running_timer : 0 .. MINIMUM_RUNTIME,
              stop_timer : 0 .. STOP_DELAY,
              measured : 0 .. MAX_LEVEL]
  /\ ui \in [AllSwitches -> BOOLEAN]
  /\ commanded \in BOOLEAN

\* The published started/completed/aborted counters account for every cycle
\* once: a duplicate 3999=4, a stop and the end of the timer never count twice,
\* and the timer runs exactly while a cycle does.
CyclesAccountedFor ==
  /\ odu.started = odu.completed + odu.aborted + (IF odu.forced_defrost THEN 1 ELSE 0)
  /\ odu.forced_defrost <=> odu.forced_remaining > 0

\* A level is only held back while some defrost lasts: whichever of the two
\* defrosts ends last, on whichever path, releases it.
DeferredOnlyInDefrost == odu.deferred_pending => defrost_active(odu)

\* "restores no cleared commands": after the safety stop of update() nothing,
\* the end of a defrost included, makes a level come back but a new write.
StopIsFinal ==
  ~commanded => odu.accepted_level = 0 /\ odu.requested_level = 0 /\ ~odu.deferred_pending

\* A held level stays frozen through overlapping defrosts until the last of them
\* ends, whatever is written, faults, ends or is aborted meanwhile.  Only a stop
\* moves it, and to zero: the safety stop, or 1999=0, which ends the forced defrost
\* of the two.
FrozenDuringDefrost ==
  [][/\ defrost_active(odu) /\ defrost_active(odu')
     /\ ui["hold_level"] /\ ui'["hold_level"]
     /\ odu'.accepted_level # odu.accepted_level
     => /\ odu'.accepted_level = 0 /\ odu'.requested_level = 0
        /\ \/ odu.communication_fault /\ odu'.requested_mode = STANDBY /\ ~odu'.deferred_pending
           \/ odu.forced_defrost /\ ~odu'.forced_defrost /\ odu'.aborted = odu.aborted + 1]_vars

\* What the manual says of `Hold physical level during defrost`: once no defrost
\* is active the unit runs at the level that was requested last.
LatestLevelApplies ==
  ~defrost_active(odu) => odu.accepted_level = Lesser(odu.requested_level, MAX_LEVEL)
==============================================================================
