---------------------------- MODULE BoilerSimulator ----------------------------
(***************************************************************************)
(* What the OpenTherm slave answers: the boiler model of                   *)
(* boiler_simulator_model.h, stepped by update() every 500 ms from the     *)
(* status and setpoint the master sent last, and the switches of the user  *)
(* interface.  Its frames come from OpenThermSlave.                        *)
(*                                                                         *)
(* Time is in ticks.  The age of the master status is a difference of      *)
(* 32-bit clock values, so it is counted modulo CLOCK_WRAP; `silence` is   *)
(* the true age: from CLOCK_WRAP on it keeps only how far the clock is in  *)
(* its turn, and that it went round at least once.  Temperatures and       *)
(* modulation are left out: nothing that happens depends on them.          *)
(***************************************************************************)
EXTENDS Integers

CONSTANTS
  MAX_IGNITION_DELAY,     \* the longest ignition delay the interface offers
  MASTER_STATUS_TIMEOUT,  \* age up to which a status is valid
  CLOCK_WRAP,             \* range of the millisecond clock
  MAX_STEP,               \* the longest time step() accepts
  MaxGap                  \* bound: time between two updates

ASSUME BoilerAssumption ==
  /\ {MAX_IGNITION_DELAY, MASTER_STATUS_TIMEOUT, MAX_STEP, MaxGap} \subseteq Nat \ {0}
  /\ CLOCK_WRAP \in Nat /\ CLOCK_WRAP > MASTER_STATUS_TIMEOUT + MaxGap

IDLE == "IDLE"
IGNITION == "IGNITION"
CENTRAL_HEATING == "CENTRAL_HEATING"
DOMESTIC_HOT_WATER == "DOMESTIC_HOT_WATER"
FAULT == "FAULT"
HeatMode == {CENTRAL_HEATING, DOMESTIC_HOT_WATER}
Mode == HeatMode \cup {IDLE, IGNITION, FAULT}

Switch == {"automatic", "dhw_demand", "fault", "manual_ch", "manual_dhw", "manual_flame"}

VARIABLES
  boiler,          \* State, pending_mode_ and ignition_elapsed_s_
  master,          \* what parse_request_ keeps of the master's requests
  ui,              \* the switches
  ignition_delay,  \* ignition_delay_s; 0 lights at once
  gap,             \* time since the last update
  silence,         \* history: true age of the last status
  demand           \* history: the heat the automatic steps wanted last, since when,
                   \* and whether the last step was one by hand

vars == <<boiler, master, ui, ignition_delay, gap, silence, demand>>

Lesser(a, b) == IF a < b THEN a ELSE b

------------------------------------------------------------------------------
(* The boiler.                                                             *)

ColdBoiler == [mode |-> IDLE, ch |-> FALSE, dhw |-> FALSE, flame |-> FALSE,
               pending |-> IDLE, elapsed |-> 0]

\* elapsed and pending are not read once a mode with a flame is reached.
set_mode(b, mode) ==
  [mode |-> mode, ch |-> mode = CENTRAL_HEATING, dhw |-> mode = DOMESTIC_HOT_WATER,
   flame |-> mode \in HeatMode, pending |-> IDLE, elapsed |-> 0]

ignite_KeepsTime(b, requested, dt) ==
  LET elapsed == (IF b.mode = IGNITION THEN b.elapsed ELSE 0) + dt
  IN  IF elapsed >= ignition_delay THEN set_mode(b, requested)
      ELSE [ColdBoiler EXCEPT !.mode = IGNITION, !.pending = requested,
                              !.elapsed = elapsed]

ignite_StartsOver(b, requested, dt) ==
  IF dt >= ignition_delay THEN set_mode(b, requested)
  ELSE [ColdBoiler EXCEPT !.mode = IGNITION, !.pending = requested, !.elapsed = dt]

ignite(b, requested, dt) ==
  LET continues == b.mode = IGNITION /\ b.pending = requested
      elapsed == (IF continues THEN b.elapsed ELSE 0) + dt
  IN  IF elapsed >= ignition_delay THEN set_mode(b, requested)
      ELSE [ColdBoiler EXCEPT !.mode = IGNITION, !.pending = requested,
                              !.elapsed = elapsed]

update_automatic_mode(b, requested, dt) ==
  IF requested = IDLE \/ b.mode = requested \/ b.mode \in HeatMode
  THEN set_mode(b, requested)
  ELSE ignite(b, requested, dt)

manual_mode(b) ==
  [ColdBoiler EXCEPT
     !.mode = IF ui["manual_dhw"] THEN DOMESTIC_HOT_WATER
              ELSE IF ui["manual_ch"] THEN CENTRAL_HEATING ELSE IDLE,
     !.ch = ui["manual_ch"], !.dhw = ui["manual_dhw"], !.flame = ui["manual_flame"]]

status_valid_Forever == master.seen

status_valid == master.seen /\ master.age <= MASTER_STATUS_TIMEOUT

requested_mode ==
  IF status_valid /\ master.dhw_enable /\ ui["dhw_demand"] THEN DOMESTIC_HOT_WATER
  ELSE IF status_valid /\ master.ch_enable /\ master.t_set THEN CENTRAL_HEATING
  ELSE IDLE

Automatic == ui["automatic"] /\ ~ui["fault"]
ByHand == ~ui["automatic"] /\ ~ui["fault"]

step(b, dt) ==
  IF ui["fault"] THEN set_mode(b, FAULT)
  ELSE IF ~ui["automatic"] THEN manual_mode(b)
  ELSE update_automatic_mode(b, requested_mode, dt)

------------------------------------------------------------------------------
(* Actions.                                                                *)

Wanted == IF Automatic THEN requested_mode ELSE IDLE

update ==
  /\ LET dt == Lesser(gap, MAX_STEP)
     IN  /\ boiler' = step(boiler, dt)
         /\ demand' = [mode |-> Wanted,
                       time |-> IF Wanted = IDLE THEN 0
                                ELSE Lesser(MAX_IGNITION_DELAY,
                                            dt + (IF demand.mode = Wanted
                                                  THEN demand.time ELSE 0)),
                       by_hand |-> ByHand]
  /\ gap' = 0
  /\ UNCHANGED <<master, ui, ignition_delay, silence>>

Tick ==
  /\ gap < MaxGap
  /\ gap' = gap + 1
  /\ master' = IF master.seen THEN [master EXCEPT !.age = (@ + 1) % CLOCK_WRAP] ELSE master
  /\ silence' = IF ~master.seen THEN silence
                ELSE IF silence + 1 = 2 * CLOCK_WRAP THEN CLOCK_WRAP ELSE silence + 1
  /\ UNCHANGED <<boiler, ui, ignition_delay, demand>>

ReceiveStatus(ch, dhw) ==
  /\ master' = [master EXCEPT !.seen = TRUE, !.age = 0, !.ch_enable = ch,
                              !.dhw_enable = dhw]
  /\ silence' = 0
  /\ UNCHANGED <<boiler, ui, ignition_delay, gap, demand>>

\* TSet: all that counts is whether it reaches the minimum setpoint.
ReceiveTSet(reaches) ==
  /\ master' = [master EXCEPT !.t_set = reaches]
  /\ UNCHANGED <<boiler, ui, ignition_delay, gap, silence, demand>>

set_switch(switch, on) ==
  /\ ui' = [ui EXCEPT ![switch] = on]
  /\ UNCHANGED <<boiler, master, ignition_delay, gap, silence, demand>>

\* Also in the middle of an ignition.
set_ignition_delay(delay) ==
  /\ ignition_delay' = delay
  /\ UNCHANGED <<boiler, master, ui, gap, silence, demand>>

reset_model ==
  /\ boiler' = ColdBoiler
  /\ gap' = 0
  /\ demand' = [mode |-> IDLE, time |-> 0, by_hand |-> FALSE]
  /\ UNCHANGED <<master, ui, ignition_delay, silence>>

------------------------------------------------------------------------------

Init ==
  /\ boiler = ColdBoiler
  /\ master = [seen |-> FALSE, age |-> 0, ch_enable |-> FALSE, dhw_enable |-> FALSE,
               t_set |-> FALSE]
  /\ ui = [w \in Switch |-> w = "automatic"]
  /\ ignition_delay \in 0 .. MAX_IGNITION_DELAY
  /\ gap = 0
  /\ silence = 0
  /\ demand = [mode |-> IDLE, time |-> 0, by_hand |-> FALSE]

Next ==
  \/ update
  \/ Tick
  \/ \E ch \in BOOLEAN, dhw \in BOOLEAN : ReceiveStatus(ch, dhw)
  \/ \E reaches \in BOOLEAN : ReceiveTSet(reaches)
  \/ \E switch \in Switch, on \in BOOLEAN : set_switch(switch, on)
  \/ \E delay \in 0 .. MAX_IGNITION_DELAY : set_ignition_delay(delay)
  \/ reset_model

Spec == Init /\ [][Next]_vars

------------------------------------------------------------------------------
(* Properties.                                                             *)

TypeOK ==
  /\ boiler \in [mode : Mode, ch : BOOLEAN, dhw : BOOLEAN, flame : BOOLEAN,
                 pending : HeatMode \cup {IDLE}, elapsed : 0 .. MAX_IGNITION_DELAY - 1]
  /\ master \in [seen : BOOLEAN, age : 0 .. CLOCK_WRAP - 1, ch_enable : BOOLEAN,
                 dhw_enable : BOOLEAN, t_set : BOOLEAN]
  /\ ui \in [Switch -> BOOLEAN]
  /\ ignition_delay \in 0 .. MAX_IGNITION_DELAY
  /\ gap \in 0 .. MaxGap
  /\ silence \in 0 .. 2 * CLOCK_WRAP - 1
  /\ demand \in [mode : HeatMode \cup {IDLE}, time : 0 .. MAX_IGNITION_DELAY,
                 by_hand : BOOLEAN]

Fresh == silence <= MASTER_STATUS_TIMEOUT

\* The clock went round since the status came, and is where a fresh status
\* would have it.
JustRound == silence - CLOCK_WRAP \in 0 .. MASTER_STATUS_TIMEOUT

\* "stops on stale demand": an automatic step leaves a flame only on a status of
\* the master, and on one older than the timeout only within that timeout of the
\* clock going round, when the difference of the clock values is small again.
StaleOnlyAtClockTurn ==
  [][/\ update /\ Automatic /\ boiler'.flame
     => master.seen /\ (Fresh \/ JustRound)]_vars

Lights == update /\ Automatic /\ boiler'.flame /\ ~boiler.flame

\* Heating or hot water chosen by hand in the last step.
HeatByHand == demand.by_hand /\ boiler.mode \in HeatMode

\* An interrupted ignition starts over: a flame is lit after the same heat was
\* wanted, in automatic mode and without a fault, for as long as ignition takes.
\* The one exception is a boiler taken out of manual mode while heating or hot
\* water was on by hand.
IgnitionTakesTime ==
  [][Lights => demand'.time >= ignition_delay \/ HeatByHand]_vars

\* An ignition that goes on does not start over: once the same heat was wanted
\* for as long as ignition takes, the flame is on, also when the delay was made
\* shorter in the meantime.
IgnitionGoesOn ==
  [][/\ update /\ Wanted # IDLE /\ demand'.time >= ignition_delay
     => boiler'.flame /\ boiler'.mode = Wanted]_vars

\* A boiler that burns changes between heating and hot water, and the master's
\* setpoint or status comes in, without the flame going out in between.
BurningSwitches ==
  [][/\ update /\ Automatic /\ boiler.flame /\ boiler.mode \in HeatMode
     /\ Wanted # IDLE
     => boiler'.flame /\ boiler'.mode = Wanted]_vars

\* The comment on the change between heating and hot water: it is a burning
\* boiler that does without a new ignition.
OnlyBurningSkipsIgnition == [][Lights => demand'.time >= ignition_delay]_vars
==============================================================================
