------------------------- MODULE BoilerSimulator_proofs -------------------------
(***************************************************************************)
(* The boiler's types, and what its flame promises, for every ignition     *)
(* delay and its changes, every timeout and every clock.                   *)
(***************************************************************************)
EXTENDS BoilerSimulator, TLAPS

\* The age the code computes is the true one until the clock has gone round, and
\* from then on how far the clock is in its turn.
AgeInv ==
  master.seen =>
    master.age = IF silence < CLOCK_WRAP THEN silence ELSE silence - CLOCK_WRAP

\* An ignition is for the heat wanted last and as long as that was wanted; a heat
\* that was wanted last is on or ignites; and heat without a flame is by hand.
IgnitionInv ==
  /\ boiler.mode = IGNITION =>
       /\ boiler.pending = demand.mode
       /\ boiler.elapsed = demand.time
  /\ demand.mode # IDLE => boiler.mode \in HeatMode \cup {IGNITION}
  /\ boiler.mode \in HeatMode /\ ~boiler.flame => demand.by_hand

BInv == TypeOK /\ AgeInv /\ IgnitionInv

USE DEF IDLE, IGNITION, CENTRAL_HEATING, DOMESTIC_HOT_WATER, FAULT, HeatMode, Mode

Boiler == [mode : Mode, ch : BOOLEAN, dhw : BOOLEAN, flame : BOOLEAN,
           pending : HeatMode \cup {IDLE}, elapsed : 0 .. MAX_IGNITION_DELAY - 1]

Demand == [mode : HeatMode \cup {IDLE}, time : 0 .. MAX_IGNITION_DELAY, by_hand : BOOLEAN]

\* The ignition time for m that is already over.
Spent(b, m) == IF b.mode = IGNITION /\ b.pending = m THEN b.elapsed ELSE 0

\* The modes the constructors leave, and when they leave a flame.
LEMMA SetModeType ==
  ASSUME NEW b, NEW m \in Mode \ {IGNITION}
  PROVE  /\ set_mode(b, m) \in Boiler
         /\ set_mode(b, m).mode = m
         /\ set_mode(b, m).flame <=> m \in HeatMode
<1>1. 0 \in 0 .. MAX_IGNITION_DELAY - 1
  BY BoilerAssumption
<1>2. /\ (m = CENTRAL_HEATING) \in BOOLEAN
      /\ (m = DOMESTIC_HOT_WATER) \in BOOLEAN
      /\ (m \in HeatMode) \in BOOLEAN
  OBVIOUS
<1>3. set_mode(b, m) \in Boiler
  BY <1>1, <1>2 DEF set_mode, Boiler
<1>4. set_mode(b, m).mode = m
  BY DEF set_mode
<1>5. set_mode(b, m).flame <=> m \in HeatMode
  BY Zenon DEF set_mode
<1> QED
  BY <1>3, <1>4, <1>5, Zenon

LEMMA ColdType == ColdBoiler \in Boiler
BY BoilerAssumption DEF ColdBoiler, Boiler

\* Manual mode never leaves an ignition behind.
LEMMA ManualType ==
  ASSUME TypeOK, NEW b
  PROVE  manual_mode(b) \in Boiler /\ manual_mode(b).mode # IGNITION
<1> DEFINE m == IF ui["manual_dhw"] THEN DOMESTIC_HOT_WATER
                ELSE IF ui["manual_ch"] THEN CENTRAL_HEATING ELSE IDLE
<1>1. m \in Mode /\ m # IGNITION
  OBVIOUS
<1>2. /\ ui["manual_ch"] \in BOOLEAN /\ ui["manual_dhw"] \in BOOLEAN
      /\ ui["manual_flame"] \in BOOLEAN
  BY DEF TypeOK, Switch
<1>3. manual_mode(b) = [ColdBoiler EXCEPT !.mode = m, !.ch = ui["manual_ch"],
                          !.dhw = ui["manual_dhw"], !.flame = ui["manual_flame"]]
  BY DEF manual_mode
<1> HIDE DEF m
<1>4. manual_mode(b) \in Boiler
  BY <1>1, <1>2, <1>3, ColdType DEF Boiler
<1>5. manual_mode(b).mode = m
  BY <1>3, ColdType DEF Boiler
<1> QED
  BY <1>1, <1>4, <1>5

\* An ignition step either goes on or lights the flame for the heat it is for.
LEMMA IgniteType ==
  ASSUME TypeOK, NEW b \in Boiler, NEW m \in HeatMode, NEW dt \in Nat
  PROVE  /\ ignite(b, m, dt) \in Boiler
         /\ ignite(b, m, dt).mode \in {m, IGNITION}
         /\ ignite(b, m, dt).mode = IGNITION =>
              /\ ignite(b, m, dt).pending = m
              /\ ~ignite(b, m, dt).flame
              /\ ignite(b, m, dt).elapsed = Spent(b, m) + dt
              /\ Spent(b, m) + dt < ignition_delay
         /\ ignite(b, m, dt).mode # IGNITION =>
              /\ ignite(b, m, dt).mode = m
              /\ ignite(b, m, dt).flame
              /\ Spent(b, m) + dt >= ignition_delay
<1> DEFINE elapsed == Spent(b, m) + dt
           going == [ColdBoiler EXCEPT !.mode = IGNITION, !.pending = m, !.elapsed = elapsed]
<1>1. elapsed \in Nat /\ ignition_delay \in 0 .. MAX_IGNITION_DELAY
  BY BoilerAssumption DEF TypeOK, Boiler, Spent
<1>2. ignite(b, m, dt) = IF elapsed >= ignition_delay THEN set_mode(b, m) ELSE going
  BY DEF ignite, Spent
<1> HIDE DEF elapsed
<1>3. ColdBoiler \in Boiler
  BY ColdType
<1>4. ColdBoiler.flame = FALSE
  BY Zenon DEF ColdBoiler
<1>5. /\ going.mode = IGNITION
      /\ going.pending = m
      /\ going.elapsed = elapsed
  BY <1>3 DEF Boiler
<1>6. going.flame = ColdBoiler.flame
  BY <1>3 DEF Boiler
<1>7. elapsed \in 0 .. MAX_IGNITION_DELAY - 1 => going \in Boiler
  BY <1>3 DEF Boiler
<1> HIDE DEF going
<1>8. CASE elapsed >= ignition_delay
  <2>1. /\ set_mode(b, m) \in Boiler
        /\ set_mode(b, m).mode = m
        /\ set_mode(b, m).flame <=> m \in HeatMode
    BY SetModeType
  <2>2. set_mode(b, m).flame \in BOOLEAN
    BY <2>1 DEF Boiler
  <2> QED
    BY <1>2, <1>8, <2>1, <2>2 DEF elapsed
<1>9. CASE ~(elapsed >= ignition_delay)
  <2>1. elapsed \in 0 .. MAX_IGNITION_DELAY - 1
    BY <1>1, <1>9, BoilerAssumption
  <2>2. elapsed < ignition_delay
    BY <1>1, <1>9
  <2> QED
    BY <1>2, <1>4, <1>5, <1>6, <1>7, <1>9, <2>1, <2>2 DEF elapsed
<1> QED
  BY <1>8, <1>9

\* What an automatic step leaves, case by case.
LEMMA AutomaticType ==
  ASSUME TypeOK, NEW b \in Boiler, NEW m \in HeatMode \cup {IDLE}, NEW dt \in Nat,
         NEW b2, b2 = update_automatic_mode(b, m, dt)
  PROVE  /\ b2 \in Boiler
         /\ b2.flame => b2.mode = m /\ m \in HeatMode
         /\ b2.mode = IGNITION =>
              /\ b2.pending = m /\ m \in HeatMode
              /\ b2.elapsed = Spent(b, m) + dt
              /\ b.mode \notin HeatMode /\ Spent(b, m) + dt < ignition_delay
         /\ m # IDLE => b2.mode \in {m, IGNITION}
         /\ b2.mode \in HeatMode => b2.flame
         /\ b2.flame /\ b.mode \notin HeatMode => Spent(b, m) + dt >= ignition_delay
         /\ b.mode \in HeatMode /\ m # IDLE => b2.flame /\ b2.mode = m
<1>1. CASE m = IDLE \/ b.mode = m \/ b.mode \in HeatMode
  <2>1. update_automatic_mode(b, m, dt) = set_mode(b, m)
    BY <1>1 DEF update_automatic_mode
  <2> QED
    BY <1>1, <2>1, SetModeType
<1>2. CASE ~(m = IDLE \/ b.mode = m \/ b.mode \in HeatMode)
  <2> DEFINE i == ignite(b, m, dt)
  <2>1. update_automatic_mode(b, m, dt) = i
    BY <1>2 DEF update_automatic_mode
  <2>2. m \in HeatMode
    BY <1>2
  <2>3. /\ i \in Boiler
        /\ i.mode \in {m, IGNITION}
        /\ i.mode = IGNITION => /\ i.pending = m
                               /\ ~i.flame
                               /\ i.elapsed = Spent(b, m) + dt
                               /\ Spent(b, m) + dt < ignition_delay
        /\ i.mode # IGNITION => /\ i.mode = m
                               /\ i.flame
                               /\ Spent(b, m) + dt >= ignition_delay
    BY <2>2, IgniteType
  <2> HIDE DEF i
  <2> QED
    BY <1>2, <2>1, <2>2, <2>3
<1> QED
  BY <1>1, <1>2

------------------------------------------------------------------------------
(* The invariant.                                                          *)

LEMMA InitEstablishes == Init => BInv
<1> SUFFICES ASSUME Init PROVE BInv
  OBVIOUS
<1>1. TypeOK
  BY BoilerAssumption DEF Init, TypeOK, ColdBoiler, Switch
<1>2. AgeInv
  BY DEF Init, AgeInv
<1>3. IgnitionInv
  BY DEF Init, IgnitionInv, ColdBoiler
<1> QED
  BY <1>1, <1>2, <1>3 DEF BInv

\* The heat a step wants, and the time it is given.
LEMMA StepInputs ==
  ASSUME TypeOK
  PROVE  /\ Lesser(gap, MAX_STEP) \in Nat
         /\ requested_mode \in HeatMode \cup {IDLE}
         /\ Wanted \in HeatMode \cup {IDLE}
         /\ Automatic => Wanted = requested_mode
BY BoilerAssumption DEF TypeOK, Lesser, requested_mode, Wanted

\* What update() leaves of the boiler: manual mode and a fault leave no
\* ignition, automatic mode one that is for the heat wanted.
LEMMA UpdateBoiler ==
  ASSUME BInv, update
  PROVE  /\ boiler' \in Boiler
         /\ demand' \in Demand
         /\ IgnitionInv'
<1> DEFINE dt == Lesser(gap, MAX_STEP)
           time == IF Wanted = IDLE THEN 0
                   ELSE Lesser(MAX_IGNITION_DELAY,
                               dt + (IF demand.mode = Wanted THEN demand.time ELSE 0))
<1>1. TypeOK /\ IgnitionInv
  BY DEF BInv
<1>2. /\ dt \in Nat /\ Wanted \in HeatMode \cup {IDLE}
      /\ Automatic => Wanted = requested_mode
  BY <1>1, StepInputs
<1>3. boiler \in Boiler /\ demand \in Demand
  BY <1>1 DEF TypeOK, Boiler, Demand
<1>4. /\ boiler' = step(boiler, dt)
      /\ demand' = [mode |-> Wanted, time |-> time, by_hand |-> ByHand]
  BY DEF update
<1>5. time \in 0 .. MAX_IGNITION_DELAY
  BY <1>2, <1>3, BoilerAssumption DEF Lesser, Demand
<1>6. demand'.mode = Wanted /\ demand'.time = time /\ demand'.by_hand = ByHand
  BY <1>4
<1>7. ByHand \in BOOLEAN /\ demand' \in Demand
  <2>1. ByHand \in BOOLEAN
    BY DEF ByHand
  <2> QED
    BY <1>2, <1>4, <1>5, <2>1 DEF Demand
<1> HIDE DEF dt
<1>8. CASE ui["fault"]
  <2>1. boiler' = set_mode(boiler, FAULT)
    BY <1>4, <1>8 DEF step
  <2>2. boiler' \in Boiler /\ boiler'.mode = FAULT
    BY <2>1, SetModeType
  <2>3. demand'.mode = IDLE
    BY <1>6, <1>8 DEF Wanted, Automatic
  <2> QED
    BY <1>7, <2>2, <2>3 DEF IgnitionInv
<1>9. CASE ~ui["fault"] /\ ~ui["automatic"]
  <2>1. boiler' = manual_mode(boiler)
    BY <1>4, <1>9 DEF step
  <2>2. boiler' \in Boiler /\ boiler'.mode # IGNITION
    BY <1>1, <2>1, ManualType
  <2>3. demand'.mode = IDLE /\ demand'.by_hand
    BY <1>6, <1>9 DEF Wanted, Automatic, ByHand
  <2> QED
    BY <1>7, <2>2, <2>3 DEF IgnitionInv
<1>10. CASE Automatic
  <2> DEFINE b2 == boiler'
             m == Wanted
  <2>1. b2 = update_automatic_mode(boiler, m, dt)
    BY <1>2, <1>4, <1>10 DEF step, Automatic
  <2>2. m \in HeatMode \cup {IDLE} /\ dt \in Nat
    BY <1>2
  <2> HIDE DEF b2, m
  <2>3. /\ b2 \in Boiler
        /\ b2.flame => b2.mode = m /\ m \in HeatMode
        /\ b2.mode = IGNITION =>
             /\ b2.pending = m /\ m \in HeatMode
             /\ b2.elapsed = Spent(boiler, m) + dt
             /\ boiler.mode \notin HeatMode /\ Spent(boiler, m) + dt < ignition_delay
        /\ m # IDLE => b2.mode \in {m, IGNITION}
        /\ b2.mode \in HeatMode => b2.flame
    BY <1>1, <1>3, <2>1, <2>2, AutomaticType
  <2>4. b2.mode = IGNITION => b2.elapsed = time
    <3> SUFFICES ASSUME b2.mode = IGNITION PROVE b2.elapsed = time
      OBVIOUS
    <3> DEFINE before == IF demand.mode = m THEN demand.time ELSE 0
    <3>1. m \in HeatMode /\ Spent(boiler, m) = before
      <4>1. m \in HeatMode /\ boiler.mode \notin HeatMode
        BY <2>3
      <4>2. CASE demand.mode = m
        BY <1>1, <4>1, <4>2 DEF IgnitionInv, Spent
      <4>3. CASE demand.mode # m
        BY <1>1, <4>1, <4>3 DEF IgnitionInv, Spent
      <4> QED
        BY <4>1, <4>2, <4>3
    <3>2. b2.elapsed = before + dt /\ before + dt < ignition_delay
      BY <2>3, <3>1
    <3>3. before \in Nat /\ ignition_delay \in 0 .. MAX_IGNITION_DELAY
      BY <1>1, <1>3, BoilerAssumption DEF TypeOK, Demand
    <3>4. time = Lesser(MAX_IGNITION_DELAY, dt + before)
      BY <3>1 DEF m
    <3> HIDE DEF before
    <3> QED
      BY <2>2, <3>2, <3>3, <3>4, BoilerAssumption DEF Lesser
  <2>5. IgnitionInv'
    <3>1. boiler'.mode = IGNITION => boiler'.pending = demand'.mode
      BY <1>6, <2>3 DEF b2, m
    <3>2. boiler'.mode = IGNITION => boiler'.elapsed = demand'.time
      BY <1>6, <2>4 DEF b2
    <3>3. demand'.mode # IDLE => boiler'.mode \in HeatMode \cup {IGNITION}
      BY <1>6, <2>2, <2>3 DEF b2, m
    <3>4. boiler'.mode \in HeatMode => boiler'.flame
      BY <2>3 DEF b2
    <3> QED
      BY <3>1, <3>2, <3>3, <3>4 DEF IgnitionInv
  <2> QED
    BY <1>7, <2>3, <2>5 DEF b2
<1> QED
  BY <1>8, <1>9, <1>10 DEF Automatic

\* Time passes: the computed age follows the true one through the clock's turns.
LEMMA TickKeepsAge == BInv /\ Tick => AgeInv' /\ TypeOK'
<1> SUFFICES ASSUME BInv, Tick PROVE AgeInv' /\ TypeOK'
  OBVIOUS
<1> DEFINE aged == (master.age + 1) % CLOCK_WRAP
<1>1. TypeOK /\ AgeInv
  BY DEF BInv
<1>2. /\ master.age \in 0 .. CLOCK_WRAP - 1 /\ silence \in 0 .. 2 * CLOCK_WRAP - 1
      /\ CLOCK_WRAP \in Nat \ {0}
  BY <1>1, BoilerAssumption DEF TypeOK
<1>3. aged \in 0 .. CLOCK_WRAP - 1
  BY <1>2
<1>4. aged = IF master.age + 1 = CLOCK_WRAP THEN 0 ELSE master.age + 1
  BY <1>2
<1>5. gap' \in 0 .. MaxGap
  BY <1>1, BoilerAssumption DEF Tick, TypeOK
<1> HIDE DEF aged
<1>6. CASE master.seen
  <2>1. /\ master' = [master EXCEPT !.age = aged]
        /\ silence' = IF silence + 1 = 2 * CLOCK_WRAP THEN CLOCK_WRAP ELSE silence + 1
    BY <1>6 DEF Tick, aged
  <2>2. /\ master' \in [seen : BOOLEAN, age : 0 .. CLOCK_WRAP - 1, ch_enable : BOOLEAN,
                        dhw_enable : BOOLEAN, t_set : BOOLEAN]
        /\ master'.age = aged /\ master'.seen = master.seen
    BY <1>1, <1>3, <2>1 DEF TypeOK
  <2>3. silence' \in 0 .. 2 * CLOCK_WRAP - 1
    BY <1>2, <2>1
  <2>4. master.age = IF silence < CLOCK_WRAP THEN silence ELSE silence - CLOCK_WRAP
    BY <1>1, <1>6 DEF AgeInv
  <2>5. master'.age = IF silence' < CLOCK_WRAP THEN silence' ELSE silence' - CLOCK_WRAP
    BY <1>2, <1>4, <2>1, <2>2, <2>4
  <2> QED
    BY <1>1, <1>5, <2>2, <2>3, <2>5 DEF AgeInv, TypeOK, Tick
<1>7. CASE ~master.seen
  <2>1. master' = master /\ silence' = silence
    BY <1>7 DEF Tick
  <2> QED
    BY <1>1, <1>5, <1>7, <2>1 DEF AgeInv, TypeOK, Tick
<1> QED
  BY <1>6, <1>7

LEMMA NextPreserves == BInv /\ [Next]_vars => BInv'
<1> SUFFICES ASSUME BInv, [Next]_vars PROVE BInv'
  OBVIOUS
<1>0. TypeOK /\ AgeInv /\ IgnitionInv
  BY DEF BInv
<1>1. CASE update
  <2>1. /\ boiler' \in Boiler /\ IgnitionInv'
        /\ demand' \in Demand
    BY <1>1, UpdateBoiler
  <2>2. gap' \in 0 .. MaxGap /\ UNCHANGED <<master, ui, ignition_delay, silence>>
    BY <1>1, BoilerAssumption DEF update
  <2>3. TypeOK'
    BY <1>0, <2>1, <2>2 DEF TypeOK, Boiler, Demand
  <2> QED
    BY <1>0, <2>1, <2>2, <2>3 DEF BInv, AgeInv
<1>2. CASE Tick
  <2>1. IgnitionInv'
    BY <1>0, <1>2 DEF Tick, IgnitionInv
  <2> QED
    BY <1>2, <2>1, TickKeepsAge DEF BInv
<1>3. ASSUME NEW ch \in BOOLEAN, NEW dhw \in BOOLEAN, ReceiveStatus(ch, dhw)
      PROVE  BInv'
  <2>0. /\ 0 \in 0 .. CLOCK_WRAP - 1 /\ 0 \in 0 .. 2 * CLOCK_WRAP - 1
    BY BoilerAssumption
  <2>1. TypeOK'
    <3>1. master' \in [seen : BOOLEAN, age : 0 .. CLOCK_WRAP - 1, ch_enable : BOOLEAN,
                      dhw_enable : BOOLEAN, t_set : BOOLEAN]
      BY <1>0, <1>3, <2>0 DEF ReceiveStatus, TypeOK
    <3> QED
      BY <1>0, <1>3, <2>0, <3>1 DEF ReceiveStatus, TypeOK
  <2>2. AgeInv'
    <3>1. master'.age = 0 /\ silence' = 0
      BY <1>0, <1>3 DEF ReceiveStatus, TypeOK
    <3> QED
      BY <3>1, BoilerAssumption DEF AgeInv
  <2> QED
    BY <1>0, <1>3, <2>1, <2>2 DEF BInv, ReceiveStatus, IgnitionInv
<1>4. ASSUME NEW reaches \in BOOLEAN, ReceiveTSet(reaches)
      PROVE  BInv'
  BY <1>0, <1>4 DEF BInv, ReceiveTSet, TypeOK, AgeInv, IgnitionInv
<1>5. ASSUME NEW switch \in Switch, NEW on \in BOOLEAN, set_switch(switch, on)
      PROVE  BInv'
  BY <1>0, <1>5 DEF BInv, set_switch, TypeOK, AgeInv, IgnitionInv
<1>6. CASE reset_model
  <2>1. boiler' \in Boiler /\ boiler'.mode = IDLE /\ demand'.mode = IDLE
    BY <1>6, ColdType DEF reset_model, ColdBoiler
  <2>2. TypeOK'
    BY <1>0, <1>6, <2>1, BoilerAssumption DEF reset_model, TypeOK, Boiler
  <2> QED
    BY <1>0, <1>6, <2>1, <2>2 DEF BInv, reset_model, AgeInv, IgnitionInv
<1>7. ASSUME NEW delay \in 0 .. MAX_IGNITION_DELAY, set_ignition_delay(delay)
      PROVE  BInv'
  BY <1>0, <1>7 DEF BInv, set_ignition_delay, TypeOK, AgeInv, IgnitionInv
<1>8. CASE UNCHANGED vars
  BY <1>0, <1>8 DEF vars, BInv, TypeOK, AgeInv, IgnitionInv
<1> QED
  BY <1>1, <1>2, <1>3, <1>4, <1>5, <1>6, <1>7, <1>8 DEF Next

\* The invariant behind all that follows, for every constant.
LEMMA InductiveInvariant == Spec => []BInv
BY InitEstablishes, NextPreserves, PTL DEF Spec

\* The boiler is always in a mode, with the outputs and the ignition time of it.
THEOREM TypeCorrect == Spec => []TypeOK
<1>1. BInv => TypeOK
  BY DEF BInv
<1> QED
  BY <1>1, InductiveInvariant, PTL

------------------------------------------------------------------------------
(* What an automatic step does.                                            *)

LEMMA AutomaticUpdate ==
  ASSUME BInv, update, Automatic
  PROVE  /\ boiler'.flame => boiler'.mode = Wanted /\ Wanted \in HeatMode
         /\ boiler'.flame /\ boiler.mode \notin HeatMode =>
              Spent(boiler, Wanted) + Lesser(gap, MAX_STEP) >= ignition_delay
         /\ boiler.mode \in HeatMode /\ Wanted # IDLE =>
              boiler'.flame /\ boiler'.mode = Wanted
         /\ Wanted # IDLE => \/ boiler'.flame /\ boiler'.mode = Wanted
                            \/ boiler'.mode = IGNITION
<1> DEFINE dt == Lesser(gap, MAX_STEP)
           b2 == boiler'
           m == Wanted
<1>1. TypeOK /\ boiler \in Boiler
  BY DEF BInv, TypeOK, Boiler
<1>2. /\ dt \in Nat /\ m \in HeatMode \cup {IDLE} /\ m = requested_mode
  BY <1>1, StepInputs
<1>3. b2 = update_automatic_mode(boiler, m, dt)
  BY <1>2 DEF update, step, Automatic
<1> HIDE DEF dt, b2, m
<1>4. b2.flame => b2.mode = m /\ m \in HeatMode
  BY <1>1, <1>2, <1>3, AutomaticType
<1>5. b2.flame /\ boiler.mode \notin HeatMode => Spent(boiler, m) + dt >= ignition_delay
  BY <1>1, <1>2, <1>3, AutomaticType
<1>6. boiler.mode \in HeatMode /\ m # IDLE => b2.flame /\ b2.mode = m
  BY <1>1, <1>2, <1>3, AutomaticType
<1>7. m # IDLE => (b2.flame /\ b2.mode = m) \/ b2.mode = IGNITION
  BY <1>1, <1>2, <1>3, AutomaticType
<1> QED
  BY <1>4, <1>5, <1>6, <1>7 DEF dt, b2, m

\* No automatic step leaves a flame without a status, nor on one older than the
\* timeout, but within the timeout of the clock going round.
THEOREM FlameStaleOnlyAtClockTurn == Spec => StaleOnlyAtClockTurn
<1>1. BInv /\ [Next]_vars =>
        [update /\ Automatic /\ boiler'.flame => master.seen /\ (Fresh \/ JustRound)]_vars
  <2> SUFFICES ASSUME BInv, update, Automatic, boiler'.flame
               PROVE  master.seen /\ (Fresh \/ JustRound)
    OBVIOUS
  <2>1. requested_mode \in HeatMode
    BY AutomaticUpdate DEF Wanted
  <2>2. status_valid
    BY <2>1 DEF requested_mode
  <2>3. silence \in 0 .. 2 * CLOCK_WRAP - 1
    BY DEF BInv, TypeOK
  <2>4. master.age = IF silence < CLOCK_WRAP THEN silence ELSE silence - CLOCK_WRAP
    BY <2>2 DEF status_valid, BInv, AgeInv
  <2> QED
    BY <2>2, <2>3, <2>4, BoilerAssumption DEF status_valid, Fresh, JustRound
<1> QED
  BY <1>1, InductiveInvariant, PTL DEF Spec, StaleOnlyAtClockTurn

\* No flame is lit before the same heat was wanted for a whole ignition, unless
\* heat was on by hand in the step before.
THEOREM IgnitionIsWhole == Spec => IgnitionTakesTime
<1>1. BInv /\ [Next]_vars =>
        [Lights => demand'.time >= ignition_delay \/ HeatByHand]_vars
  <2> SUFFICES ASSUME BInv, Lights, ~HeatByHand
               PROVE  demand'.time >= ignition_delay
    OBVIOUS
  <2> DEFINE dt == Lesser(gap, MAX_STEP)
             before == IF demand.mode = Wanted THEN demand.time ELSE 0
  <2>1. update /\ Automatic /\ boiler'.flame /\ ~boiler.flame
    BY DEF Lights
  <2>2. TypeOK /\ IgnitionInv
    BY DEF BInv
  <2>3. boiler.mode \notin HeatMode
    BY <2>1, <2>2 DEF HeatByHand, IgnitionInv
  <2>4. Wanted \in HeatMode /\ Spent(boiler, Wanted) + dt >= ignition_delay
    BY <2>1, <2>3, AutomaticUpdate
  <2>5. /\ demand.time \in 0 .. MAX_IGNITION_DELAY
        /\ boiler.elapsed \in 0 .. MAX_IGNITION_DELAY - 1
        /\ ignition_delay \in 0 .. MAX_IGNITION_DELAY
    BY <2>2 DEF TypeOK
  <2>6. Spent(boiler, Wanted) <= before
    BY <2>2, <2>5 DEF Spent, IgnitionInv
  <2>7. before \in Nat /\ Spent(boiler, Wanted) \in Nat /\ dt \in Nat
    BY <2>2, <2>5, StepInputs, BoilerAssumption DEF Spent
  <2>8. demand'.time = Lesser(MAX_IGNITION_DELAY, dt + before)
    BY <2>1, <2>4 DEF update
  <2> HIDE DEF before, dt
  <2> QED
    BY <2>4, <2>5, <2>6, <2>7, <2>8, BoilerAssumption DEF Lesser
<1> QED
  BY <1>1, InductiveInvariant, PTL DEF Spec, IgnitionTakesTime

\* Once the same heat was wanted for a whole ignition, the flame is on.
THEOREM IgnitionEnds == Spec => IgnitionGoesOn
<1>1. BInv /\ [Next]_vars =>
        [update /\ Wanted # IDLE /\ demand'.time >= ignition_delay
           => boiler'.flame /\ boiler'.mode = Wanted]_vars
  <2> SUFFICES ASSUME BInv, update, Wanted # IDLE, demand'.time >= ignition_delay
               PROVE  boiler'.flame /\ boiler'.mode = Wanted
    OBVIOUS
  <2>1. Automatic
    BY DEF Wanted
  <2>2. SUFFICES ASSUME boiler'.mode = IGNITION PROVE FALSE
    BY <2>1, AutomaticUpdate
  <2>3. TypeOK /\ IgnitionInv' /\ demand'.time \in 0 .. MAX_IGNITION_DELAY
    BY UpdateBoiler DEF BInv, Demand
  <2>4. boiler'.elapsed = demand'.time
    BY <2>2, <2>3 DEF IgnitionInv
  <2> DEFINE dt == Lesser(gap, MAX_STEP)
             b2 == boiler'
             m == Wanted
  <2>5. /\ dt \in Nat /\ m \in HeatMode \cup {IDLE} /\ m = requested_mode
        /\ boiler \in Boiler
    BY <2>1, <2>3, StepInputs DEF TypeOK, Boiler
  <2>6. b2 = update_automatic_mode(boiler, m, dt) /\ b2.mode = IGNITION
    BY <2>1, <2>2, <2>5 DEF update, step, Automatic
  <2>7. b2.elapsed = demand'.time
    BY <2>4
  <2> HIDE DEF dt, b2, m
  <2>8. b2.elapsed = Spent(boiler, m) + dt /\ Spent(boiler, m) + dt < ignition_delay
    BY <2>3, <2>5, <2>6, AutomaticType
  <2>9. ignition_delay \in Nat
    BY <2>3, BoilerAssumption DEF TypeOK
  <2> QED
    BY <2>3, <2>7, <2>8, <2>9, BoilerAssumption
<1> QED
  BY <1>1, InductiveInvariant, PTL DEF Spec, IgnitionGoesOn

\* A burning boiler goes from one heat to the other without going out.
THEOREM FlameSurvivesSwitch == Spec => BurningSwitches
<1>1. BInv /\ [Next]_vars =>
        [update /\ Automatic /\ boiler.flame /\ boiler.mode \in HeatMode /\ Wanted # IDLE
           => boiler'.flame /\ boiler'.mode = Wanted]_vars
  BY AutomaticUpdate
<1> QED
  BY <1>1, InductiveInvariant, PTL DEF Spec, BurningSwitches
==============================================================================
