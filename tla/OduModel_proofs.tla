----------------------------- MODULE OduModel_proofs -----------------------------
(***************************************************************************)
(* The outdoor unit keeps its types, its counters of forced defrosts and   *)
(* its deferred level, and a safety stop is final, for every profile and   *)
(* every length of an update.                                              *)
(*                                                                         *)
(* Odu bounds no counter but `started`: that the others stay within it is  *)
(* what their accounting adds.  The operations are proved one by one to    *)
(* keep OduOK and Final, which speak of one value of `odu`.                *)
(*                                                                         *)
(* The last part is about CommunicationLoss, the unit beside its watchdog: *)
(* it starts a compressor only while it is spoken to.                      *)
(***************************************************************************)
EXTENDS CommunicationLoss, CompressorRest, TLAPS

Odu ==
  [enabled : BOOLEAN,
   requested_mode : WorkingMode, active_mode : WorkingMode,
   requested_level : Level, accepted_level : 0 .. MAX_LEVEL,
   deferred_level : 0 .. MAX_LEVEL, deferred_pending : BOOLEAN,
   pump_request : BOOLEAN, flow_switch : BOOLEAN,
   defrost : BOOLEAN, forced_defrost : BOOLEAN,
   forced_remaining : 0 .. DEFROST_DURATION,
   started : 0 .. MaxCycles, completed : Nat, aborted : Nat,
   communication_fault : BOOLEAN, other_fault : BOOLEAN,
   table_valid : [RunningMode -> BOOLEAN],
   start_timer : 0 .. START_DELAY,
   running_timer : 0 .. MINIMUM_RUNTIME,
   stop_timer : 0 .. STOP_DELAY,
   measured : 0 .. MAX_LEVEL]

Counted(s) ==
  /\ s.started = s.completed + s.aborted + (IF s.forced_defrost THEN 1 ELSE 0)
  /\ s.forced_defrost <=> s.forced_remaining > 0

OduOK(s) ==
  /\ s \in Odu
  /\ Counted(s)
  /\ s.deferred_pending => defrost_active(s)

Final(s) == s.accepted_level = 0 /\ s.requested_level = 0 /\ ~s.deferred_pending

OduInv ==
  /\ OduOK(odu)
  /\ ui \in [AllSwitches -> BOOLEAN]
  /\ commanded \in BOOLEAN
  /\ ~commanded => Final(odu)

------------------------------------------------------------------------------
(* The deferred level and the forced defrost.                              *)

\* Where a defrost may just have ended, the deferred level is released.
LEMMA DeferredOK ==
  ASSUME NEW s \in Odu, Counted(s)
  PROVE  /\ OduOK(update_deferred_defrost_level(s))
         /\ Final(s) => Final(update_deferred_defrost_level(s))
<1> DEFINE t == [s EXCEPT !.accepted_level = s.deferred_level,
                          !.deferred_level = 0,
                          !.deferred_pending = FALSE]
<1>1. CASE defrost_active(s) \/ ~s.deferred_pending
  BY <1>1 DEF update_deferred_defrost_level, OduOK, Final
<1>2. CASE ~(defrost_active(s) \/ ~s.deferred_pending)
  <2>1. update_deferred_defrost_level(s) = t
    BY <1>2 DEF update_deferred_defrost_level
  <2>2. 0 \in 0 .. MAX_LEVEL /\ s.deferred_level \in 0 .. MAX_LEVEL
    BY OduAssumption DEF Odu
  <2>3. t \in Odu
    BY <2>2 DEF Odu
  <2>4. ~t.deferred_pending /\ t.started = s.started /\ t.completed = s.completed
        /\ t.aborted = s.aborted /\ t.forced_defrost = s.forced_defrost
        /\ t.forced_remaining = s.forced_remaining
    BY DEF Odu
  <2> HIDE DEF t
  <2>5. Counted(t)
    BY <2>4 DEF Counted
  <2>6. ~Final(s)
    BY <1>2 DEF Final
  <2> QED
    BY <2>1, <2>3, <2>4, <2>5, <2>6 DEF OduOK
<1> QED
  BY <1>1, <1>2

\* The end of a forced defrost, with one of its two counters.
LEMMA CycleEndsOK ==
  ASSUME NEW s, OduOK(s), s.forced_defrost, NEW t,
         \/ t = [s EXCEPT !.forced_defrost = FALSE, !.forced_remaining = 0, !.aborted = @ + 1]
         \/ t = [s EXCEPT !.forced_defrost = FALSE, !.forced_remaining = 0, !.completed = @ + 1]
  PROVE  t \in Odu /\ Counted(t) /\ (Final(s) => Final(t))
<1>1. s \in Odu /\ Counted(s)
  BY DEF OduOK
<1>2. s.aborted \in Nat /\ s.completed \in Nat /\ s.started \in Nat
  BY <1>1, OduAssumption DEF Odu
<1>3. 0 \in 0 .. DEFROST_DURATION
  BY OduAssumption
<1>4. /\ t \in Odu
      /\ ~t.forced_defrost /\ t.forced_remaining = 0 /\ t.started = s.started
      /\ t.accepted_level = s.accepted_level /\ t.requested_level = s.requested_level
      /\ t.deferred_pending = s.deferred_pending
      /\ \/ t.aborted = s.aborted + 1 /\ t.completed = s.completed
         \/ t.aborted = s.aborted /\ t.completed = s.completed + 1
  <2>1. CASE t = [s EXCEPT !.forced_defrost = FALSE, !.forced_remaining = 0, !.aborted = @ + 1]
    <3> DEFINE more == s.aborted + 1
    <3>1. t = [s EXCEPT !.forced_defrost = FALSE, !.forced_remaining = 0, !.aborted = more]
      BY <2>1
    <3>2. more \in Nat
      BY <1>2
    <3> HIDE DEF more
    <3>3. t \in Odu
      BY <1>1, <1>3, <3>1, <3>2 DEF Odu
    <3>4. /\ ~t.forced_defrost /\ t.forced_remaining = 0 /\ t.started = s.started
          /\ t.accepted_level = s.accepted_level /\ t.requested_level = s.requested_level
          /\ t.deferred_pending = s.deferred_pending
          /\ t.aborted = more /\ t.completed = s.completed
      BY <1>1, <3>1 DEF Odu
    <3> QED
      BY <3>3, <3>4 DEF more
  <2>2. CASE t = [s EXCEPT !.forced_defrost = FALSE, !.forced_remaining = 0, !.completed = @ + 1]
    <3> DEFINE more == s.completed + 1
    <3>1. t = [s EXCEPT !.forced_defrost = FALSE, !.forced_remaining = 0, !.completed = more]
      BY <2>2
    <3>2. more \in Nat
      BY <1>2
    <3> HIDE DEF more
    <3>3. t \in Odu
      BY <1>1, <1>3, <3>1, <3>2 DEF Odu
    <3>4. /\ ~t.forced_defrost /\ t.forced_remaining = 0 /\ t.started = s.started
          /\ t.accepted_level = s.accepted_level /\ t.requested_level = s.requested_level
          /\ t.deferred_pending = s.deferred_pending
          /\ t.completed = more /\ t.aborted = s.aborted
      BY <1>1, <3>1 DEF Odu
    <3> QED
      BY <3>3, <3>4 DEF more
  <2> QED
    BY <2>1, <2>2
<1>5. s.started = s.completed + s.aborted + 1
  BY DEF OduOK, Counted
<1>6. t.started = t.completed + t.aborted + 0
  BY <1>2, <1>4, <1>5
<1>7. Counted(t)
  BY <1>4, <1>6 DEF Counted
<1> QED
  BY <1>4, <1>7 DEF Final

LEMMA AbortOK ==
  ASSUME NEW s, OduOK(s)
  PROVE  OduOK(abort_forced_defrost(s)) /\ (Final(s) => Final(abort_forced_defrost(s)))
<1>1. CASE ~s.forced_defrost
  BY <1>1 DEF abort_forced_defrost
<1>2. CASE s.forced_defrost
  <2> DEFINE t == [s EXCEPT !.forced_defrost = FALSE, !.forced_remaining = 0, !.aborted = @ + 1]
  <2>1. abort_forced_defrost(s) = update_deferred_defrost_level(t)
    BY <1>2 DEF abort_forced_defrost
  <2>2. t \in Odu /\ Counted(t) /\ (Final(s) => Final(t))
    BY <1>2, CycleEndsOK
  <2> HIDE DEF t
  <2> QED
    BY <2>1, <2>2, DeferredOK
<1> QED
  BY <1>1, <1>2

LEMMA ForcedDefrostOK ==
  ASSUME NEW s, OduOK(s), NEW dt \in Dt
  PROVE  /\ OduOK(update_forced_defrost(s, dt))
         /\ Final(s) => Final(update_forced_defrost(s, dt))
<1>1. s \in Odu /\ Counted(s) /\ s.forced_remaining \in 0 .. DEFROST_DURATION
      /\ dt \in Nat /\ dt > 0 /\ DEFROST_DURATION \in Nat
  BY OduAssumption DEF OduOK, Odu
<1>2. CASE ~s.forced_defrost
  BY <1>2 DEF update_forced_defrost
<1>3. CASE s.forced_defrost /\ ~manual_defrost_ready(s)
  BY <1>3, AbortOK DEF update_forced_defrost
<1>4. CASE s.forced_defrost /\ manual_defrost_ready(s) /\ s.forced_remaining > dt
  <2> DEFINE left == s.forced_remaining - dt
             t == [s EXCEPT !.forced_remaining = left]
  <2>1. update_forced_defrost(s, dt) = t
    BY <1>4 DEF update_forced_defrost
  <2>2. left \in 0 .. DEFROST_DURATION /\ left > 0
    BY <1>1, <1>4
  <2> HIDE DEF left
  <2>3. t \in Odu
    BY <1>1, <2>2 DEF Odu
  <2>4. t.forced_remaining = left /\ t.forced_defrost = s.forced_defrost
        /\ t.started = s.started /\ t.completed = s.completed /\ t.aborted = s.aborted
        /\ t.deferred_pending = s.deferred_pending /\ t.defrost = s.defrost
        /\ t.accepted_level = s.accepted_level /\ t.requested_level = s.requested_level
    BY <1>1 DEF Odu
  <2> HIDE DEF t
  <2>5. Counted(t)
    BY <1>1, <1>4, <2>2, <2>4 DEF Counted
  <2>6. OduOK(t)
    BY <2>3, <2>4, <2>5 DEF OduOK, defrost_active
  <2> QED
    BY <2>1, <2>4, <2>6 DEF Final
<1>5. CASE s.forced_defrost /\ manual_defrost_ready(s) /\ ~(s.forced_remaining > dt)
  <2> DEFINE t == [s EXCEPT !.forced_defrost = FALSE, !.forced_remaining = 0, !.completed = @ + 1]
  <2>1. update_forced_defrost(s, dt) = update_deferred_defrost_level(t)
    BY <1>5 DEF update_forced_defrost
  <2>2. t \in Odu /\ Counted(t) /\ (Final(s) => Final(t))
    BY <1>5, CycleEndsOK
  <2> HIDE DEF t
  <2> QED
    BY <2>1, <2>2, DeferredOK
<1> QED
  BY <1>2, <1>3, <1>4, <1>5

LEMMA SafetyStopOK ==
  ASSUME NEW s, OduOK(s)
  PROVE  /\ OduOK(safety_stop(s))
         /\ MustStop(s) \/ Final(s) => Final(safety_stop(s))
<1>1. CASE ~MustStop(s)
  BY <1>1 DEF safety_stop
<1>2. CASE MustStop(s)
  <2> DEFINE a == abort_forced_defrost(s)
             t == [a EXCEPT !.requested_mode = STANDBY, !.requested_level = 0,
                            !.accepted_level = 0, !.deferred_level = 0,
                            !.deferred_pending = FALSE]
  <2>1. safety_stop(s) = t
    BY <1>2 DEF safety_stop
  <2>2. OduOK(a)
    BY AbortOK
  <2> HIDE DEF a
  <2>3. a \in Odu /\ Counted(a)
    BY <2>2 DEF OduOK
  <2>4. 0 \in 0 .. MAX_LEVEL /\ 0 \in Level /\ STANDBY \in WorkingMode
    BY OduAssumption DEF Level, WorkingMode
  <2>5. t \in Odu
    BY <2>3, <2>4 DEF Odu
  <2>6. /\ t.forced_defrost = a.forced_defrost /\ t.forced_remaining = a.forced_remaining
        /\ t.started = a.started /\ t.completed = a.completed /\ t.aborted = a.aborted
        /\ ~t.deferred_pending /\ t.accepted_level = 0 /\ t.requested_level = 0
    BY <2>3 DEF Odu
  <2> HIDE DEF t
  <2>7. Counted(t)
    BY <2>3, <2>6 DEF Counted
  <2> QED
    BY <2>1, <2>5, <2>6, <2>7 DEF OduOK, Final
<1> QED
  BY <1>1, <1>2

\* The compressor touches its mode, its timers and its speed only.
LEMMA CompressorOK ==
  ASSUME NEW s, OduOK(s), NEW dt \in Dt, NEW cap \in LimitedLevel
  PROVE  /\ OduOK(update_compressor(s, dt, cap))
         /\ Final(s) => Final(update_compressor(s, dt, cap))
<1> DEFINE
      demand == Demand(s)
      waiting == MayStart(s)
      start_timer == IF waiting THEN Lesser(s.start_timer + dt, START_DELAY)
                     ELSE IF demand THEN s.start_timer ELSE 0
      starts == waiting /\ start_timer >= START_DELAY
      running_mode == IF starts THEN s.requested_mode ELSE s.active_mode
      runs == running_mode # STANDBY
      running_timer == IF runs
                       THEN Lesser((IF starts THEN 0 ELSE s.running_timer) + dt,
                                   MINIMUM_RUNTIME)
                       ELSE s.running_timer
      stopping == /\ runs
                  /\ ~demand \/ s.requested_mode # running_mode
                  /\ running_timer >= MINIMUM_RUNTIME
      stop_timer == IF stopping THEN Lesser(s.stop_timer + dt, STOP_DELAY)
                    ELSE IF runs THEN 0 ELSE s.stop_timer
      stops == stopping /\ stop_timer >= STOP_DELAY /\ Standstill(s)
      mode == IF stops THEN STANDBY ELSE running_mode
      follows == /\ mode # STANDBY /\ mode = s.requested_mode /\ demand
                 /\ s.table_valid[mode]
      limited == \/ ui["derated"]
                 \/ ui["heating_limits"] /\ mode = HEATING /\ ~defrost_active(s)
      target == IF ~follows THEN 0
                ELSE IF limited THEN Lesser(s.accepted_level, cap)
                ELSE s.accepted_level
      rise == RAMP_UP * dt
      fall == RAMP_DOWN * dt
      ramped == IF target >= s.measured
                THEN Lesser(target, s.measured + rise)
                ELSE IF s.measured - target <= fall THEN target
                ELSE s.measured - fall
      start_left == IF stops THEN 0 ELSE start_timer
      stop_left == IF stops THEN 0 ELSE stop_timer
      speed == IF ui["freeze"] THEN s.measured ELSE ramped
      u == [s EXCEPT !.active_mode = mode, !.start_timer = start_left,
                     !.running_timer = running_timer, !.stop_timer = stop_left,
                     !.measured = speed]
<1>1. /\ s \in Odu /\ Counted(s)
      /\ s.requested_mode \in WorkingMode /\ s.active_mode \in WorkingMode
      /\ s.accepted_level \in 0 .. MAX_LEVEL /\ s.measured \in 0 .. MAX_LEVEL
      /\ s.start_timer \in 0 .. START_DELAY /\ s.running_timer \in 0 .. MINIMUM_RUNTIME
      /\ s.stop_timer \in 0 .. STOP_DELAY
  BY DEF OduOK, Odu
<1>2. /\ dt \in Nat /\ dt > 0 /\ cap \in Nat /\ MAX_LEVEL \in Nat /\ START_DELAY \in Nat
      /\ MINIMUM_RUNTIME \in Nat /\ STOP_DELAY \in Nat
      /\ RAMP_UP \in Nat /\ RAMP_DOWN \in Nat
  BY OduAssumption
<1>3. rise \in Nat /\ fall \in Nat
  BY <1>2
<1>4. start_timer \in 0 .. START_DELAY
  BY <1>1, <1>2 DEF Lesser
<1>5. STANDBY \in WorkingMode /\ running_mode \in WorkingMode
  BY <1>1 DEF WorkingMode
<1>6. running_timer \in 0 .. MINIMUM_RUNTIME
  <2> HIDE DEF starts, runs
  <2> QED
    BY <1>1, <1>2 DEF Lesser
<1>7. stop_timer \in 0 .. STOP_DELAY
  <2> HIDE DEF stopping, runs
  <2> QED
    BY <1>1, <1>2 DEF Lesser
<1>8. mode \in WorkingMode /\ start_left \in 0 .. START_DELAY /\ stop_left \in 0 .. STOP_DELAY
  <2> HIDE DEF stops, running_mode, start_timer, stop_timer
  <2> QED
    BY <1>2, <1>4, <1>5, <1>7
<1>9. target \in 0 .. MAX_LEVEL
  <2> HIDE DEF follows, limited
  <2> QED
    BY <1>1, <1>2 DEF Lesser
<1>10. ramped \in 0 .. MAX_LEVEL
  <2> HIDE DEF target, rise, fall
  <2> QED
    BY <1>1, <1>2, <1>3, <1>9 DEF Lesser
<1>11. speed \in 0 .. MAX_LEVEL
  <2> HIDE DEF ramped
  <2> QED
    BY <1>1, <1>10
<1>12. update_compressor(s, dt, cap) = u
  BY DEF update_compressor
<1> HIDE DEF mode, start_left, running_timer, stop_left, speed
<1>13. u \in Odu
  BY <1>1, <1>6, <1>8, <1>11 DEF Odu
<1>14. /\ u.forced_defrost = s.forced_defrost /\ u.forced_remaining = s.forced_remaining
       /\ u.started = s.started /\ u.completed = s.completed /\ u.aborted = s.aborted
       /\ u.deferred_pending = s.deferred_pending /\ u.defrost = s.defrost
       /\ u.accepted_level = s.accepted_level /\ u.requested_level = s.requested_level
  BY <1>1 DEF Odu
<1> HIDE DEF u
<1>15. Counted(u)
  BY <1>1, <1>14 DEF Counted
<1>16. u.deferred_pending => defrost_active(u)
  BY <1>14 DEF OduOK, defrost_active
<1> QED
  BY <1>12, <1>13, <1>14, <1>15, <1>16 DEF OduOK, Final

\* A whole update: after its safety stop nothing brings a command back.
LEMMA UpdatedOK ==
  ASSUME NEW s, OduOK(s), NEW dt \in Dt, NEW u \in Updated(s, dt)
  PROVE  OduOK(u) /\ (MustStop(s) \/ Final(s) => Final(u))
<1> DEFINE stopped == safety_stop(s)
           t == update_forced_defrost(stopped, dt)
<1>1. OduOK(stopped) /\ (MustStop(s) \/ Final(s) => Final(stopped))
  BY SafetyStopOK
<1> HIDE DEF stopped
<1>2. OduOK(t) /\ (Final(stopped) => Final(t))
  BY <1>1, ForcedDefrostOK
<1>3. PICK flow \in FlowOutcomes(t), cap \in LimitedLevel :
        u = update_compressor([t EXCEPT !.flow_switch = flow], dt, cap)
  BY DEF Updated, stopped
<1> HIDE DEF t
<1> DEFINE v == [t EXCEPT !.flow_switch = flow]
<1>4. t \in Odu /\ Counted(t) /\ flow \in BOOLEAN
  BY <1>2 DEF OduOK, FlowOutcomes
<1>5. v \in Odu
  BY <1>4 DEF Odu
<1>6. /\ v.forced_defrost = t.forced_defrost /\ v.forced_remaining = t.forced_remaining
      /\ v.started = t.started /\ v.completed = t.completed /\ v.aborted = t.aborted
      /\ v.deferred_pending = t.deferred_pending /\ v.defrost = t.defrost
      /\ v.accepted_level = t.accepted_level /\ v.requested_level = t.requested_level
  BY <1>4 DEF Odu
<1>7. u = update_compressor(v, dt, cap)
  BY <1>3
<1> HIDE DEF v
<1>8. Counted(v)
  BY <1>4, <1>6 DEF Counted
<1>9. OduOK(v) /\ (Final(t) => Final(v))
  BY <1>2, <1>5, <1>6, <1>8 DEF OduOK, Final, defrost_active
<1>10. OduOK(u) /\ (Final(v) => Final(u))
  BY <1>7, <1>9, CompressorOK
<1> QED
  BY <1>1, <1>2, <1>9, <1>10

------------------------------------------------------------------------------
(* The steps.                                                              *)

LEMMA ConfiguredOK ==
  ASSUME NEW enabled \in BOOLEAN
  PROVE  OduOK(ConfiguredOdu(enabled)) /\ Final(ConfiguredOdu(enabled))
<1> DEFINE c == ConfiguredOdu(enabled)
<1>1. /\ 0 \in 0 .. MAX_LEVEL /\ 0 \in Level /\ 0 \in 0 .. DEFROST_DURATION
      /\ 0 \in 0 .. MaxCycles /\ 0 \in 0 .. START_DELAY
      /\ 0 \in 0 .. MINIMUM_RUNTIME /\ 0 \in 0 .. STOP_DELAY
  BY OduAssumption DEF Level
<1>2. STANDBY \in WorkingMode /\ [m \in RunningMode |-> TRUE] \in [RunningMode -> BOOLEAN]
  BY DEF WorkingMode
<1> DEFINE tables == [m \in RunningMode |-> TRUE]
<1>3. c = [enabled |-> enabled,
           requested_mode |-> STANDBY, active_mode |-> STANDBY,
           requested_level |-> 0, accepted_level |-> 0,
           deferred_level |-> 0, deferred_pending |-> FALSE,
           pump_request |-> FALSE, flow_switch |-> FALSE,
           defrost |-> FALSE, forced_defrost |-> FALSE, forced_remaining |-> 0,
           started |-> 0, completed |-> 0, aborted |-> 0,
           communication_fault |-> FALSE, other_fault |-> FALSE,
           table_valid |-> tables,
           start_timer |-> 0, running_timer |-> 0, stop_timer |-> 0,
           measured |-> 0]
  BY DEF ConfiguredOdu
<1> HIDE DEF c, tables
<1>4. c \in Odu
  BY <1>1, <1>2, <1>3 DEF Odu, tables
<1>5. /\ ~c.forced_defrost /\ c.forced_remaining = 0 /\ c.started = 0
      /\ c.completed = 0 /\ c.aborted = 0 /\ ~c.deferred_pending
      /\ c.accepted_level = 0 /\ c.requested_level = 0
  BY <1>3
<1>6. Counted(c)
  BY <1>5 DEF Counted
<1> QED
  BY <1>4, <1>5, <1>6 DEF OduOK, Final, c

\* A change of any other field keeps what the counters and the levels say.
LEMMA OtherFieldOK ==
  ASSUME NEW s, OduOK(s), NEW t \in Odu,
         t.forced_defrost = s.forced_defrost, t.forced_remaining = s.forced_remaining,
         t.started = s.started, t.completed = s.completed, t.aborted = s.aborted,
         t.deferred_pending = s.deferred_pending, t.defrost = s.defrost,
         t.accepted_level = s.accepted_level, t.requested_level = s.requested_level
  PROVE  OduOK(t) /\ (Final(s) => Final(t))
<1>1. Counted(t)
  BY DEF OduOK, Counted
<1>2. t.deferred_pending => defrost_active(t)
  BY DEF OduOK, defrost_active
<1> QED
  BY <1>1, <1>2 DEF OduOK, Final

LEMMA LevelWriteKeeps ==
  ASSUME OduInv, NEW value \in Level, write_1999(value)
  PROVE  OduInv'
<1> DEFINE forced_stop == value = 0 /\ odu.forced_defrost
           s == IF forced_stop THEN abort_forced_defrost(odu) ELSE odu
           accepted == AcceptedLevel(value)
           held == [s EXCEPT !.requested_level = value, !.deferred_level = accepted,
                             !.deferred_pending = TRUE]
           taken == [s EXCEPT !.requested_level = value, !.accepted_level = accepted]
<1>1. OduOK(s)
  BY AbortOK DEF OduInv
<1>2. accepted \in 0 .. MAX_LEVEL
  BY OduAssumption DEF AcceptedLevel, Lesser, Level
<1>3. odu' = IF ~forced_stop /\ Holds(s) THEN held ELSE taken
  BY DEF write_1999
<1>4. commanded' = TRUE /\ ui' = ui /\ ui \in [AllSwitches -> BOOLEAN]
  BY DEF write_1999, OduInv
<1> HIDE DEF s, accepted, forced_stop
<1>5. s \in Odu /\ Counted(s) /\ (s.deferred_pending => defrost_active(s))
  BY <1>1 DEF OduOK
<1>6. held \in Odu
  BY <1>2, <1>5 DEF Odu
<1>7. taken \in Odu
  BY <1>2, <1>5 DEF Odu
<1>8. \A t \in {held, taken} :
        /\ t.forced_defrost = s.forced_defrost /\ t.forced_remaining = s.forced_remaining
        /\ t.started = s.started /\ t.completed = s.completed /\ t.aborted = s.aborted
        /\ t.defrost = s.defrost
  BY <1>5 DEF Odu
<1>9. taken.deferred_pending = s.deferred_pending
  BY <1>5 DEF Odu
<1> HIDE DEF held, taken
<1>10. \A t \in {held, taken} : Counted(t)
  BY <1>5, <1>8 DEF Counted
<1>11. OduOK(taken)
  BY <1>5, <1>7, <1>8, <1>9, <1>10 DEF OduOK, defrost_active
<1>12. Holds(s) => OduOK(held)
  BY <1>6, <1>8, <1>10 DEF OduOK, Holds, defrost_active
<1>13. OduOK(odu')
  BY <1>3, <1>11, <1>12
<1> QED
  BY <1>4, <1>13 DEF OduInv

LEMMA ModeWriteKeeps ==
  ASSUME OduInv, NEW mode \in WorkingMode, write_working_mode(mode)
  PROVE  OduInv'
<1> DEFINE a == abort_forced_defrost(odu)
           t == [a EXCEPT !.requested_mode = mode]
<1>1. OduOK(a) /\ (Final(odu) => Final(a))
  BY AbortOK DEF OduInv
<1>2. odu' = t /\ ui' = ui /\ commanded' = commanded
  BY DEF write_working_mode
<1> HIDE DEF a
<1>3. a \in Odu
  BY <1>1 DEF OduOK
<1>4. t \in Odu
  BY <1>3 DEF Odu
<1>5. /\ t.forced_defrost = a.forced_defrost /\ t.forced_remaining = a.forced_remaining
      /\ t.started = a.started /\ t.completed = a.completed /\ t.aborted = a.aborted
      /\ t.deferred_pending = a.deferred_pending /\ t.defrost = a.defrost
      /\ t.accepted_level = a.accepted_level /\ t.requested_level = a.requested_level
  BY <1>3 DEF Odu
<1> HIDE DEF t
<1>6. OduOK(t) /\ (Final(a) => Final(t))
  BY <1>1, <1>4, <1>5, OtherFieldOK
<1> QED
  BY <1>1, <1>2, <1>6 DEF OduInv

LEMMA ForcedWriteKeeps ==
  ASSUME OduInv, write_forced_defrost
  PROVE  OduInv'
<1> DEFINE more == odu.started + 1
           t == [odu EXCEPT !.forced_defrost = TRUE,
                            !.forced_remaining = DEFROST_DURATION,
                            !.started = more]
<1>1. OduOK(odu) /\ odu \in Odu /\ Counted(odu) /\ ui' = ui /\ commanded' = commanded
  BY DEF OduInv, OduOK, write_forced_defrost
<1>2. CASE odu.forced_defrost
  BY <1>1, <1>2 DEF write_forced_defrost, OduInv
<1>3. CASE ~odu.forced_defrost
  <2>1. odu' = t /\ odu.started < MaxCycles
    BY <1>3 DEF write_forced_defrost
  <2>2. /\ more \in 0 .. MaxCycles /\ DEFROST_DURATION \in 0 .. DEFROST_DURATION
        /\ DEFROST_DURATION > 0 /\ odu.completed \in Nat /\ odu.aborted \in Nat
    BY <1>1, <2>1, OduAssumption DEF Odu
  <2>3. more = odu.completed + odu.aborted + 1
    BY <1>1, <1>3, <2>2 DEF Counted
  <2> HIDE DEF more
  <2>4. t \in Odu
    BY <1>1, <2>2 DEF Odu
  <2>5. /\ t.forced_defrost /\ t.forced_remaining = DEFROST_DURATION
        /\ t.started = more /\ t.completed = odu.completed /\ t.aborted = odu.aborted
        /\ t.accepted_level = odu.accepted_level /\ t.requested_level = odu.requested_level
        /\ t.deferred_pending = odu.deferred_pending
    BY <1>1 DEF Odu
  <2> HIDE DEF t
  <2>6. Counted(t)
    BY <2>2, <2>3, <2>5 DEF Counted
  <2>7. OduOK(t) /\ (Final(odu) => Final(t))
    BY <2>4, <2>5, <2>6 DEF OduOK, Final, defrost_active
  <2> QED
    BY <1>1, <2>1, <2>7 DEF OduInv
<1> QED
  BY <1>2, <1>3

LEMMA DefrostSwitchKeeps ==
  ASSUME OduInv, NEW on \in BOOLEAN, set_defrost(on)
  PROVE  OduInv'
<1> DEFINE t == [odu EXCEPT !.defrost = on]
<1>1. odu' = update_deferred_defrost_level(t) /\ ui' = ui /\ commanded' = commanded
  BY DEF set_defrost
<1>2. odu \in Odu /\ Counted(odu)
  BY DEF OduInv, OduOK
<1>3. t \in Odu
  BY <1>2 DEF Odu
<1>4. /\ t.forced_defrost = odu.forced_defrost /\ t.forced_remaining = odu.forced_remaining
      /\ t.started = odu.started /\ t.completed = odu.completed /\ t.aborted = odu.aborted
      /\ t.deferred_pending = odu.deferred_pending
      /\ t.accepted_level = odu.accepted_level /\ t.requested_level = odu.requested_level
  BY <1>2 DEF Odu
<1> HIDE DEF t
<1>5. Counted(t) /\ (Final(odu) => Final(t))
  BY <1>2, <1>4 DEF Counted, Final
<1>6. /\ OduOK(update_deferred_defrost_level(t))
      /\ Final(t) => Final(update_deferred_defrost_level(t))
  BY <1>3, <1>5, DeferredOK
<1> QED
  BY <1>1, <1>5, <1>6 DEF OduInv

\* The pump, the tables, the faults: fields that no counter and no level is.
LEMMA OtherWriteKeeps ==
  ASSUME OduInv, NEW on \in BOOLEAN, NEW mode \in RunningMode,
         \/ write_2010(on) \/ write_table(mode, on)
         \/ set_communication_fault(on) \/ set_other_fault(on)
  PROVE  OduInv'
<1>1. OduOK(odu) /\ odu \in Odu /\ ui' = ui /\ commanded' = commanded
  BY DEF OduInv, OduOK, write_2010, write_table, set_communication_fault, set_other_fault
<1> DEFINE table == [odu.table_valid EXCEPT ![mode] = on]
<1>2. table \in [RunningMode -> BOOLEAN]
  BY <1>1 DEF Odu
<1>3. \/ odu' = [odu EXCEPT !.pump_request = on]
      \/ odu' = [odu EXCEPT !.table_valid = table]
      \/ odu' = [odu EXCEPT !.communication_fault = on]
      \/ odu' = [odu EXCEPT !.other_fault = on]
  BY DEF write_2010, write_table, set_communication_fault, set_other_fault
<1> HIDE DEF table
<1>4. odu' \in Odu
  BY <1>1, <1>2, <1>3 DEF Odu
<1>5. /\ odu'.forced_defrost = odu.forced_defrost
      /\ odu'.forced_remaining = odu.forced_remaining
      /\ odu'.started = odu.started /\ odu'.completed = odu.completed
      /\ odu'.aborted = odu.aborted
      /\ odu'.deferred_pending = odu.deferred_pending /\ odu'.defrost = odu.defrost
      /\ odu'.accepted_level = odu.accepted_level
      /\ odu'.requested_level = odu.requested_level
  BY <1>1, <1>3 DEF Odu
<1>6. OduOK(odu') /\ (Final(odu) => Final(odu'))
  BY <1>1, <1>4, <1>5, OtherFieldOK
<1> QED
  BY <1>1, <1>6 DEF OduInv

LEMMA SwitchKeeps ==
  ASSUME OduInv, NEW switch \in Switch, NEW on \in BOOLEAN, set_switch(switch, on)
  PROVE  OduInv'
  BY OduAssumption DEF OduInv, set_switch

LEMMA ConfigureKeeps ==
  ASSUME OduInv, NEW enabled \in BOOLEAN, configure(enabled)
  PROVE  OduInv'
  BY ConfiguredOK DEF OduInv, configure

LEMMA UpdateKeeps ==
  ASSUME OduInv, NEW dt \in Dt, update(dt)
  PROVE  OduInv'
<1>1. OduOK(odu) /\ odu' \in Updated(odu, dt) /\ ui' = ui
      /\ commanded' = (commanded /\ ~MustStop(odu))
  BY DEF OduInv, update
<1>2. OduOK(odu') /\ (MustStop(odu) \/ Final(odu) => Final(odu'))
  BY <1>1, UpdatedOK
<1>3. commanded \in BOOLEAN /\ (~commanded => Final(odu))
  BY DEF OduInv
<1>4. ~commanded' => Final(odu')
  BY <1>1, <1>2, <1>3
<1>5. commanded' \in BOOLEAN
  BY <1>1
<1>6. ui' \in [AllSwitches -> BOOLEAN]
  BY <1>1 DEF OduInv
<1> QED
  BY <1>2, <1>4, <1>5, <1>6 DEF OduInv

LEMMA OduNext ==
  ASSUME OduInv, [Next]_vars
  PROVE  OduInv'
<1>1. CASE \E value \in Request : write_1999(value)
  BY <1>1, LevelWriteKeeps, OduAssumption
<1>2. CASE \E mode \in WorkingMode : write_working_mode(mode)
  BY <1>2, ModeWriteKeeps
<1>3. CASE write_forced_defrost
  BY <1>3, ForcedWriteKeeps
<1>4. CASE \E on \in BOOLEAN, mode \in RunningMode :
             \/ write_2010(on) \/ write_table(mode, on)
             \/ set_communication_fault(on) \/ set_other_fault(on)
  BY <1>4, OtherWriteKeeps
<1>5. CASE \E on \in BOOLEAN : set_defrost(on)
  BY <1>5, DefrostSwitchKeeps
<1>6. CASE \E switch \in Switch, on \in BOOLEAN : set_switch(switch, on)
  BY <1>6, SwitchKeeps
<1>7. CASE \E enabled \in BOOLEAN : configure(enabled)
  BY <1>7, ConfigureKeeps
<1>8. CASE \E dt \in Dt : update(dt)
  BY <1>8, UpdateKeeps
<1>9. CASE UNCHANGED vars
  <2>1. odu' = odu /\ ui' = ui /\ commanded' = commanded
    BY <1>9 DEF vars
  <2> QED
    BY <2>1 DEF OduInv
<1>10. COOLING \in RunningMode /\ Table \subseteq RunningMode
  BY OduAssumption DEF RunningMode
<1> QED
  BY <1>1, <1>2, <1>3, <1>4, <1>5, <1>6, <1>7, <1>8, <1>9, <1>10
     DEF Next, Between, ControllerNext, InterfaceNext

LEMMA OduAlways == Spec => []OduInv
<1>1. Init => OduInv
  <2>1. OduOK(ConfiguredOdu(FALSE)) /\ Final(ConfiguredOdu(FALSE))
    BY ConfiguredOK
  <2> QED
    BY <2>1 DEF Init, OduInv
<1>2. OduInv /\ [Next]_vars => OduInv'
  BY OduNext
<1> QED
  BY <1>1, <1>2, PTL DEF Spec

------------------------------------------------------------------------------

\* The registers, timers and counters of the unit stay within their types.
THEOREM OduTypes == Spec => []TypeOK
<1>1. OduInv => TypeOK
  <2> SUFFICES ASSUME OduInv PROVE TypeOK
    OBVIOUS
  <2>1. odu \in Odu /\ Counted(odu)
    BY DEF OduInv, OduOK
  <2>2. /\ odu.started \in 0 .. MaxCycles /\ odu.completed \in Nat /\ odu.aborted \in Nat
        /\ odu.started = odu.completed + odu.aborted + (IF odu.forced_defrost THEN 1 ELSE 0)
    BY <2>1 DEF Odu, Counted
  <2>3. odu.completed \in 0 .. MaxCycles /\ odu.aborted \in 0 .. MaxCycles
    BY <2>2, OduAssumption
  <2> QED
    BY <2>1, <2>3 DEF TypeOK, Odu, OduInv
<1> QED
  BY <1>1, OduAlways, PTL

\* Every forced defrost that was started was completed, was aborted, or runs,
\* and its timer runs exactly while it does.
THEOREM CyclesAreCounted == Spec => []CyclesAccountedFor
<1>1. OduInv => CyclesAccountedFor
  BY DEF OduInv, OduOK, Counted, CyclesAccountedFor
<1> QED
  BY <1>1, OduAlways, PTL

\* A level is held back only while a defrost lasts.
THEOREM DeferredEndsWithDefrost == Spec => []DeferredOnlyInDefrost
<1>1. OduInv => DeferredOnlyInDefrost
  BY DEF OduInv, OduOK, DeferredOnlyInDefrost
<1> QED
  BY <1>1, OduAlways, PTL

\* No command that a safety stop cleared comes back without a new write.
THEOREM StopRestoresNothing == Spec => []StopIsFinal
<1>1. OduInv => StopIsFinal
  BY DEF OduInv, Final, StopIsFinal
<1> QED
  BY <1>1, OduAlways, PTL

------------------------------------------------------------------------------
(* What a step does to the mode and to a held level.                       *)

\* What a unit keeps of its request for a mode through its defrosts
LEMMA RequestKept ==
  ASSUME NEW s, OduOK(s), NEW dt \in Dt
  PROVE  /\ abort_forced_defrost(s).requested_mode = s.requested_mode
         /\ update_forced_defrost(s, dt).requested_mode = s.requested_mode
<1>1. ASSUME NEW t \in Odu
      PROVE  update_deferred_defrost_level(t).requested_mode = t.requested_mode
  BY DEF update_deferred_defrost_level, Odu
<1>2. s \in Odu
  BY DEF OduOK
<1>3. ASSUME s.forced_defrost, NEW t,
             \/ t = [s EXCEPT !.forced_defrost = FALSE, !.forced_remaining = 0, !.aborted = @ + 1]
             \/ t = [s EXCEPT !.forced_defrost = FALSE, !.forced_remaining = 0,
                              !.completed = @ + 1]
      PROVE  update_deferred_defrost_level(t).requested_mode = s.requested_mode
  <2>1. t \in Odu
    BY <1>3, CycleEndsOK
  <2>2. t.requested_mode = s.requested_mode
    BY <1>2, <1>3 DEF Odu
  <2> QED
    BY <1>1, <2>1, <2>2
<1>4. abort_forced_defrost(s).requested_mode = s.requested_mode
  BY <1>3 DEF abort_forced_defrost
<1>5. [s EXCEPT !.forced_remaining = @ - dt].requested_mode = s.requested_mode
  BY <1>2 DEF Odu
<1> QED
  BY <1>3, <1>4, <1>5 DEF update_forced_defrost

\* `t` is `s` with its compressor as it was, and with its level or out of a defrost.
SameOrReleased(s, t) ==
  /\ t.active_mode = s.active_mode
  /\ t.measured = s.measured /\ t.start_timer = s.start_timer
  /\ t.accepted_level = s.accepted_level \/ ~defrost_active(t)

LEMMA DeferredShape ==
  ASSUME NEW s \in Odu
  PROVE  SameOrReleased(s, update_deferred_defrost_level(s))
<1> DEFINE t == [s EXCEPT !.accepted_level = s.deferred_level,
                          !.deferred_level = 0,
                          !.deferred_pending = FALSE]
<1>1. CASE defrost_active(s) \/ ~s.deferred_pending
  BY <1>1 DEF update_deferred_defrost_level, SameOrReleased
<1>2. CASE ~(defrost_active(s) \/ ~s.deferred_pending)
  <2>1. update_deferred_defrost_level(s) = t
    BY <1>2 DEF update_deferred_defrost_level
  <2>2. /\ t.active_mode = s.active_mode /\ t.defrost = s.defrost
        /\ t.measured = s.measured /\ t.start_timer = s.start_timer
        /\ t.forced_defrost = s.forced_defrost
    BY DEF Odu
  <2> HIDE DEF t
  <2> QED
    BY <1>2, <2>1, <2>2 DEF SameOrReleased, defrost_active
<1> QED
  BY <1>1, <1>2

LEMMA EndedShape ==
  ASSUME NEW s, OduOK(s), s.forced_defrost, NEW t,
         \/ t = [s EXCEPT !.forced_defrost = FALSE, !.forced_remaining = 0, !.aborted = @ + 1]
         \/ t = [s EXCEPT !.forced_defrost = FALSE, !.forced_remaining = 0, !.completed = @ + 1]
  PROVE  SameOrReleased(s, update_deferred_defrost_level(t))
<1>1. t \in Odu
  BY CycleEndsOK
<1>2. SameOrReleased(t, update_deferred_defrost_level(t))
  BY <1>1, DeferredShape
<1>3. /\ t.active_mode = s.active_mode /\ t.accepted_level = s.accepted_level
      /\ t.measured = s.measured /\ t.start_timer = s.start_timer
  BY DEF OduOK, Odu
<1> QED
  BY <1>2, <1>3 DEF SameOrReleased

LEMMA AbortShape ==
  ASSUME NEW s, OduOK(s)
  PROVE  /\ SameOrReleased(s, abort_forced_defrost(s))
         /\ s.forced_defrost => /\ ~abort_forced_defrost(s).forced_defrost
                                /\ abort_forced_defrost(s).aborted = s.aborted + 1
<1>1. CASE ~s.forced_defrost
  BY <1>1 DEF abort_forced_defrost, SameOrReleased
<1>2. CASE s.forced_defrost
  <2> DEFINE t == [s EXCEPT !.forced_defrost = FALSE, !.forced_remaining = 0, !.aborted = @ + 1]
  <2>1. abort_forced_defrost(s) = update_deferred_defrost_level(t)
    BY <1>2 DEF abort_forced_defrost
  <2>2. SameOrReleased(s, update_deferred_defrost_level(t))
    BY <1>2, EndedShape
  <2>3. t \in Odu
    BY <1>2, CycleEndsOK
  <2>4. ~t.forced_defrost /\ t.aborted = s.aborted + 1
    BY DEF OduOK, Odu
  <2> HIDE DEF t
  <2>5. /\ update_deferred_defrost_level(t).forced_defrost = t.forced_defrost
        /\ update_deferred_defrost_level(t).aborted = t.aborted
    BY <2>3 DEF update_deferred_defrost_level, Odu
  <2> QED
    BY <2>1, <2>2, <2>4, <2>5
<1> QED
  BY <1>1, <1>2

LEMMA ForcedShape ==
  ASSUME NEW s, OduOK(s), NEW dt \in Dt
  PROVE  SameOrReleased(s, update_forced_defrost(s, dt))
<1>1. CASE ~s.forced_defrost
  BY <1>1 DEF update_forced_defrost, SameOrReleased
<1>2. CASE s.forced_defrost /\ ~manual_defrost_ready(s)
  BY <1>2, AbortShape DEF update_forced_defrost
<1>3. CASE s.forced_defrost /\ manual_defrost_ready(s) /\ s.forced_remaining > dt
  BY <1>3 DEF update_forced_defrost, SameOrReleased, OduOK, Odu
<1>4. CASE s.forced_defrost /\ manual_defrost_ready(s) /\ ~(s.forced_remaining > dt)
  <2> DEFINE t == [s EXCEPT !.forced_defrost = FALSE, !.forced_remaining = 0, !.completed = @ + 1]
  <2>1. update_forced_defrost(s, dt) = update_deferred_defrost_level(t)
    BY <1>4 DEF update_forced_defrost
  <2>2. SameOrReleased(s, update_deferred_defrost_level(t))
    BY <1>4, EndedShape
  <2> QED
    BY <2>1, <2>2
<1> QED
  BY <1>1, <1>2, <1>3, <1>4

LEMMA SafetyShape ==
  ASSUME NEW s, OduOK(s)
  PROVE  /\ safety_stop(s).active_mode = s.active_mode
         /\ safety_stop(s).measured = s.measured
         /\ safety_stop(s).start_timer = s.start_timer
         /\ MustStop(s) => safety_stop(s).requested_mode = STANDBY
<1>1. CASE ~MustStop(s)
  BY <1>1 DEF safety_stop
<1>2. CASE MustStop(s)
  <2> DEFINE a == abort_forced_defrost(s)
  <2>1. /\ a \in Odu /\ a.active_mode = s.active_mode
        /\ a.measured = s.measured /\ a.start_timer = s.start_timer
    BY AbortOK, AbortShape DEF OduOK, SameOrReleased
  <2>2. safety_stop(s) =
          [a EXCEPT !.requested_mode = STANDBY, !.requested_level = 0,
                    !.accepted_level = 0, !.deferred_level = 0,
                    !.deferred_pending = FALSE]
    BY <1>2 DEF safety_stop
  <2> HIDE DEF a
  <2> QED
    BY <2>1, <2>2 DEF Odu
<1> QED
  BY <1>1, <1>2

\* What an update of the compressor keeps, and how it starts and stops: a mode is
\* left at standstill and for standby, which is left after the start delay.
Advances(s, u, dt) ==
  /\ u.active_mode \notin {s.active_mode, STANDBY} =>
       s.active_mode = STANDBY /\ s.start_timer + dt >= START_DELAY
  /\ u.active_mode = STANDBY /\ s.active_mode # STANDBY =>
       s.measured = 0 /\ u.start_timer = 0
  /\ u.active_mode = STANDBY /\ s.measured = 0 => u.measured = 0
  /\ u.active_mode = STANDBY /\ s.active_mode = STANDBY =>
       u.start_timer <= Lesser(s.start_timer + dt, START_DELAY)

LEMMA CompressorShape ==
  ASSUME NEW s \in Odu, NEW dt \in Dt, NEW cap \in LimitedLevel,
         NEW u, u = update_compressor(s, dt, cap)
  PROVE  /\ u.accepted_level = s.accepted_level /\ u.requested_mode = s.requested_mode
         /\ u.defrost = s.defrost /\ u.forced_defrost = s.forced_defrost
         /\ Advances(s, u, dt)
<1> DEFINE
      demand == Demand(s)
      waiting == MayStart(s)
      start_timer == IF waiting THEN Lesser(s.start_timer + dt, START_DELAY)
                     ELSE IF demand THEN s.start_timer ELSE 0
      starts == waiting /\ start_timer >= START_DELAY
      running_mode == IF starts THEN s.requested_mode ELSE s.active_mode
      runs == running_mode # STANDBY
      running_timer == IF runs
                       THEN Lesser((IF starts THEN 0 ELSE s.running_timer) + dt,
                                   MINIMUM_RUNTIME)
                       ELSE s.running_timer
      stopping == /\ runs
                  /\ ~demand \/ s.requested_mode # running_mode
                  /\ running_timer >= MINIMUM_RUNTIME
      stop_timer == IF stopping THEN Lesser(s.stop_timer + dt, STOP_DELAY)
                    ELSE IF runs THEN 0 ELSE s.stop_timer
      stops == stopping /\ stop_timer >= STOP_DELAY /\ Standstill(s)
      mode == IF stops THEN STANDBY ELSE running_mode
      follows == /\ mode # STANDBY /\ mode = s.requested_mode /\ demand
                 /\ s.table_valid[mode]
      limited == \/ ui["derated"]
                 \/ ui["heating_limits"] /\ mode = HEATING /\ ~defrost_active(s)
      target == IF ~follows THEN 0
                ELSE IF limited THEN Lesser(s.accepted_level, cap)
                ELSE s.accepted_level
      rise == RAMP_UP * dt
      fall == RAMP_DOWN * dt
      ramped == IF target >= s.measured
                THEN Lesser(target, s.measured + rise)
                ELSE IF s.measured - target <= fall THEN target
                ELSE s.measured - fall
      start_left == IF stops THEN 0 ELSE start_timer
      stop_left == IF stops THEN 0 ELSE stop_timer
      speed == IF ui["freeze"] THEN s.measured ELSE ramped
<1>0. /\ dt \in Nat /\ dt > 0 /\ START_DELAY \in Nat /\ s.start_timer \in 0 .. START_DELAY
      /\ rise \in Nat
  BY OduAssumption DEF Odu
<1>1. u = [s EXCEPT !.active_mode = mode, !.start_timer = start_left,
                    !.running_timer = running_timer, !.stop_timer = stop_left,
                    !.measured = speed]
  BY DEF update_compressor
<1>2. /\ waiting => s.active_mode = STANDBY
      /\ starts => start_timer = Lesser(s.start_timer + dt, START_DELAY)
      /\ starts => start_timer >= START_DELAY
  BY DEF MayStart
<1>3. stops => s.measured = 0
  BY DEF Standstill
<1>4. mode = STANDBY /\ s.measured = 0 => speed = 0
  <2> SUFFICES ASSUME mode = STANDBY, s.measured = 0 PROVE speed = 0
    OBVIOUS
  <2>1. target = 0
    <3> HIDE DEF mode, limited
    <3> QED
      OBVIOUS
  <2> HIDE DEF target, rise
  <2>2. ramped = 0
    BY <1>0, <2>1 DEF Lesser
  <2> QED
    BY <2>2
<1>5. start_timer <= Lesser(s.start_timer + dt, START_DELAY)
  BY <1>0 DEF Lesser
<1>6. mode \notin {s.active_mode, STANDBY} => starts
  <2> HIDE DEF starts, stops
  <2> QED
    OBVIOUS
<1>7. mode = STANDBY /\ s.active_mode # STANDBY => stops
  <2>1. starts => s.active_mode = STANDBY
    BY <1>2
  <2> HIDE DEF starts, stops
  <2> QED
    BY <2>1
<1>8. /\ mode \notin {s.active_mode, STANDBY} =>
           s.active_mode = STANDBY /\ s.start_timer + dt >= START_DELAY
      /\ mode = STANDBY /\ s.active_mode # STANDBY => s.measured = 0 /\ start_left = 0
      /\ start_left <= Lesser(s.start_timer + dt, START_DELAY)
  <2>1. starts => s.active_mode = STANDBY /\ s.start_timer + dt >= START_DELAY
    BY <1>0, <1>2 DEF Lesser
  <2>2. stops => start_left = 0
    OBVIOUS
  <2>3. 0 <= Lesser(s.start_timer + dt, START_DELAY)
    BY <1>0 DEF Lesser
  <2>4. start_left = start_timer \/ start_left = 0
    <3> HIDE DEF stops, start_timer
    <3> QED
      OBVIOUS
  <2> HIDE DEF starts, stops, mode, start_left, start_timer
  <2> QED
    BY <1>3, <1>5, <1>6, <1>7, <2>1, <2>2, <2>3, <2>4
<1> HIDE DEF mode, start_left, running_timer, stop_left, speed
<1>9. /\ u.active_mode = mode /\ u.start_timer = start_left /\ u.measured = speed
      /\ u.accepted_level = s.accepted_level /\ u.requested_mode = s.requested_mode
      /\ u.defrost = s.defrost /\ u.forced_defrost = s.forced_defrost
  BY <1>1 DEF Odu
<1> QED
  BY <1>4, <1>8, <1>9 DEF Advances

\* The safety stop takes the level of a unit that defrosts.
SafetyStopped(s, u) ==
  /\ s.communication_fault /\ u.requested_mode = STANDBY
  /\ Final(u)

LEMMA UpdatedShape ==
  ASSUME NEW s, OduOK(s), NEW dt \in Dt, NEW u \in Updated(s, dt)
  PROVE  /\ \/ u.accepted_level = s.accepted_level \/ ~defrost_active(u)
            \/ SafetyStopped(s, u)
         /\ Advances(s, u, dt)
<1> DEFINE stopped == safety_stop(s)
           t == update_forced_defrost(stopped, dt)
<1>1. /\ OduOK(stopped) /\ stopped.active_mode = s.active_mode
      /\ stopped.measured = s.measured /\ stopped.start_timer = s.start_timer
      /\ MustStop(s) => stopped.requested_mode = STANDBY
      /\ ~MustStop(s) => stopped = s
  BY SafetyStopOK, SafetyShape DEF safety_stop
<1> HIDE DEF stopped
<1>2. OduOK(t) /\ SameOrReleased(stopped, t) /\ t.requested_mode = stopped.requested_mode
  BY <1>1, ForcedDefrostOK, ForcedShape, RequestKept
<1>3. PICK flow \in FlowOutcomes(t), cap \in LimitedLevel :
        u = update_compressor([t EXCEPT !.flow_switch = flow], dt, cap)
  BY DEF Updated, stopped
<1> HIDE DEF t
<1> DEFINE v == [t EXCEPT !.flow_switch = flow]
<1>4. t \in Odu /\ flow \in BOOLEAN
  BY <1>2 DEF OduOK, FlowOutcomes
<1>5. v \in Odu /\ u = update_compressor(v, dt, cap)
  BY <1>3, <1>4 DEF Odu
<1>6. /\ v.active_mode = t.active_mode /\ v.accepted_level = t.accepted_level
      /\ v.measured = t.measured /\ v.start_timer = t.start_timer
      /\ v.defrost = t.defrost /\ v.forced_defrost = t.forced_defrost
      /\ v.requested_mode = t.requested_mode
  BY <1>4 DEF Odu
<1> HIDE DEF v
<1>7. /\ u.accepted_level = v.accepted_level /\ u.requested_mode = v.requested_mode
      /\ u.defrost = v.defrost /\ u.forced_defrost = v.forced_defrost
      /\ Advances(v, u, dt)
  BY <1>5, CompressorShape
<1>8. Advances(s, u, dt)
  BY <1>1, <1>2, <1>6, <1>7 DEF SameOrReleased, Advances
<1>9. CASE MustStop(s)
  <2>1. Final(u)
    BY <1>9, UpdatedOK
  <2> QED
    BY <1>1, <1>2, <1>6, <1>7, <1>8, <1>9, <2>1 DEF SafetyStopped, MustStop
<1>10. CASE ~MustStop(s)
  BY <1>1, <1>2, <1>6, <1>7, <1>8, <1>10 DEF SameOrReleased, defrost_active
<1> QED
  BY <1>9, <1>10

\* 1999=0 ends the forced defrost and takes the level.
ForcedStopped(s, t) ==
  /\ t.accepted_level = 0 /\ t.requested_level = 0
  /\ s.forced_defrost /\ ~t.forced_defrost /\ t.aborted = s.aborted + 1

\* A write of a level leaves the compressor alone, and a level it holds.
LEMMA LevelWriteShape ==
  ASSUME OduInv, NEW value \in Level, write_1999(value)
  PROVE  /\ odu'.active_mode = odu.active_mode
         /\ odu'.measured = odu.measured /\ odu'.start_timer = odu.start_timer
         /\ \/ odu'.accepted_level = odu.accepted_level
            \/ ForcedStopped(odu, odu') \/ ~Holds(odu)
<1> DEFINE forced_stop == value = 0 /\ odu.forced_defrost
           s == IF forced_stop THEN abort_forced_defrost(odu) ELSE odu
           accepted == AcceptedLevel(value)
<1>1. /\ OduOK(s) /\ s.active_mode = odu.active_mode
      /\ s.measured = odu.measured /\ s.start_timer = odu.start_timer
      /\ forced_stop => ~s.forced_defrost /\ s.aborted = odu.aborted + 1
  BY AbortOK, AbortShape DEF SameOrReleased, OduInv
<1>2. forced_stop => accepted = 0 /\ value = 0 /\ odu.forced_defrost
  BY OduAssumption DEF AcceptedLevel, Lesser
<1>3. ~forced_stop => s = odu
  OBVIOUS
<1>4. odu' = IF ~forced_stop /\ Holds(s)
             THEN [s EXCEPT !.requested_level = value, !.deferred_level = accepted,
                            !.deferred_pending = TRUE]
             ELSE [s EXCEPT !.requested_level = value, !.accepted_level = accepted]
  BY DEF write_1999
<1> HIDE DEF s, accepted, forced_stop
<1>5. s \in Odu
  BY <1>1 DEF OduOK
<1>6. CASE ~forced_stop /\ Holds(s)
  BY <1>1, <1>3, <1>4, <1>5, <1>6 DEF Odu
<1>7. CASE forced_stop \/ ~Holds(s)
  <2>1. odu' = [s EXCEPT !.requested_level = value, !.accepted_level = accepted]
    BY <1>4, <1>7
  <2>2. /\ odu'.active_mode = s.active_mode /\ odu'.measured = s.measured
        /\ odu'.start_timer = s.start_timer /\ odu'.aborted = s.aborted
        /\ odu'.forced_defrost = s.forced_defrost
        /\ odu'.accepted_level = accepted /\ odu'.requested_level = value
    BY <1>5, <2>1 DEF Odu
  <2> QED
    BY <1>1, <1>2, <1>3, <1>7, <2>2 DEF ForcedStopped
<1> QED
  BY <1>6, <1>7

LEMMA ModeWriteShape ==
  ASSUME OduInv, NEW mode \in WorkingMode, write_working_mode(mode)
  PROVE  SameOrReleased(odu, odu')
<1> DEFINE a == abort_forced_defrost(odu)
<1>1. a \in Odu /\ SameOrReleased(odu, a)
  BY AbortOK, AbortShape DEF OduOK, OduInv
<1>2. odu' = [a EXCEPT !.requested_mode = mode]
  BY DEF write_working_mode
<1> HIDE DEF a
<1>3. /\ odu'.active_mode = a.active_mode /\ odu'.accepted_level = a.accepted_level
      /\ odu'.measured = a.measured /\ odu'.start_timer = a.start_timer
      /\ odu'.defrost = a.defrost /\ odu'.forced_defrost = a.forced_defrost
  BY <1>1, <1>2 DEF Odu
<1> QED
  BY <1>1, <1>3 DEF SameOrReleased, defrost_active

\* What comes between updates leaves the compressor alone, and takes a level in a
\* defrost only if nothing holds it, or by 1999=0.
LEMMA BetweenShape ==
  ASSUME OduInv, Between \/ UNCHANGED vars
  PROVE  /\ odu'.active_mode = odu.active_mode
         /\ odu'.measured = odu.measured /\ odu'.start_timer = odu.start_timer
         /\ \/ odu'.accepted_level = odu.accepted_level
            \/ ForcedStopped(odu, odu')
            \/ ~defrost_active(odu') \/ ~Holds(odu)
<1>1. OduOK(odu) /\ odu \in Odu
  BY DEF OduInv, OduOK
<1>2. ASSUME NEW on \in BOOLEAN, set_defrost(on)
      PROVE  SameOrReleased(odu, odu')
  <2> DEFINE t == [odu EXCEPT !.defrost = on]
  <2>1. t \in Odu
    BY <1>1 DEF Odu
  <2>2. SameOrReleased(t, update_deferred_defrost_level(t))
    BY <2>1, DeferredShape
  <2>3. /\ t.active_mode = odu.active_mode /\ t.accepted_level = odu.accepted_level
        /\ t.measured = odu.measured /\ t.start_timer = odu.start_timer
    BY <1>1 DEF Odu
  <2>4. odu' = update_deferred_defrost_level(t)
    BY <1>2 DEF set_defrost
  <2> HIDE DEF t
  <2> QED
    BY <2>2, <2>3, <2>4 DEF SameOrReleased
<1>3. ASSUME NEW value \in Request, write_1999(value)
      PROVE  value \in Level
  BY OduAssumption
<1>4. CASE write_forced_defrost
  BY <1>1, <1>4 DEF write_forced_defrost, Odu
<1>5. ASSUME NEW on \in BOOLEAN, NEW mode \in RunningMode,
             \/ write_2010(on) \/ write_table(mode, on)
             \/ set_communication_fault(on) \/ set_other_fault(on)
      PROVE  /\ odu'.active_mode = odu.active_mode /\ odu'.accepted_level = odu.accepted_level
             /\ odu'.measured = odu.measured /\ odu'.start_timer = odu.start_timer
  BY <1>1, <1>5 DEF write_2010, write_table, set_communication_fault, set_other_fault, Odu
<1>6. ASSUME NEW switch, NEW on, set_switch(switch, on) PROVE odu' = odu
  BY <1>6 DEF set_switch
<1>7. CASE UNCHANGED vars
  BY <1>7 DEF vars
<1>8. COOLING \in RunningMode /\ Table \subseteq RunningMode
  BY OduAssumption DEF RunningMode
<1> QED
  BY LevelWriteShape, ModeWriteShape, <1>2, <1>3, <1>4, <1>5, <1>6, <1>7, <1>8
     DEF Between, ControllerNext, InterfaceNext, SameOrReleased

\* A level that is held stays as it is until the last defrost ends, or one of the
\* two stops takes it.
THEOREM HeldLevelIsFrozen == Spec => FrozenDuringDefrost
<1>1. OduInv /\ [Next]_vars =>
        [/\ defrost_active(odu) /\ defrost_active(odu')
         /\ ui["hold_level"] /\ ui'["hold_level"]
         /\ odu'.accepted_level # odu.accepted_level
         => /\ odu'.accepted_level = 0 /\ odu'.requested_level = 0
            /\ \/ odu.communication_fault /\ odu'.requested_mode = STANDBY /\ ~odu'.deferred_pending
               \/ odu.forced_defrost /\ ~odu'.forced_defrost /\ odu'.aborted = odu.aborted + 1]_vars
  <2> SUFFICES ASSUME OduInv, [Next]_vars,
                      defrost_active(odu), defrost_active(odu'), ui["hold_level"],
                      odu'.accepted_level # odu.accepted_level
               PROVE  SafetyStopped(odu, odu') \/ ForcedStopped(odu, odu')
    BY DEF defrost_active, SafetyStopped, ForcedStopped, Final
  <2>1. ASSUME NEW dt \in Dt, update(dt)
        PROVE  SafetyStopped(odu, odu')
    BY <2>1, UpdatedShape DEF OduInv, update
  <2>2. Holds(odu)
    BY DEF Holds
  <2>3. ASSUME NEW enabled \in BOOLEAN, configure(enabled)
        PROVE  FALSE
    BY <2>3 DEF configure, ConfiguredOdu, defrost_active
  <2>4. CASE Between \/ UNCHANGED vars
    BY <2>2, <2>4, BetweenShape
  <2> QED
    BY <2>1, <2>3, <2>4 DEF Next
<1> QED
  BY <1>1, OduAlways, PTL DEF Spec, FrozenDuringDefrost

------------------------------------------------------------------------------
(* The compressor rests before it turns the other way: CompressorRest.     *)

\* In standby it stands still, for at least as long as the start timer says; in a
\* mode it last turned that way, or had rested.
Rested ==
  /\ turned \in [way : WorkingMode, rest : 0 .. START_DELAY]
  /\ odu.active_mode = STANDBY => odu.measured = 0 /\ odu.start_timer <= turned.rest
  /\ turned.way \notin {STANDBY, odu.active_mode} /\ odu.active_mode # STANDBY =>
       turned.rest >= START_DELAY

LEMMA RestedUpdate ==
  ASSUME OduInv, Rested, NEW dt \in Dt, update(dt), turned' = Turned(dt)
  PROVE  Rested'
<1>1. /\ dt \in Nat /\ dt > 0 /\ START_DELAY \in Nat
      /\ odu.active_mode \in WorkingMode /\ odu.measured \in Nat /\ odu.start_timer \in Nat
  BY OduAssumption DEF OduInv, OduOK, Odu
<1>2. Advances(odu, odu', dt)
  BY UpdatedShape DEF OduInv, update
<1>3. odu'.active_mode \in WorkingMode /\ odu'.start_timer \in Nat
  BY UpdateKeeps DEF OduInv, OduOK, Odu
<1>4. turned.way \in WorkingMode /\ turned.rest \in 0 .. START_DELAY
  BY DEF Rested
<1>5. CASE Turning
  <2>1. turned' = [way |-> odu.active_mode, rest |-> 0]
    BY <1>5 DEF Turned
  <2>2. odu'.active_mode = odu.active_mode
    BY <1>1, <1>2, <1>5 DEF Advances, Turning
  <2> QED
    BY <1>1, <1>5, <2>1, <2>2 DEF Rested, Turning
<1>6. CASE Resting
  <2> DEFINE rest == Lesser(turned.rest + dt, START_DELAY)
  <2>1. turned' = [turned EXCEPT !.rest = rest]
    BY <1>6 DEF Turned, Turning, Resting
  <2>2. rest \in 0 .. START_DELAY
    BY <1>1, <1>4 DEF Lesser
  <2>3. turned' \in [way : WorkingMode, rest : 0 .. START_DELAY] /\ turned'.rest = rest
    <3> HIDE DEF rest
    <3> QED
      BY <2>1, <2>2 DEF Rested
  <2>4. odu.start_timer <= turned.rest /\ odu.measured = 0 /\ odu.active_mode = STANDBY
    BY <1>6 DEF Rested, Resting
  <2>5. CASE odu'.active_mode = STANDBY
    <3>1. odu'.measured = 0 /\ odu'.start_timer <= Lesser(odu.start_timer + dt, START_DELAY)
      BY <1>2, <2>4, <2>5 DEF Advances
    <3>2. odu'.start_timer <= rest
      BY <1>1, <1>3, <1>4, <2>4, <3>1 DEF Lesser
    <3> QED
      BY <2>3, <2>5, <3>1, <3>2 DEF Rested
  <2>6. CASE odu'.active_mode # STANDBY
    <3>1. odu.start_timer + dt >= START_DELAY
      BY <1>2, <2>4, <2>6 DEF Advances
    <3>2. rest >= START_DELAY
      BY <1>1, <1>4, <2>4, <3>1 DEF Lesser
    <3> QED
      BY <2>3, <2>6, <3>2 DEF Rested
  <2> QED
    BY <2>5, <2>6
<1>7. CASE ~Turning /\ ~Resting
  <2>1. turned' = turned /\ odu.active_mode # STANDBY /\ odu.measured = 0
    BY <1>1, <1>7 DEF Turned, Turning, Resting, Rested
  <2>2. CASE odu'.active_mode = odu.active_mode
    BY <2>1, <2>2 DEF Rested
  <2>3. CASE odu'.active_mode # odu.active_mode
    <3>1. odu'.active_mode = STANDBY /\ odu'.start_timer = 0 /\ odu'.measured = 0
      BY <1>2, <2>1, <2>3 DEF Advances
    <3> QED
      BY <1>4, <2>1, <3>1 DEF Rested
  <2> QED
    BY <2>2, <2>3
<1> QED
  BY <1>5, <1>6, <1>7

LEMMA RestedStep ==
  ASSUME OduInv, Rested, [RestNext]_rest_vars
  PROVE  Rested'
<1>1. CASE (Between \/ UNCHANGED vars) /\ UNCHANGED turned
  BY <1>1, BetweenShape DEF Rested
<1>2. CASE (\E enabled \in BOOLEAN : configure(enabled)) /\ turned' = Never
  <2>1. odu'.active_mode = STANDBY /\ odu'.measured = 0 /\ odu'.start_timer = 0
    BY <1>2 DEF configure, ConfiguredOdu
  <2> QED
    BY <1>2, <2>1, OduAssumption DEF Rested, Never, WorkingMode
<1>3. ASSUME NEW dt \in Dt, update(dt), turned' = Turned(dt) PROVE Rested'
  BY <1>3, RestedUpdate
<1> QED
  BY <1>1, <1>2, <1>3 DEF RestNext, rest_vars

\* Whatever is written, faults, defrosts or freezes meanwhile: a compressor that
\* turned in one mode turns in the other only after it stood still in standby for
\* the whole start delay, for every ramp, every table and all delays.
THEOREM RestBeforeReversal == RestSpec => []RestsBeforeReversal
<1>1. RestInit => Init /\ Rested
  BY OduAssumption DEF RestInit, Init, ConfiguredOdu, Never, Rested, WorkingMode
<1>2. [RestNext]_rest_vars => [Next]_vars
  BY DEF RestNext, Next, rest_vars
<1>3. RestSpec => Spec
  BY <1>1, <1>2, PTL DEF RestSpec, Spec
<1>4. OduInv /\ Rested /\ [RestNext]_rest_vars => Rested'
  BY RestedStep
<1>5. Rested => RestsBeforeReversal
  BY DEF Rested, RestsBeforeReversal, Turning
<1> QED
  BY <1>1, <1>3, <1>4, <1>5, OduAlways, PTL DEF RestSpec
------------------------------------------------------------------------------
(* The unit with its watchdog, CommunicationLoss.                          *)

\* What a unit has heard: the watchdog has counted all of the silence, as far as
\* it counts, or it has tripped.
Heard == silence <= counter + elapsed \/ (timed_out /\ counter = LIMIT)

LossInv ==
  /\ OduInv
  /\ elapsed \in Nat /\ counter \in 0 .. LIMIT /\ silence \in Nat
  /\ timed_out \in BOOLEAN /\ injected \in BOOLEAN
  /\ odu.enabled => Heard

\* A watchdog that has not tripped was fed within the limit.
LEMMA QuietIsHeard ==
  ASSUME LossInv, odu.enabled, ~Verdict
  PROVE  silence <= LIMIT
<1>1. LIMIT \in Nat
  BY LossAssumption
<1> QED
  BY <1>1 DEF LossInv, Heard, Verdict

LEMMA VerdictType ==
  ASSUME timed_out \in BOOLEAN
  PROVE  Verdict \in BOOLEAN
<1>1. CASE elapsed = 0
  BY <1>1, Zenon DEF Verdict
<1>2. CASE elapsed # 0
  <2>1. Verdict = (elapsed > LIMIT - counter)
    BY <1>2, Zenon DEF Verdict
  <2>2. (elapsed > LIMIT - counter) \in BOOLEAN
    OBVIOUS
  <2> QED
    BY <2>1, <2>2, Zenon
<1> QED
  BY <1>1, <1>2

LEMMA AdvanceKeepsHeard ==
  ASSUME LossInv, NEW fed \in BOOLEAN, Advance(fed), silence' = IF fed THEN 0 ELSE silence
  PROVE  /\ elapsed' \in Nat /\ counter' \in 0 .. LIMIT /\ silence' \in Nat
         /\ timed_out' \in BOOLEAN
         /\ odu.enabled => Heard'
<1>1. LIMIT \in Nat
  BY LossAssumption
<1>2. CASE ~odu.enabled
  BY <1>1, <1>2 DEF Advance, watchdog, LossInv
<1>3. CASE odu.enabled
  <2>1. /\ timed_out' = Verdict /\ elapsed' = 0
        /\ counter' = IF fed THEN 0 ELSE counter + Lesser(elapsed, LIMIT - counter)
    BY <1>3 DEF Advance
  <2>2. /\ elapsed \in Nat /\ counter \in 0 .. LIMIT /\ silence \in Nat
        /\ timed_out \in BOOLEAN /\ Heard
    BY <1>3 DEF LossInv
  <2>3. Verdict \in BOOLEAN
    BY <2>2, VerdictType
  <2>4. CASE fed
    BY <1>1, <2>1, <2>2, <2>3, <2>4 DEF Heard
  <2>5. CASE ~fed /\ elapsed <= LIMIT - counter
    <3>1. counter' = counter + elapsed
      BY <1>1, <2>1, <2>2, <2>5 DEF Lesser
    <3>2. (timed_out /\ counter = LIMIT) => Verdict
      BY <1>1, <2>2, <2>5 DEF Verdict
    <3> QED
      BY <1>1, <2>1, <2>2, <2>3, <2>5, <3>1, <3>2 DEF Heard
  <2>6. CASE ~fed /\ elapsed > LIMIT - counter
    <3>1. counter' = LIMIT /\ Verdict
      BY <1>1, <2>1, <2>2, <2>6 DEF Lesser, Verdict
    <3> QED
      BY <1>1, <2>1, <2>2, <2>3, <2>6, <3>1 DEF Heard
  <2> QED
    BY <1>1, <2>2, <2>4, <2>5, <2>6
<1> QED
  BY <1>2, <1>3

\* The watchdog touches nothing of the unit but its fault.
LEMMA SyncedShape ==
  ASSUME OduInv, NEW tripped \in BOOLEAN, NEW by_user \in BOOLEAN
  PROVE  /\ OduOK(Synced(tripped, by_user))
         /\ Final(odu) => Final(Synced(tripped, by_user))
         /\ Synced(tripped, by_user).active_mode = odu.active_mode
         /\ Synced(tripped, by_user).enabled = odu.enabled
         /\ Synced(tripped, by_user).communication_fault = (tripped \/ by_user)
<1> DEFINE fault == tripped \/ by_user
           t == Synced(tripped, by_user)
<1>1. fault \in BOOLEAN /\ t = [odu EXCEPT !.communication_fault = fault]
  BY DEF Synced
<1>2. OduOK(odu) /\ odu \in Odu
  BY DEF OduInv, OduOK
<1> HIDE DEF t, fault
<1>3. t \in Odu
  BY <1>1, <1>2 DEF Odu
<1>4. /\ t.forced_defrost = odu.forced_defrost /\ t.forced_remaining = odu.forced_remaining
      /\ t.started = odu.started /\ t.completed = odu.completed /\ t.aborted = odu.aborted
      /\ t.deferred_pending = odu.deferred_pending /\ t.defrost = odu.defrost
      /\ t.accepted_level = odu.accepted_level /\ t.requested_level = odu.requested_level
      /\ t.active_mode = odu.active_mode /\ t.enabled = odu.enabled
      /\ t.communication_fault = fault
  BY <1>1, <1>2 DEF Odu
<1>5. OduOK(t) /\ (Final(odu) => Final(t))
  BY <1>2, <1>3, <1>4, OtherFieldOK
<1> QED
  BY <1>4, <1>5 DEF t, fault

LEMMA AdvancedShape ==
  ASSUME LossInv
  PROVE  /\ OduOK(Advanced) /\ (Final(odu) => Final(Advanced))
         /\ Advanced.active_mode = odu.active_mode /\ Advanced.enabled = odu.enabled
         /\ odu.enabled => Advanced.communication_fault = (Verdict \/ injected)
<1>1. OduInv /\ Verdict \in BOOLEAN /\ injected \in BOOLEAN
  BY VerdictType DEF LossInv
<1>2. CASE odu.enabled
  BY <1>1, <1>2, SyncedShape DEF Advanced
<1>3. CASE ~odu.enabled
  BY <1>1, <1>3 DEF Advanced, OduInv
<1> QED
  BY <1>2, <1>3

\* Without a request for a mode nothing starts.
LEMMA NoRequestNoStart ==
  ASSUME NEW s \in Odu, s.requested_mode = STANDBY, s.active_mode = STANDBY,
         NEW dt, NEW cap, NEW u, u = update_compressor(s, dt, cap)
  PROVE  u.active_mode = STANDBY
<1>1. ~Demand(s) /\ ~MayStart(s)
  BY DEF Demand, MayStart
<1>2. "active_mode" \in DOMAIN s
  BY DEF Odu
<1> QED
  BY <1>1, <1>2 DEF update_compressor

LEMMA FaultStartsNothing ==
  ASSUME NEW s, OduOK(s), s.communication_fault, s.active_mode = STANDBY,
         NEW dt \in Dt, NEW u \in Updated(s, dt)
  PROVE  u.active_mode = STANDBY
<1> DEFINE stopped == safety_stop(s)
           t == update_forced_defrost(stopped, dt)
<1>1. OduOK(stopped) /\ stopped.active_mode = STANDBY
  BY SafetyStopOK, SafetyShape
<1>2. stopped.requested_mode = STANDBY
  <2>1. CASE ~MustStop(s)
    BY <2>1 DEF MustStop, safety_stop
  <2>2. CASE MustStop(s)
    <3> DEFINE a == abort_forced_defrost(s)
    <3>1. a \in Odu
      BY AbortOK DEF OduOK
    <3>2. stopped = [a EXCEPT !.requested_mode = STANDBY, !.requested_level = 0,
                              !.accepted_level = 0, !.deferred_level = 0,
                              !.deferred_pending = FALSE]
      BY <2>2 DEF safety_stop
    <3> HIDE DEF a, stopped
    <3> QED
      BY <3>1, <3>2 DEF Odu
  <2> QED
    BY <2>1, <2>2
<1> HIDE DEF stopped
<1>3. OduOK(t) /\ t.active_mode = STANDBY /\ t.requested_mode = STANDBY
  BY <1>1, <1>2, ForcedDefrostOK, ForcedShape, RequestKept DEF SameOrReleased
<1>4. PICK flow \in FlowOutcomes(t), cap \in LimitedLevel :
        u = update_compressor([t EXCEPT !.flow_switch = flow], dt, cap)
  BY DEF Updated, stopped
<1> HIDE DEF t
<1> DEFINE v == [t EXCEPT !.flow_switch = flow]
<1>5. t \in Odu /\ flow \in BOOLEAN
  BY <1>3 DEF OduOK, FlowOutcomes
<1>6. v \in Odu /\ v.active_mode = STANDBY /\ v.requested_mode = STANDBY
  BY <1>3, <1>5 DEF Odu
<1>7. u = update_compressor(v, dt, cap)
  BY <1>4
<1> HIDE DEF v
<1> QED
  BY <1>6, <1>7, NoRequestNoStart

\* Every step of the composed model keeps the invariant, and starts the
\* compressor only for a controller that was heard.
Starts == odu.active_mode = STANDBY /\ odu'.active_mode # STANDBY

LEMMA WriteKeeps ==
  ASSUME OduInv, Write
  PROVE  OduInv' /\ odu'.active_mode = odu.active_mode /\ odu.enabled
<1>1. Request \subseteq Level
  BY OduAssumption
<1>2. ASSUME NEW value \in Request, write_1999(value)
      PROVE  OduInv' /\ odu'.active_mode = odu.active_mode /\ odu.enabled
  BY <1>1, <1>2, LevelWriteKeeps, LevelWriteShape DEF write_1999
<1>3. ASSUME NEW mode \in WorkingMode, write_working_mode(mode)
      PROVE  OduInv' /\ odu'.active_mode = odu.active_mode /\ odu.enabled
  BY <1>3, ModeWriteKeeps, ModeWriteShape DEF write_working_mode, SameOrReleased
<1>4. CASE write_forced_defrost
  <2>1. odu'.active_mode = odu.active_mode
    BY <1>4 DEF write_forced_defrost, OduInv, OduOK, Odu
  <2>2. OduInv' /\ odu.enabled
    BY <1>4, ForcedWriteKeeps DEF write_forced_defrost
  <2> QED
    BY <2>1, <2>2
<1> QED
  BY <1>2, <1>3, <1>4 DEF Write

LEMMA SimulatorUpdateKeeps ==
  ASSUME LossInv, SimulatorUpdate
  PROVE  OduInv' /\ (Starts => silence <= LIMIT)
<1>1. /\ OduOK(Advanced) /\ (Final(odu) => Final(Advanced))
      /\ Advanced.active_mode = odu.active_mode
      /\ odu.enabled => Advanced.communication_fault = (Verdict \/ injected)
  BY AdvancedShape
<1>2. OduInv /\ ui' = ui /\ (~commanded => Final(odu)) /\ commanded \in BOOLEAN
  BY DEF LossInv, OduInv, SimulatorUpdate
<1>3. CASE simulation_enabled /\ odu.enabled
  <2>1. PICK dt \in Dt : odu' \in Updated(Advanced, dt)
    BY <1>3 DEF SimulatorUpdate
  <2>2. commanded' = (commanded /\ ~MustStop(Advanced))
    BY <1>3 DEF SimulatorUpdate
  <2>3. OduOK(odu') /\ (MustStop(Advanced) \/ Final(Advanced) => Final(odu'))
    BY <1>1, <2>1, UpdatedOK
  <2>4. commanded' \in BOOLEAN /\ (~commanded' => Final(odu'))
    BY <1>1, <1>2, <2>2, <2>3, Zenon
  <2>5. OduInv'
    BY <1>2, <2>3, <2>4 DEF OduInv
  <2>6. ASSUME Starts PROVE silence <= LIMIT
    <3>1. ~Advanced.communication_fault
      BY <1>1, <2>1, <2>6, FaultStartsNothing DEF Starts
    <3>2. ~Verdict
      BY <1>1, <1>3, <3>1
    <3> QED
      BY <1>3, <3>2, QuietIsHeard
  <2> QED
    BY <2>5, <2>6
<1>4. CASE ~(simulation_enabled /\ odu.enabled)
  <2>1. odu' = Advanced /\ commanded' = commanded
    BY <1>4 DEF SimulatorUpdate
  <2> QED
    BY <1>1, <1>2, <2>1 DEF OduInv, Starts
<1> QED
  BY <1>3, <1>4

\* Only the fault of the unit has changed.
LEMMA SyncKeeps ==
  ASSUME OduInv, UNCHANGED <<ui, commanded>>,
         \/ odu' = odu
         \/ \E tripped \in BOOLEAN, by_user \in BOOLEAN : odu' = Synced(tripped, by_user)
  PROVE  /\ OduInv' /\ odu'.active_mode = odu.active_mode /\ odu'.enabled = odu.enabled
<1>1. CASE odu' = odu
  BY <1>1 DEF OduInv
<1>2. ASSUME NEW tripped \in BOOLEAN, NEW by_user \in BOOLEAN, odu' = Synced(tripped, by_user)
      PROVE  /\ OduInv' /\ odu'.active_mode = odu.active_mode /\ odu'.enabled = odu.enabled
  BY <1>2, SyncedShape DEF OduInv
<1> QED
  BY <1>1, <1>2

LEMMA LossStep ==
  ASSUME LossInv, [LossNext]_loss_vars
  PROVE  LossInv' /\ (Starts => silence <= LIMIT)
<1>0. /\ OduInv /\ elapsed \in Nat /\ counter \in 0 .. LIMIT /\ silence \in Nat
      /\ timed_out \in BOOLEAN /\ injected \in BOOLEAN /\ (odu.enabled => Heard)
      /\ Verdict \in BOOLEAN /\ LIMIT \in Nat
  BY VerdictType, LossAssumption DEF LossInv
<1>1. CASE Tick
  <2>1. OduInv' /\ odu' = odu
    BY <1>0, <1>1 DEF Tick, vars, OduInv
  <2>2. /\ elapsed' = (IF odu.enabled THEN elapsed + 1 ELSE 0)
        /\ silence' = More(silence) /\ counter' = counter
        /\ timed_out' = timed_out /\ injected' = injected
    BY <1>1 DEF Tick
  <2>3. silence' \in Nat /\ silence' <= silence + 1 /\ elapsed' \in Nat
    BY <1>0, <2>2 DEF More
  <2>4. odu.enabled => Heard'
    BY <1>0, <2>2, <2>3 DEF Heard
  <2> QED
    BY <1>0, <2>1, <2>2, <2>3, <2>4 DEF LossInv, Starts
<1>2. ASSUME NEW fed \in BOOLEAN, Advance(fed), odu' = Advanced, UNCHANGED <<ui, commanded, injected>>,
             silence' = IF fed THEN 0 ELSE silence
      PROVE  LossInv' /\ ~Starts
  <2>1. OduInv' /\ odu'.active_mode = odu.active_mode /\ odu'.enabled = odu.enabled
    BY <1>0, <1>2, SyncKeeps DEF Advanced
  <2>2. /\ elapsed' \in Nat /\ counter' \in 0 .. LIMIT /\ silence' \in Nat
        /\ timed_out' \in BOOLEAN /\ (odu.enabled => Heard')
    BY <1>2, AdvanceKeepsHeard
  <2> QED
    BY <1>0, <1>2, <2>1, <2>2 DEF LossInv, Starts
<1>3. CASE LoopAdvance
  BY <1>2, <1>3 DEF LoopAdvance
<1>4. CASE Receive
  BY <1>2, <1>4 DEF Receive
<1>5. ASSUME Write \/ UNCHANGED vars, UNCHANGED <<watchdog, injected, silence>>
      PROVE  LossInv' /\ ~Starts
  <2>1. /\ elapsed' = elapsed /\ counter' = counter /\ timed_out' = timed_out
        /\ injected' = injected /\ silence' = silence
    BY <1>5 DEF watchdog
  <2>2. OduInv' /\ odu'.active_mode = odu.active_mode /\ (odu'.enabled => odu.enabled)
    BY <1>0, <1>5, WriteKeeps DEF vars, OduInv
  <2> QED
    BY <1>0, <2>1, <2>2 DEF LossInv, Heard, Starts
<1>6. CASE ProcessRequest
  BY <1>5, <1>6 DEF ProcessRequest
<1>7. CASE ProcessBroadcast
  BY <1>5, <1>7 DEF ProcessBroadcast
<1>8. CASE SimulatorUpdate
  <2>1. OduInv' /\ (Starts => silence <= LIMIT)
    BY <1>8, SimulatorUpdateKeeps
  <2>2. Advance(FALSE) /\ silence' = silence /\ injected' = injected
    BY <1>8 DEF SimulatorUpdate
  <2>3. /\ elapsed' \in Nat /\ counter' \in 0 .. LIMIT /\ silence' \in Nat
        /\ timed_out' \in BOOLEAN /\ (odu.enabled => Heard')
    BY <2>2, AdvanceKeepsHeard
  <2>4. ~odu.enabled => odu' = odu
    BY <1>8 DEF SimulatorUpdate, Advanced
  <2> QED
    BY <1>0, <2>1, <2>2, <2>3, <2>4 DEF LossInv
<1>9. CASE Setting
  <2>1. OduInv' /\ odu' = odu
    BY <1>0, <1>9, SwitchKeeps DEF Setting, set_switch
  <2> QED
    BY <1>0, <1>9, <2>1 DEF LossInv, Heard, Setting, watchdog, Starts
<1>10. CASE \E on \in BOOLEAN : set_simulation_enabled(on)
  BY <1>0, <1>5, <1>10 DEF set_simulation_enabled
<1>11. ASSUME NEW on \in BOOLEAN, inject_communication_fault(on)
       PROVE  LossInv' /\ ~Starts
  <2>1. OduInv' /\ odu'.active_mode = odu.active_mode /\ odu'.enabled = odu.enabled
    BY <1>0, <1>11, SyncKeeps DEF inject_communication_fault
  <2>2. /\ elapsed' = elapsed /\ counter' = counter /\ timed_out' = timed_out
        /\ injected' = on /\ silence' = silence
    BY <1>11 DEF inject_communication_fault, watchdog
  <2> QED
    BY <1>0, <2>1, <2>2 DEF LossInv, Heard, Starts
<1>12. ASSUME NEW on \in BOOLEAN, Configure(on)
       PROVE  LossInv' /\ ~Starts
  <2>1. OduInv' /\ odu'.active_mode = STANDBY
    BY <1>0, <1>12, ConfigureKeeps DEF Configure, configure, ConfiguredOdu
  <2>2. /\ elapsed' = 0 /\ counter' = 0 /\ timed_out' = FALSE /\ injected' = FALSE /\ silence' = 0
    BY <1>12 DEF Configure
  <2>3. timed_out' \in BOOLEAN /\ injected' \in BOOLEAN
    BY <2>2, Zenon
  <2>4. elapsed' \in Nat /\ counter' \in 0 .. LIMIT /\ silence' \in Nat /\ Heard'
    BY <1>0, <2>2 DEF Heard
  <2> QED
    BY <2>1, <2>3, <2>4 DEF LossInv, Starts
<1>13. CASE UNCHANGED loss_vars
  BY <1>5, <1>13 DEF loss_vars
<1> QED
  BY <1>1, <1>3, <1>4, <1>6, <1>7, <1>8, <1>9, <1>10, <1>11, <1>12, <1>13 DEF LossNext

\* The invariants of the unit hold in its composition with the watchdog, and the
\* watchdog has counted what it did not trip for.
THEOREM LossInvariant == LossSpec => []LossInv
<1>1. LossInit => LossInv
  <2> SUFFICES ASSUME LossInit PROVE LossInv
    OBVIOUS
  <2>1. OduOK(ConfiguredOdu(TRUE)) /\ Final(ConfiguredOdu(TRUE))
    BY ConfiguredOK
  <2>2. ui \in [AllSwitches -> BOOLEAN]
    <3>1. \A w : (w \in {"hold_level", "external_flow"}) \in BOOLEAN
      OBVIOUS
    <3> QED
      BY <3>1, Zenon DEF LossInit
  <2>3. OduInv
    BY <2>1, <2>2 DEF LossInit, OduInv
  <2>4. timed_out \in BOOLEAN /\ injected \in BOOLEAN
    BY Zenon DEF LossInit
  <2>5. elapsed \in Nat /\ counter \in 0 .. LIMIT /\ silence \in Nat /\ Heard
    BY LossAssumption DEF LossInit, Heard
  <2> QED
    BY <2>3, <2>4, <2>5 DEF LossInv
<1>2. LossInv /\ [LossNext]_loss_vars => LossInv'
  BY LossStep
<1> QED
  BY <1>1, <1>2, PTL DEF LossSpec

\* However late the loop looks at the watchdog, whatever broadcasts write and
\* however long the simulation was switched off: a compressor starts only within
\* LIMIT ticks of a request for its unit.
THEOREM StartsAreHeard == LossSpec => StartsOnlyWhenSpokenTo
<1>1. LossInv /\ [LossNext]_loss_vars =>
        [odu.active_mode = STANDBY /\ odu'.active_mode # STANDBY => silence <= LIMIT]_loss_vars
  BY LossStep DEF Starts
<1> QED
  BY <1>1, LossInvariant, PTL DEF LossSpec, StartsOnlyWhenSpokenTo

------------------------------------------------------------------------------
(* CommunicationLoss implements TickWatchdog: nothing but the watchdog, the *)
(* injection and a new configuration moves its bit in the unit.             *)

Untouched(s, t) == t.enabled = s.enabled /\ t.communication_fault = s.communication_fault

LEMMA DefrostEndsUntouched ==
  ASSUME NEW s, OduOK(s)
  PROVE  /\ Untouched(s, abort_forced_defrost(s))
         /\ \A dt \in Dt : Untouched(s, update_forced_defrost(s, dt))
<1>1. ASSUME NEW t \in Odu PROVE Untouched(t, update_deferred_defrost_level(t))
  BY DEF update_deferred_defrost_level, Untouched, Odu
<1>2. s \in Odu
  BY DEF OduOK
<1>3. ASSUME s.forced_defrost, NEW t,
             \/ t = [s EXCEPT !.forced_defrost = FALSE, !.forced_remaining = 0, !.aborted = @ + 1]
             \/ t = [s EXCEPT !.forced_defrost = FALSE, !.forced_remaining = 0,
                              !.completed = @ + 1]
      PROVE  Untouched(s, update_deferred_defrost_level(t))
  <2>1. t \in Odu
    BY <1>3, CycleEndsOK
  <2>2. Untouched(s, t)
    BY <1>2, <1>3 DEF Untouched, Odu
  <2> QED
    BY <1>1, <2>1, <2>2 DEF Untouched
<1>4. Untouched(s, abort_forced_defrost(s))
  BY <1>3 DEF abort_forced_defrost, Untouched
<1>5. ASSUME NEW dt \in Dt PROVE Untouched(s, update_forced_defrost(s, dt))
  <2>1. Untouched(s, [s EXCEPT !.forced_remaining = @ - dt])
    BY <1>2 DEF Untouched, Odu
  <2>2. Untouched(s, s)
    BY DEF Untouched
  <2> QED
    BY <1>3, <1>4, <2>1, <2>2 DEF update_forced_defrost
<1> QED
  BY <1>4, <1>5

LEMMA UpdateUntouched ==
  ASSUME NEW s, OduOK(s), NEW dt \in Dt, NEW u \in Updated(s, dt)
  PROVE  Untouched(s, u)
<1> DEFINE stopped == safety_stop(s)
           t == update_forced_defrost(stopped, dt)
<1>1. OduOK(stopped)
  BY SafetyStopOK
<1>2. Untouched(s, stopped)
  <2>1. CASE ~MustStop(s)
    BY <2>1 DEF safety_stop, Untouched
  <2>2. CASE MustStop(s)
    <3> DEFINE a == abort_forced_defrost(s)
    <3>1. a \in Odu
      BY AbortOK DEF OduOK
    <3>2. stopped = [a EXCEPT !.requested_mode = STANDBY, !.requested_level = 0,
                              !.accepted_level = 0, !.deferred_level = 0,
                              !.deferred_pending = FALSE]
      BY <2>2 DEF safety_stop
    <3>3. Untouched(s, a)
      BY DefrostEndsUntouched
    <3> HIDE DEF a, stopped
    <3> QED
      BY <3>1, <3>2, <3>3 DEF Odu, Untouched
  <2> QED
    BY <2>1, <2>2
<1> HIDE DEF stopped
<1>3. OduOK(t) /\ Untouched(stopped, t)
  BY <1>1, ForcedDefrostOK, DefrostEndsUntouched
<1>4. PICK flow \in FlowOutcomes(t), cap \in LimitedLevel :
        u = update_compressor([t EXCEPT !.flow_switch = flow], dt, cap)
  BY DEF Updated, stopped
<1> HIDE DEF t
<1> DEFINE v == [t EXCEPT !.flow_switch = flow]
<1>5. t \in Odu /\ flow \in BOOLEAN
  BY <1>3 DEF OduOK, FlowOutcomes
<1>6. v \in Odu /\ Untouched(t, v)
  BY <1>5 DEF Odu, Untouched
<1>7. u = update_compressor(v, dt, cap)
  BY <1>4
<1> HIDE DEF v
<1>8. Untouched(v, u)
  BY <1>6, <1>7 DEF update_compressor, Odu, Untouched
<1> QED
  BY <1>2, <1>3, <1>6, <1>8 DEF Untouched

LEMMA WriteUntouched ==
  ASSUME OduInv, Write
  PROVE  Untouched(odu, odu')
<1>1. OduOK(odu) /\ odu \in Odu
  BY DEF OduInv, OduOK
<1> DEFINE a == abort_forced_defrost(odu)
<1>2. a \in Odu /\ Untouched(odu, a)
  BY <1>1, AbortOK, DefrostEndsUntouched DEF OduOK
<1>3. ASSUME NEW value \in Request, write_1999(value)
      PROVE  Untouched(odu, odu')
  <2> DEFINE accepted == AcceptedLevel(value)
  <2>1. \/ odu' = [odu EXCEPT !.requested_level = value, !.deferred_level = accepted,
                              !.deferred_pending = TRUE]
        \/ odu' = [odu EXCEPT !.requested_level = value, !.accepted_level = accepted]
        \/ odu' = [a EXCEPT !.requested_level = value, !.accepted_level = accepted]
    BY <1>3 DEF write_1999
  <2> HIDE DEF a, accepted
  <2> QED
    BY <1>1, <1>2, <2>1 DEF Odu, Untouched
<1>4. ASSUME NEW mode \in WorkingMode, write_working_mode(mode)
      PROVE  Untouched(odu, odu')
  <2>1. odu' = [a EXCEPT !.requested_mode = mode]
    BY <1>4 DEF write_working_mode
  <2> HIDE DEF a
  <2> QED
    BY <1>2, <2>1 DEF Odu, Untouched
<1>5. CASE write_forced_defrost
  BY <1>1, <1>5 DEF write_forced_defrost, Odu, Untouched
<1> QED
  BY <1>3, <1>4, <1>5 DEF Write

\* A unit without a profile counts no ticks.
OffIsStill == ~odu.enabled => elapsed = 0

TickedStep == [Ticked!Next]_(Ticked!tick_vars)

\* Any step of the unit that leaves the watchdog alone is none of the watchdog's.
LEMMA UnitIsNoTick ==
  ASSUME OffIsStill, UNCHANGED <<watchdog, injected>>, Untouched(odu, odu')
  PROVE  OffIsStill' /\ TickedStep
  BY DEF OffIsStill, Untouched, watchdog, TickedStep, Ticked!tick_vars

\* The unit may update right after its watchdog was advanced.
LEMMA AdvanceIsTick ==
  ASSUME LossInv, OffIsStill, NEW fed \in BOOLEAN, Advance(fed), injected' = injected,
         Untouched(Advanced, odu')
  PROVE  OffIsStill' /\ TickedStep
<1>1. /\ Advanced.enabled = odu.enabled
      /\ odu.enabled => Advanced.communication_fault = (Verdict \/ injected)
  BY AdvancedShape
<1>2. CASE ~odu.enabled
  <2>1. Advanced = odu
    BY <1>2 DEF Advanced
  <2>2. UNCHANGED <<watchdog, injected>>
    BY <1>2 DEF Advance
  <2> QED
    BY <2>1, <2>2, UnitIsNoTick
<1>3. CASE odu.enabled
  <2>1. /\ timed_out' = Verdict /\ elapsed' = 0
        /\ counter' = IF fed THEN 0 ELSE counter + Lesser(elapsed, LIMIT - counter)
    BY <1>3 DEF Advance
  <2>2. elapsed \in Nat /\ counter \in 0 .. LIMIT /\ LIMIT \in Nat
    BY LossAssumption DEF LossInv
  <2>3. Verdict = Ticked!Verdict
    BY DEF Verdict, Ticked!Verdict, Ticked!TooMany
  <2>4. counter' = IF fed THEN 0 ELSE IF Ticked!TooMany THEN LIMIT ELSE counter + elapsed
    BY <2>1, <2>2 DEF Lesser, Ticked!TooMany
  <2>5. odu'.enabled = odu.enabled /\ odu'.communication_fault = (Verdict \/ injected)
    BY <1>1, <1>3 DEF Untouched
  <2>6. Ticked!Look(fed)
    BY <1>3, <2>1, <2>3, <2>4, <2>5 DEF Ticked!Look
  <2> QED
    BY <1>3, <2>5, <2>6 DEF OffIsStill, TickedStep, Ticked!Next
<1> QED
  BY <1>2, <1>3

LEMMA LossIsTick ==
  ASSUME LossInv, OffIsStill, [LossNext]_loss_vars
  PROVE  OffIsStill' /\ TickedStep
<1>0. /\ OduInv /\ OduOK(odu) /\ odu \in Odu /\ elapsed \in Nat
      /\ timed_out \in BOOLEAN /\ injected \in BOOLEAN
  BY DEF LossInv, OduInv, OduOK
<1>1. CASE Tick
  <2>1. /\ elapsed' = (IF odu.enabled THEN elapsed + 1 ELSE 0) /\ odu' = odu
        /\ counter' = counter /\ timed_out' = timed_out /\ injected' = injected
    BY <1>1 DEF Tick, vars
  <2>2. CASE odu.enabled
    <3>1. Ticked!Pass
      BY <1>0, <2>1, <2>2 DEF Ticked!Pass
    <3> QED
      BY <2>1, <2>2, <3>1 DEF OffIsStill, TickedStep, Ticked!Next
  <2>3. CASE ~odu.enabled
    BY <2>1, <2>3 DEF OffIsStill, TickedStep, Ticked!tick_vars
  <2> QED
    BY <2>2, <2>3
<1>2. Untouched(Advanced, Advanced)
  BY DEF Untouched
<1>3. CASE LoopAdvance
  BY <1>2, <1>3, AdvanceIsTick DEF LoopAdvance
<1>4. CASE Receive
  BY <1>2, <1>4, AdvanceIsTick DEF Receive
<1>5. ASSUME Write \/ UNCHANGED vars, UNCHANGED <<watchdog, injected>>
      PROVE  OffIsStill' /\ TickedStep
  <2>1. Untouched(odu, odu')
    BY <1>0, <1>5, WriteUntouched DEF vars, Untouched
  <2> QED
    BY <1>5, <2>1, UnitIsNoTick
<1>6. CASE ProcessRequest
  BY <1>5, <1>6 DEF ProcessRequest
<1>7. CASE ProcessBroadcast
  BY <1>5, <1>7 DEF ProcessBroadcast
<1>8. CASE SimulatorUpdate
  <2>1. OduOK(Advanced)
    BY AdvancedShape
  <2>2. Untouched(Advanced, odu')
    BY <1>2, <1>8, <2>1, UpdateUntouched DEF SimulatorUpdate
  <2> QED
    BY <1>8, <2>2, AdvanceIsTick DEF SimulatorUpdate
<1>9. CASE Setting
  <2>1. odu' = odu /\ UNCHANGED <<watchdog, injected>>
    BY <1>9 DEF Setting, set_switch
  <2> QED
    BY <2>1, UnitIsNoTick DEF Untouched
<1>10. CASE \E on \in BOOLEAN : set_simulation_enabled(on)
  BY <1>5, <1>10 DEF set_simulation_enabled
<1>11. ASSUME NEW on \in BOOLEAN, inject_communication_fault(on)
       PROVE  OffIsStill' /\ TickedStep
  <2>1. odu' = Synced(timed_out, on) /\ injected' = on /\ UNCHANGED watchdog
    BY <1>11 DEF inject_communication_fault
  <2>2. odu'.enabled = odu.enabled /\ odu'.communication_fault = (timed_out \/ on)
    BY <1>0, <2>1, SyncedShape
  <2>3. Ticked!set_fault_word(on)
    BY <2>1, <2>2 DEF Ticked!set_fault_word, watchdog
  <2> QED
    BY <2>1, <2>2, <2>3 DEF OffIsStill, TickedStep, Ticked!Next, watchdog
<1>12. ASSUME NEW on \in BOOLEAN, Configure(on)
       PROVE  OffIsStill' /\ TickedStep
  <2>1. /\ odu'.enabled = on /\ odu'.communication_fault = FALSE /\ elapsed' = 0
        /\ counter' = 0 /\ timed_out' = FALSE /\ injected' = FALSE
    BY <1>12 DEF Configure, configure, ConfiguredOdu
  <2>2. Ticked!configure
    BY <2>1 DEF Ticked!configure
  <2> QED
    BY <2>1, <2>2 DEF OffIsStill, TickedStep, Ticked!Next
<1>13. CASE UNCHANGED loss_vars
  BY <1>5, <1>13 DEF loss_vars
<1> QED
  BY <1>1, <1>3, <1>4, <1>6, <1>7, <1>8, <1>9, <1>10, <1>11, <1>12, <1>13 DEF LossNext

\* The watchdog beside the unit is the one CommunicationWatchdog implements: of
\* all that happens to the unit, only its watchdog, the injected fault and a new
\* configuration move the fault, and they move it as they do there.
THEOREM LossRefinesTicks == LossSpec => ImplementsTicks
<1>1. LossInit => OffIsStill /\ Ticked!Init
  BY DEF LossInit, ConfiguredOdu, OffIsStill, Ticked!Init
<1>2. LossInv /\ OffIsStill /\ [LossNext]_loss_vars => OffIsStill' /\ [Ticked!Next]_(Ticked!tick_vars)
  BY LossIsTick DEF TickedStep
<1> QED
  BY <1>1, <1>2, LossInvariant, PTL DEF LossSpec, ImplementsTicks
==============================================================================
