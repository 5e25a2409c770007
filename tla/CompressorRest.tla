---------------------------- MODULE CompressorRest ----------------------------
(***************************************************************************)
(* An outdoor unit with a history of how its compressor turned, which      *)
(* nothing in the unit reads: what the timers, the ramp, the frequency     *)
(* tables and the standstill guard of update() are for is that a           *)
(* compressor rests before it turns the other way.                         *)
(***************************************************************************)
EXTENDS OduModel

VARIABLE turned  \* the mode in which the compressor last turned, or STANDBY,
                 \* and how long it has stood still in standby since then, as
                 \* far as START_DELAY

rest_vars == <<vars, turned>>

Never == [way |-> STANDBY, rest |-> 0]

Turning == odu.active_mode # STANDBY /\ odu.measured > 0

Resting == odu.active_mode = STANDBY /\ odu.measured = 0

\* What `dt` seconds add, seen at the update that ends them
Turned(dt) ==
  IF Turning THEN [way |-> odu.active_mode, rest |-> 0]
  ELSE IF Resting THEN [turned EXCEPT !.rest = Lesser(@ + dt, START_DELAY)]
  ELSE turned

RestInit == Init /\ turned = Never

RestNext ==
  \/ Between /\ UNCHANGED turned
  \/ (\E enabled \in BOOLEAN : configure(enabled)) /\ turned' = Never
  \/ \E dt \in Dt : update(dt) /\ turned' = Turned(dt)

RestSpec == RestInit /\ [][RestNext]_rest_vars

------------------------------------------------------------------------------
\* A compressor that turns in one mode has not turned in the other since it stood
\* still in standby for the whole start delay, whatever is written, faults or
\* freezes the measured speed meanwhile, and however often mode, level and tables
\* change on the way.
RestsBeforeReversal ==
  Turning /\ turned.way \notin {STANDBY, odu.active_mode} => turned.rest >= START_DELAY
==============================================================================
