---------------------------- MODULE OpenThermSlave ----------------------------
(***************************************************************************)
(* The protocol half of HCQOTBoilerSimulator: when the OpenTherm slave     *)
(* starts and stops around an OTA update, and how a request becomes a      *)
(* reply that is held back for the configured turnaround delay, over the   *)
(* driver of OpenThermDriver.  What it answers is BoilerSimulator's part.  *)
(*                                                                         *)
(* The environment is the master (the controller under test), the main     *)
(* loop, which may stall, and noise.  `normal` records that the load was   *)
(* the normal one so far: a master that waits for a reply or its own       *)
(* timeout, no noise, and a loop that runs between any two ticks.  The     *)
(* master and the counters are followed for as long as it is.              *)
(***************************************************************************)
EXTENDS OpenThermDriver

CONSTANTS
  Delays,            \* response delays that are ever configured
  STARTUP_SETTLE,
  BUS_IDLE_MIN,
  STARTUP_FORCE,
  PATIENCE           \* how long the master waits for a reply

NONE == -1

ASSUME SlaveAssumption ==
  /\ Delays \subseteq Nat /\ Delays # {}
  /\ {STARTUP_SETTLE, BUS_IDLE_MIN, STARTUP_FORCE, PATIENCE} \subseteq Nat \ {0}

\* A reply fits into the patience of the master with every delay, also one that
\* is noticed a tick late, and a transmission into the driver's own timeout.  In
\* the program delays are at most 700 ms, a frame takes 34 ms and the driver
\* gives up after 1000 ms.
ASSUME LoadAssumption ==
  /\ \A delay \in Delays : delay + TX_TIME < PATIENCE
  /\ 1 + TX_TIME < PATIENCE
  /\ TX_TIME <= TIMEOUT

VARIABLES
  ot,         \* the driver
  life,       \* started_, start_pending_, its two timers, ota_active_; "failed" is
              \* what mark_failed() leaves, "off" the time between two boots
  scheduler,  \* the pending reply, the delay and the counters that are not zero
  response_enabled,
  master,     \* external: time since its request (NONE: none is open), whether
              \* that is still to be answered, an answer it did not wait for
  looped,     \* the main loop ran since the last tick
  normal      \* history: see above

vars == <<ot, life, scheduler, response_enabled, master, looped, normal>>

Counter == {"overlap", "overflow", "queue_failure", "invalid"}

------------------------------------------------------------------------------
(* OpenThermResponseScheduler.                                             *)

count(s, counter) ==
  IF normal THEN [s EXCEPT !.counted = @ \cup {counter}] ELSE s

overlapped(s) == IF s.pending THEN count(s, "overlap") ELSE s

schedule_FromNow(s, age) ==
  [overlapped(s) EXCEPT !.pending = TRUE, !.due = s.delay]

\* The delay counts from the end of the request, not from its processing.
schedule(s, age) ==
  [overlapped(s) EXCEPT !.pending = TRUE,
            !.due = IF s.delay > age THEN s.delay - age ELSE 0]

clear_pending_KeepsPending(s) == [s EXCEPT !.due = 0]

clear_pending(s) == [s EXCEPT !.pending = FALSE, !.due = 0]

------------------------------------------------------------------------------
(* Starting and stopping.                                                  *)

schedule_start(l) ==
  IF l.started \/ l.ota_active THEN l
  ELSE [l EXCEPT !.start_pending = TRUE, !.since = -STARTUP_SETTLE, !.idle = NONE]

Forced_Never(l) == FALSE

Forced(l) == l.since >= STARTUP_FORCE

\* What try_start_() does with a start that is pending, on an idle bus or not.
Starts(l, idle) ==
  /\ l.start_pending /\ l.since >= 0
  /\ \/ Forced(l)
     \/ idle /\ l.idle # NONE /\ l.idle >= BUS_IDLE_MIN

try_start_waits(l, idle) ==
  IF ~l.start_pending \/ l.since < 0 THEN l
  ELSE IF ~idle THEN [l EXCEPT !.idle = NONE]
  ELSE IF l.idle = NONE THEN [l EXCEPT !.idle = 0]
  ELSE l

\* start_(): begin() may fail, which takes the component out of the loop.
started(l, ok) ==
  IF ok THEN [l EXCEPT !.started = TRUE, !.start_pending = FALSE, !.idle = NONE, !.since = 0]
  ELSE [l EXCEPT !.start_pending = FALSE, !.phase = "failed", !.since = 0, !.idle = NONE]

stopped(s) == clear_pending(s)

NotFollowed == [waited |-> NONE, owed |-> FALSE, unsolicited |-> FALSE]

\* A master whose reply is lost or not to come is owed none.
NotOwed(m) == [m EXCEPT !.owed = FALSE]

\* end() lets the frame on the wire finish.
stop ==
  /\ ot' = IF life.started THEN end(ot) ELSE ot
  /\ scheduler' = stopped(scheduler)
  /\ master' = IF ot.tx_in_progress /\ ot.sending > 0
               THEN [master EXCEPT !.waited = NONE, !.owed = FALSE]
               ELSE NotOwed(master)

halted(l) ==
  [l EXCEPT !.started = FALSE, !.start_pending = FALSE, !.since = 0, !.idle = NONE]

------------------------------------------------------------------------------
(* The main loop.                                                          *)

process_request(s, report, age) ==
  CASE report = "SUCCESS" ->
         IF response_enabled THEN schedule(s, age) ELSE s
    [] report \in {"INVALID", "TIMEOUT"} -> count(s, "invalid")
    [] OTHER -> s

MaySend(s) == s.pending /\ response_enabled /\ s.due = 0

try_send_pending_response(driver, s) ==
  IF ~MaySend(s)
  THEN /\ ot' = driver
       /\ scheduler' = IF s.pending /\ ~response_enabled THEN clear_pending(s) ELSE s
  ELSE /\ ot' = sendResponse(driver)
       /\ scheduler' = IF CanTransmit(driver) THEN clear_pending(s)
                       ELSE count(clear_pending(s), "queue_failure")

\* loop() once the slave runs: at most one frame, then the reply that is due.
Serve ==
  /\ life.started
  /\ LET age == IF ot.queue = <<>> THEN 0 ELSE Head(ot.queue).age
     IN  try_send_pending_response(process(ot),
                                   process_request(scheduler, Report(ot), age))
  /\ looped' = TRUE
  /\ UNCHANGED <<life, response_enabled, master, normal>>

\* loop() before that; the loop that starts the slave also serves.  Nothing is
\* queued yet, and a reply was cancelled when the slave was stopped.
Start ==
  /\ life.phase = "running" /\ ~life.started /\ ~life.ota_active
  /\ \E idle \in BOOLEAN, ok \in BOOLEAN :
       LET l == IF life.start_pending THEN life ELSE schedule_start(life)
       IN  IF Starts(l, idle)
           THEN /\ life' = started(l, ok)
                /\ ot' = IF ok THEN begin(ot) ELSE ot
           ELSE /\ life' = try_start_waits(l, idle)
                /\ UNCHANGED ot
  /\ looped' = TRUE
  /\ UNCHANGED <<scheduler, response_enabled, master, normal>>

Loop == Serve \/ Start

------------------------------------------------------------------------------
(* OTA, the settings and the diagnostics.                                  *)

ota_started ==
  /\ life.phase # "off" /\ ~life.ota_active
  /\ life' = [halted(life) EXCEPT !.ota_active = TRUE]
  /\ stop
  /\ UNCHANGED <<response_enabled, looped, normal>>

\* An update that is aborted, or one that fails, lets the slave start again.
ota_ended ==
  /\ life.ota_active
  /\ life' = schedule_start([life EXCEPT !.ota_active = FALSE])
  /\ UNCHANGED <<ot, scheduler, response_enabled, master, looped, normal>>

cancelled_Later(s, value) == s

cancelled(s, value) == IF value THEN s ELSE clear_pending(s)

set_response_enabled(value) ==
  /\ life.phase # "off"
  /\ response_enabled' = value
  /\ scheduler' = IF value = response_enabled THEN scheduler
                  ELSE cancelled(scheduler, value)
  /\ master' = IF value THEN master ELSE NotOwed(master)
  /\ UNCHANGED <<ot, life, looped, normal>>

set_response_delay(delay) ==
  /\ scheduler' = [scheduler EXCEPT !.delay = delay]
  /\ UNCHANGED <<ot, life, response_enabled, master, looped, normal>>

\* The reply that is pending is kept.
reset_protocol_diagnostics ==
  /\ scheduler' = [scheduler EXCEPT !.counted = {}]
  /\ UNCHANGED <<ot, life, response_enabled, master, looped, normal>>

on_shutdown ==
  /\ life.phase # "off"
  /\ life' = [halted(life) EXCEPT !.phase = "off", !.ota_active = FALSE]
  /\ stop
  /\ UNCHANGED <<response_enabled, looped, normal>>

\* setup() schedules the first start.
Booted == [phase |-> "running", started |-> FALSE, start_pending |-> TRUE,
           since |-> -STARTUP_SETTLE, idle |-> NONE, ota_active |-> FALSE]

setup ==
  /\ life.phase = "off"
  /\ life' = Booted
  /\ scheduler' = [scheduler EXCEPT !.counted = {}]
  /\ response_enabled' = TRUE
  /\ UNCHANGED <<ot, master, looped, normal>>

------------------------------------------------------------------------------
(* The wire and the clock.                                                 *)

\* A frame reaches the receiver.  One that is not a request, or comes while
\* another is open, is not normal.
ReceiveFrame(kind) ==
  /\ LET conforming == kind = "valid" /\ master.waited = NONE
     IN  /\ normal' = (normal /\ conforming)
         /\ master' = IF normal /\ conforming
                      THEN [master EXCEPT !.waited = 0,
                                          !.owed = life.started /\ response_enabled]
                      ELSE NotFollowed
  /\ IF life.started
     THEN /\ ot' = queue_rx_frame(ot, kind)
          /\ scheduler' = IF QueueFull(ot) THEN count(scheduler, "overflow") ELSE scheduler
     ELSE UNCHANGED <<ot, scheduler>>
  /\ UNCHANGED <<life, response_enabled, looped>>

TxDone ==
  /\ ot.sending > 0
  /\ ot' = tx_done(ot)
  /\ master' = IF normal
               THEN [NotFollowed EXCEPT !.unsolicited =
                       master.unsolicited \/ master.waited = NONE]
               ELSE NotFollowed
  /\ UNCHANGED <<life, scheduler, response_enabled, looped, normal>>

Waits(t, limit) == IF t = NONE \/ t = limit THEN t ELSE t + 1

\* A master that is not answered in time may send its next request.
GivesUp ==
  /\ master.waited = PATIENCE
  /\ master' = [master EXCEPT !.waited = NONE, !.owed = FALSE]
  /\ UNCHANGED <<ot, life, scheduler, response_enabled, looped, normal>>

Tick ==
  /\ MayTick(ot)
  /\ ot' = tick(ot)
  /\ life' = [life EXCEPT !.since = IF life.start_pending /\ @ < STARTUP_FORCE
                                    THEN @ + 1 ELSE @,
                          !.idle = Waits(@, BUS_IDLE_MIN)]
  /\ scheduler' = [scheduler EXCEPT !.due = IF @ = 0 THEN 0 ELSE @ - 1]
  /\ LET in_time == looped \/ ~life.started
     IN  /\ normal' = (normal /\ in_time)
         /\ master' = IF normal /\ in_time
                      THEN [master EXCEPT !.waited = Waits(@, PATIENCE)]
                      ELSE NotFollowed
  /\ looped' = FALSE
  /\ UNCHANGED response_enabled

------------------------------------------------------------------------------

Init ==
  /\ ot = Stopped
  /\ life = Booted
  /\ scheduler \in [pending : {FALSE}, due : {0}, delay : Delays, counted : {{}}]
  /\ response_enabled = TRUE
  /\ master = NotFollowed
  /\ looped = FALSE
  /\ normal = TRUE

Next ==
  \/ Serve
  \/ Start
  \/ ota_started
  \/ ota_ended
  \/ \E value \in BOOLEAN : set_response_enabled(value)
  \/ \E delay \in Delays : set_response_delay(delay)
  \/ reset_protocol_diagnostics
  \/ on_shutdown
  \/ setup
  \/ \E kind \in FrameKind : ReceiveFrame(kind)
  \/ TxDone
  \/ GivesUp
  \/ Tick

\* The main loop keeps running, time passes and the peripheral finishes a frame.
Spec == Init /\ [][Next]_vars /\ WF_vars(Loop) /\ WF_vars(Tick) /\ WF_vars(TxDone)
------------------------------------------------------------------------------
(* Properties.                                                             *)

TypeOK ==
  /\ ot \in Driver
  /\ life \in [phase : {"running", "failed", "off"}, started : BOOLEAN,
               start_pending : BOOLEAN, since : -STARTUP_SETTLE .. STARTUP_FORCE,
               idle : NONE .. BUS_IDLE_MIN, ota_active : BOOLEAN]
  /\ Len(ot.queue) < RX_FRAME_QUEUE_SIZE
  /\ scheduler \in [pending : BOOLEAN, due : Nat, delay : Delays,
                    counted : SUBSET Counter]
  /\ response_enabled \in BOOLEAN
  /\ master \in [waited : NONE .. PATIENCE, owed : BOOLEAN, unsolicited : BOOLEAN]
  /\ looped \in BOOLEAN /\ normal \in BOOLEAN

\* A reply is held back only while the slave runs and may answer: neither an
\* update, a restart nor responses that are switched off leave one to be sent
\* later, when the master no longer waits for it.
PendingOnlyWhileServing ==
  scheduler.pending => life.started /\ ~life.ota_active /\ response_enabled

\* Under normal load the counters of overlaps, overflows and failures stay zero,
\* and the master gets no reply it does not wait for.
NormalLoadIsClean ==
  normal => scheduler.counted = {} /\ ~master.unsolicited

\* Under normal load a request is answered before the master gives up on it,
\* whatever the configured delay and wherever in it the delay is changed.
AnsweredInTime == normal /\ master.owed => master.waited < PATIENCE

\* Under normal load a driver that says it is ready has nothing on the wire.
ReadyMeansIdle == normal /\ ot.status = "READY" => ot.sending = 0

\* A bus that never falls idle delays the start of the slave but does not
\* prevent it, whatever updates came before.
SlaveStarts ==
  life.phase = "running" /\ ~life.ota_active
    ~> life.started \/ life.ota_active \/ life.phase # "running"
==============================================================================
