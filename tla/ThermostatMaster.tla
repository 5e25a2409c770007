--------------------------- MODULE ThermostatMaster ---------------------------
(***************************************************************************)
(* HCQOTThermostatSimulator: an OpenTherm master over the driver the boiler*)
(* simulator uses as a slave.  It asks four things in turn, the next one   *)
(* when the poll interval is over and the driver says it is ready; nothing *)
(* waits for an answer.  The controller under test may answer or not, in   *)
(* time or late, and there is noise.  What an answer says is left out.     *)
(***************************************************************************)
EXTENDS OpenThermDriver

CONSTANT PollInterval  \* poll intervals that are ever set

VARIABLES
  ot,          \* the driver
  thermostat,  \* started_, ota_active_, next_request_, poll_interval_ms_, the time
               \* since last_request_ms_ (it stops at the longest interval), and
               \* whether timeout_count_ is not zero; `on` between boot and shutdown
  looped,      \* the main loop ran since the last tick
  normal       \* history: it always did

vars == <<ot, thermostat, looped, normal>>

Following == [STATUS |-> "T_SET", T_SET |-> "T_ROOM_SET",
              T_ROOM_SET |-> "T_ROOM", T_ROOM |-> "STATUS"]

Longest == CHOOSE i \in PollInterval : \A j \in PollInterval : j <= i

\* start_(): a begin() that fails is not tried again.
start(t, ok) == [t EXCEPT !.started = @ \/ (ok /\ ~t.ota_active)]

stop == ot' = end(ot)

send_next_request_KeepsTime(t) == [t EXCEPT !.next_request = Following[@]]

send_next_request(t) == [t EXCEPT !.next_request = Following[@], !.since = 0]

process_response(t, report) ==
  IF report = "TIMEOUT" THEN [t EXCEPT !.timeout = TRUE] ELSE t

Due(t, driver) == driver.status = "READY" /\ t.since >= t.interval

loop_Restarts ==
  /\ thermostat.started
  /\ ot' = process(ot)
  /\ thermostat' = [process_response(thermostat, Report(ot)) EXCEPT !.since = 0]
  /\ looped' = TRUE
  /\ UNCHANGED normal

loop ==
  /\ thermostat.started
  /\ LET driver == process(ot)
         t == process_response(thermostat, Report(ot))
     IN  IF Due(t, driver)
         THEN /\ ot' = sendResponse(driver)
              /\ thermostat' = IF CanTransmit(driver) THEN send_next_request(t) ELSE t
         ELSE ot' = driver /\ thermostat' = t
  /\ looped' = TRUE
  /\ UNCHANGED normal

ota_started ==
  /\ thermostat.on /\ ~thermostat.ota_active
  /\ thermostat' = [thermostat EXCEPT !.started = FALSE, !.ota_active = TRUE]
  /\ stop
  /\ UNCHANGED <<looped, normal>>

\* OTA_ABORT, OTA_ERROR or OTA_COMPLETED
ota_ended(ok) ==
  /\ thermostat.on /\ thermostat.ota_active
  /\ thermostat' = start([thermostat EXCEPT !.ota_active = FALSE], ok)
  /\ ot' = IF ok THEN begin(ot) ELSE ot
  /\ UNCHANGED <<looped, normal>>

on_shutdown ==
  /\ thermostat.on
  /\ thermostat' = [thermostat EXCEPT !.on = FALSE, !.started = FALSE]
  /\ stop
  /\ UNCHANGED <<looped, normal>>

\* A boot; at its first millisecond no interval is over.
Booted(interval) ==
  [on |-> TRUE, started |-> FALSE, ota_active |-> FALSE, next_request |-> "STATUS",
   interval |-> interval, since |-> 0, timeout |-> FALSE]

setup(ok) ==
  /\ ~thermostat.on
  /\ thermostat' = start(Booted(thermostat.interval), ok)
  /\ ot' = IF ok THEN begin(ot) ELSE ot
  /\ UNCHANGED <<looped, normal>>

set_poll_interval(interval) ==
  /\ thermostat' = [thermostat EXCEPT !.interval = interval]
  /\ UNCHANGED <<ot, looped, normal>>

reset_diagnostics ==
  /\ thermostat' = [thermostat EXCEPT !.timeout = FALSE]
  /\ UNCHANGED <<ot, looped, normal>>

------------------------------------------------------------------------------
(* The wire and the clock.                                                 *)

\* An answer, in time, late or to no request, or noise.
ReceiveFrame(kind) ==
  /\ thermostat.started
  /\ ot' = queue_rx_frame(ot, kind)
  /\ UNCHANGED <<thermostat, looped, normal>>

TxDone ==
  /\ ot.sending > 0
  /\ ot' = tx_done(ot)
  /\ UNCHANGED <<thermostat, looped, normal>>

Tick ==
  /\ MayTick(ot)
  /\ ot' = tick(ot)
  /\ thermostat' = [thermostat EXCEPT !.since = IF @ = Longest THEN @ ELSE @ + 1]
  /\ normal' = (normal /\ (looped \/ ~thermostat.started))
  /\ looped' = FALSE

------------------------------------------------------------------------------

Init ==
  /\ ot = Stopped
  /\ \E interval \in PollInterval : thermostat = [Booted(interval) EXCEPT !.on = FALSE]
  /\ looped = FALSE
  /\ normal = TRUE

Next ==
  \/ loop
  \/ ota_started
  \/ on_shutdown
  \/ \E ok \in BOOLEAN : ota_ended(ok) \/ setup(ok)
  \/ \E interval \in PollInterval : set_poll_interval(interval)
  \/ reset_diagnostics
  \/ \E kind \in FrameKind : ReceiveFrame(kind)
  \/ TxDone
  \/ Tick

\* The main loop keeps running, time passes and the peripheral finishes a frame.
Spec == Init /\ [][Next]_vars /\ WF_vars(loop) /\ WF_vars(Tick) /\ WF_vars(TxDone)
------------------------------------------------------------------------------
(* Properties.                                                             *)

\* A request is never handed to the peripheral while another is on the wire,
\* though a frame that arrives meanwhile makes the driver report itself ready:
\* the poll interval alone keeps them apart, through restarts, stalls and
\* changes of the interval.
OneRequestOnWire == ot.sending <= 1

\* A timeout that is counted is a stall of the main loop.  A controller that
\* never answers, or answers late, is none: no request waits for its answer.
TimeoutMeansStall == normal => ~thermostat.timeout

\* The four requests go round for ever while the master runs and no frames
\* keep its driver busy, answered or not.
PollingGoesOn ==
  <>[](thermostat.started /\ ot.queue = <<>> /\ ~ot.edge_overflow)
    => \A request \in DOMAIN Following : []<>(thermostat.next_request = request)
==============================================================================
