------------------------------ MODULE ModbusHub ------------------------------
(***************************************************************************)
(* The RTU server on the M2 bus, QuattOduModbusHub: one pending request,   *)
(* one reply in transmission, the injected protocol faults and the one-shot*)
(* faults on the UART itself.                                              *)
(*                                                                         *)
(* loop() runs on the main loop, as do the buttons and the settings sync.  *)
(* It is cut where it calls Modbus::loop(), because the bytes it sees      *)
(* there, and what the UART driver answers, are the environment's:         *)
(* LoopTop, then any number of received frames, then a Finish.  `io` is    *)
(* what the driver answers in one of these stages and `quiet` says that    *)
(* nothing is unread, no partial frame is buffered and the inter-frame     *)
(* delay is over.                                                          *)
(*                                                                         *)
(* A PDU is its address, its kind and its start address.  "read" and       *)
(* "write" are requests the addressed unit accepts, "bad" one that gets an *)
(* exception.  Deadlines are the time left until they pass, except the one *)
(* the code may compare long after it passed: retry.left is the signed     *)
(* difference, in a ring of 2 * HALF_RING.  Counters that nothing reads    *)
(* are left out, and a field no longer read is back at its initial value:  *)
(* last_request is only read in the step that sets it, since odd parity is *)
(* queued in the first pump_tx_ of a reply.                                *)
(***************************************************************************)
EXTENDS Integers

CONSTANTS
  Units,            \* outdoor units with an address on the bus
  BROADCAST,        \* address 0
  UNKNOWN,          \* an address no unit has
  Kinds,            \* kinds of requests
  StartAddress,     \* start addresses of requests
  INJECTED,         \* start address of the injected faults
  Injections,       \* combinations of injections ever configured
  FaultSwitch,      \* positions the UART fault injection switch is ever in
  Delays,           \* values of response_delay_ms_
  DROP_EVERY_NTH,   \* drop_every_nth_ when that injection is on
  FRAME_SIZE,       \* pieces the driver takes a reply frame in
  TX_TIME,          \* from the start of a reply to its deadline
  FAULT_TIME,       \* from the start of a UART fault to its deadline
  RETRY_TIME,       \* after a response with odd parity, wait for a retry
  HALF_RING,        \* half the range of millis()
  COUNTER_RANGE,    \* of a drop counter
  MaxFaults         \* bound: response parity faults since a reset

NONE == "NONE"
UartFaultMode == {"PARITY", "FRAMING"}
InjectionKind == {"silent", "nth", "timeout", "reboot", "exception", "incomplete"}
Address == Units \cup {BROADCAST, UNKNOWN}
Request == [address : Address, kind : Kinds, start : StartAddress]
NoRequest == [address |-> UNKNOWN, kind |-> NONE, start |-> INJECTED]

ASSUME HubAssumption ==
  /\ BROADCAST \notin Units /\ UNKNOWN \notin Units /\ UNKNOWN # BROADCAST
  /\ Kinds \subseteq {"read", "write", "bad"}
  /\ INJECTED \in StartAddress
  /\ Injections \subseteq SUBSET InjectionKind
  /\ FaultSwitch \subseteq BOOLEAN
  /\ Delays \subseteq Nat
  /\ {DROP_EVERY_NTH, FRAME_SIZE, TX_TIME, FAULT_TIME, RETRY_TIME, HALF_RING,
      COUNTER_RANGE, MaxFaults} \subseteq Nat \ {0}
  /\ RETRY_TIME < HALF_RING
  /\ COUNTER_RANGE > 1  \* one drop shows in a counter

Lesser(a, b) == IF a < b THEN a ELSE b

IO == [parity_ok : BOOLEAN,    \* uart_set_parity(ODD)
       restores : 1 .. 3,      \* which uart_set_parity(EVEN) of the stage works
       written : -1 .. FRAME_SIZE,
       status : {"OK", "TIMEOUT", "ERROR"}]

NoAnswer == [parity_ok |-> TRUE, restores |-> 1, written |-> 0, status |-> "OK"]

Answers(called) == IF called THEN IO ELSE {NoAnswer}

VARIABLES
  hub,
  settings  \* what the settings sync last copied

vars == <<hub, settings>>

IdleTx == [active |-> FALSE, unit |-> UNKNOWN, reply |-> NONE, marked |-> FALSE,
           parity_fault |-> FALSE, parity_queued |-> FALSE, unqueued |-> 0, left |-> 0]

InitialHub ==
  [running |-> TRUE, receiving |-> FALSE,
   pending |-> NoRequest, due |-> 0, request_sequence |-> 0,
   tx |-> IdleTx, last_request |-> NoRequest,
   pending_uart_fault |-> NONE, pending_sentinel |-> FALSE,
   pending_response_parity |-> FALSE,
   active_uart_fault |-> NONE, fault_left |-> 0,
   parity |-> "EVEN", restore_failed |-> FALSE, pin |-> FALSE,
   retry |-> [awaiting |-> FALSE, left |-> 0, request |-> NoRequest],
   parity_fault_count |-> 0, retry_count |-> 0,
   dropped |-> [u \in Units |-> 0],
   outcome |-> NONE]  \* history: what became of a reply in this step

------------------------------------------------------------------------------
(* Driver calls and small helpers.                                         *)

record_drop(h, address) ==
  IF address \notin Units THEN h
  ELSE [h EXCEPT !.dropped[address] = (@ + 1) % COUNTER_RANGE]

restore_uart_after_fault(h, io) ==
  IF io.restores = 1 THEN [h EXCEPT !.parity = "EVEN", !.restore_failed = FALSE]
  ELSE [h EXCEPT !.restore_failed = TRUE]

Armed(h) ==
  \/ h.pending_uart_fault # NONE
  \/ h.pending_sentinel
  \/ h.pending_response_parity

MayArm(h) ==
  /\ settings.enabled
  /\ ~Armed(h)
  /\ h.active_uart_fault = NONE
  /\ ~h.tx.active

Injected(h, kind) == kind \in settings.injections /\ h.pending.start = INJECTED

------------------------------------------------------------------------------
(* The transmission of a reply.                                            *)

abort_tx_KeepsOddParity(h, io) ==
  [record_drop(h, h.tx.unit) EXCEPT !.pin = FALSE, !.tx = IdleTx]

abort_tx_NotCounted(h, io) ==
  [(IF h.tx.parity_queued THEN restore_uart_after_fault(h, io) ELSE h)
     EXCEPT !.pin = FALSE, !.tx = IdleTx]

abort_tx(h, io) ==
  LET restored == IF h.tx.parity_queued THEN restore_uart_after_fault(h, io) ELSE h
  IN  [record_drop(restored, h.tx.unit) EXCEPT !.pin = FALSE, !.tx = IdleTx]

\* The answers to the calls that follow a failed uart_set_parity(EVEN).
AfterFailure(io) == [io EXCEPT !.restores = @ - 1]

queue_odd_parity(h) ==
  [h EXCEPT !.parity = "ODD",
            !.tx.parity_queued = TRUE,
            !.parity_fault_count = @ + 1,
            !.retry = [awaiting |-> TRUE, left |-> RETRY_TIME, request |-> h.last_request]]

TxExpired_Never(h) == FALSE

TxExpired(h) == h.tx.left = 0

await_tx_done(h, io) ==
  CASE io.status = "OK" ->
         LET restored == IF h.tx.parity_queued
                         THEN restore_uart_after_fault(h, io) ELSE h
         IN  IF h.tx.parity_queued /\ io.restores # 1
             THEN abort_tx(restored, AfterFailure(io))
             ELSE [restored EXCEPT !.pin = FALSE, !.tx = IdleTx, !.outcome = "delivered"]
    [] io.status = "ERROR" -> abort_tx(h, io)
    [] OTHER -> IF TxExpired(h) THEN abort_tx(h, io) ELSE h

\* The driver takes at most what it is offered; io.written counts pieces.
pump_tx(h, io) ==
  IF ~h.tx.active THEN h
  ELSE LET starts == h.tx.parity_fault /\ ~h.tx.parity_queued
                     /\ h.tx.unqueued = FRAME_SIZE
           odd == IF starts THEN queue_odd_parity(h) ELSE h
           queued == [odd EXCEPT !.tx.unqueued = @ - Lesser(io.written, @)]
       IN  IF starts /\ ~io.parity_ok THEN abort_tx(h, io)
           ELSE IF io.written < 0 THEN abort_tx(odd, io)
           ELSE IF queued.tx.unqueued > 0
                THEN IF TxExpired(h) THEN abort_tx(queued, io) ELSE queued
           ELSE await_tx_done(queued, io)

\* Only a reply to a read that carries data is marked.
Markable(h, reply, long) == h.last_request.kind = "read" /\ long

send_pdu(h, address, reply, long, quiet, io) ==
  IF h.tx.active \/ ~quiet THEN [h EXCEPT !.outcome = "lost"]
  ELSE LET marked == Armed([h EXCEPT !.pending_uart_fault = NONE])
                     /\ Markable(h, reply, long)
           started ==
             [h EXCEPT
                !.tx = [active |-> TRUE,
                        unit |-> IF address \in Units THEN address ELSE UNKNOWN,
                        reply |-> reply, marked |-> marked,
                        parity_fault |-> marked /\ h.pending_response_parity,
                        parity_queued |-> FALSE,
                        unqueued |-> FRAME_SIZE, left |-> TX_TIME],
                !.pending_sentinel = @ /\ ~marked,
                !.pending_response_parity = @ /\ ~marked,
                !.pin = TRUE]
       IN  pump_tx(started, io)

------------------------------------------------------------------------------
(* The one-shot faults on the UART.                                        *)

bus_idle_for_uart_fault_IgnoresTx(h, quiet) == h.pending = NoRequest /\ quiet

bus_idle_for_uart_fault(h, quiet) ==
  ~h.tx.active /\ h.pending = NoRequest /\ quiet

FaultOver_OnlyWhenSent(h, io) == io.status # "TIMEOUT"

FaultOver(h, io) == io.status # "TIMEOUT" \/ h.fault_left = 0

end_uart_fault(h, io) ==
  [restore_uart_after_fault(h, io) EXCEPT !.pin = FALSE, !.active_uart_fault = NONE,
                                          !.fault_left = 0]

pump_uart_fault(h, quiet, io) ==
  CASE h.active_uart_fault # NONE ->
         IF FaultOver(h, io) THEN end_uart_fault(h, io) ELSE h
    [] /\ h.active_uart_fault = NONE
       /\ h.pending_uart_fault # NONE
       /\ settings.enabled
       /\ bus_idle_for_uart_fault(h, quiet) ->
         LET mode == h.pending_uart_fault
             odd == mode = "PARITY" /\ io.parity_ok
             taken == [h EXCEPT !.pending_uart_fault = NONE,
                                !.parity = IF odd THEN "ODD" ELSE @]
             written == io.written = 1 /\ (mode = "PARITY" => odd)
         IN  IF ~written
             THEN [restore_uart_after_fault(taken, io) EXCEPT !.pin = FALSE]
             ELSE [taken EXCEPT !.pin = TRUE, !.active_uart_fault = mode,
                                !.fault_left = FAULT_TIME]
    [] OTHER -> h

------------------------------------------------------------------------------
(* Requests.                                                               *)

count_retry(h, r) ==
  IF h.retry.awaiting /\ h.retry.left >= 0 /\ r = h.retry.request
  THEN [h EXCEPT !.retry_count = @ + 1, !.retry = InitialHub.retry]
  ELSE h

\* A broadcast is processed at once, for every unit, and not answered.
queue_request(h, r) ==
  IF r.address = BROADCAST THEN count_retry(h, r)
  ELSE IF h.pending # NoRequest THEN record_drop(h, r.address)
  ELSE [h EXCEPT !.pending = r, !.due = settings.delay]

on_shutdown(h, io) ==
  LET restored == IF h.tx.parity_queued \/ h.active_uart_fault # NONE
                  THEN restore_uart_after_fault(h, io) ELSE h
  IN  [restored EXCEPT
         !.running = FALSE, !.receiving = FALSE, !.pending = NoRequest,
         !.pending_uart_fault = NONE, !.pending_sentinel = FALSE,
         !.pending_response_parity = FALSE,
         !.active_uart_fault = NONE, !.fault_left = 0,
         !.pin = FALSE, !.tx = IdleTx]

\* A request that is due is taken off the queue and answered, or not.  A write
\* takes effect on the unit before it is answered.
process_request(h, quiet, io) ==
  LET r == h.pending
      seen == [count_retry(h, r) EXCEPT !.last_request = r, !.pending = NoRequest]
      sequence == (h.request_sequence + 1) % DROP_EVERY_NTH
      numbered == [seen EXCEPT !.request_sequence = sequence]
      dropped == record_drop(numbered, r.address)
      Reply(g, reply, long) == send_pdu(g, r.address, reply, long, quiet, io)
  IN  CASE r.address \notin Units -> seen
        [] /\ r.address \in Units
           /\ \/ "silent" \in settings.injections
              \/ "nth" \in settings.injections /\ sequence = 0
              \/ Injected(h, "timeout") -> dropped
        [] OTHER ->
             IF Injected(h, "reboot") THEN on_shutdown(dropped, io)
             ELSE IF Injected(h, "exception") \/ r.kind = "bad"
             THEN Reply(numbered, "exception", FALSE)
             ELSE IF r.kind = "read"
             THEN Reply(numbered, "read", ~Injected(h, "incomplete"))
             ELSE Reply(numbered, "write", TRUE)

------------------------------------------------------------------------------
(* The main loop.                                                          *)

Busy(h) == h.tx.active \/ h.active_uart_fault # NONE

\* The hub at the start of a stage of loop().
Fresh == [hub EXCEPT !.outcome = NONE]

LoopTop(quiet) ==
  /\ hub.running /\ ~hub.receiving
  /\ \E io \in Answers(Busy(hub) \/ hub.pending_uart_fault # NONE) :
       LET h == pump_uart_fault(pump_tx(Fresh, io), quiet, io)
       IN  hub' = [h EXCEPT !.receiving = ~Busy(h)]
  /\ UNCHANGED settings

\* parse_modbus_frames(): a frame with a good CRC and a standard PDU.
ReceiveRequest(r) ==
  /\ hub.receiving
  /\ hub' = queue_request(Fresh, r)
  /\ UNCHANGED settings

\* parse_modbus_frames(): a frame with a good CRC but not a standard PDU.
ReceiveNonstandard(address, quiet) ==
  /\ hub.receiving /\ address # BROADCAST
  /\ \E io \in Answers(quiet /\ ~hub.tx.active) :
       hub' = send_pdu(Fresh, address, "exception", FALSE, quiet, io)
  /\ UNCHANGED settings

\* loop() after Modbus::loop(), in its three outcomes: nothing is due, so an
\* armed fault may start; the line is not free; the request is processed.
\* `still` is the line as send_pdu_ finds it.
Received == [Fresh EXCEPT !.receiving = FALSE]

Due == hub.pending # NoRequest /\ hub.due = 0

FinishIdle(quiet) ==
  /\ hub.receiving /\ ~Due
  /\ \E io \in Answers(hub.pending_uart_fault # NONE) :
       hub' = pump_uart_fault(Received, quiet, io)
  /\ UNCHANGED settings

FinishWaiting ==
  /\ hub.receiving /\ Due
  /\ hub' = Received
  /\ UNCHANGED settings

FinishServing(still) ==
  /\ hub.receiving /\ Due /\ ~Busy(hub)
  /\ \E io \in Answers(still) :
       hub' = [process_request(Received, still, io) EXCEPT !.last_request = NoRequest]
  /\ UNCHANGED settings

------------------------------------------------------------------------------
(* Buttons, the settings sync, restarts and time.                          *)

Idle == hub.running /\ ~hub.receiving

request_uart_fault(mode) ==
  /\ Idle /\ MayArm(hub)
  /\ hub' = [Fresh EXCEPT !.pending_uart_fault = mode]
  /\ UNCHANGED settings

request_uart_response_sentinel ==
  /\ Idle /\ MayArm(hub)
  /\ hub' = [Fresh EXCEPT !.pending_sentinel = TRUE]
  /\ UNCHANGED settings

request_uart_response_parity_fault ==
  /\ Idle /\ MayArm(hub) /\ hub.parity_fault_count < MaxFaults
  /\ hub' = [Fresh EXCEPT !.pending_response_parity = TRUE]
  /\ UNCHANGED settings

disarm(h) == [h EXCEPT !.pending_uart_fault = NONE,
                       !.pending_sentinel = FALSE,
                       !.pending_response_parity = FALSE]

\* The 500 ms interval copies every setting, fault injection among them.
SyncSettings(enabled, injections, delay) ==
  /\ Idle
  /\ settings' = [enabled |-> enabled, injections |-> injections, delay |-> delay]
  /\ hub' = IF enabled THEN Fresh ELSE disarm(Fresh)

cleared_diagnostics_StillAwaiting(h) ==
  [h EXCEPT !.request_sequence = 0, !.parity_fault_count = 0, !.retry_count = 0]

cleared_diagnostics(h) ==
  [h EXCEPT !.request_sequence = 0, !.parity_fault_count = 0, !.retry_count = 0,
            !.retry = InitialHub.retry, !.dropped = [u \in Units |-> 0]]

reset_diagnostics ==
  /\ Idle
  /\ hub' = cleared_diagnostics(Fresh)
  /\ UNCHANGED settings

Shutdown ==
  /\ Idle
  /\ \E io \in Answers(hub.tx.parity_queued \/ hub.active_uart_fault # NONE) :
       hub' = on_shutdown(Fresh, io)
  /\ UNCHANGED settings

\* Restarting installs the UART driver anew; the fault switches come up off.
Boot ==
  /\ ~hub.running
  /\ hub' = InitialHub
  /\ settings' = [enabled |-> FALSE, injections |-> {}, delay |-> settings.delay]

Elapsed(left) == IF left = 0 THEN 0 ELSE left - 1

Tick ==
  /\ Idle
  /\ hub' = [Fresh EXCEPT
       !.due = Elapsed(@), !.fault_left = Elapsed(@), !.tx.left = Elapsed(@),
       !.retry.left = IF ~hub.retry.awaiting THEN 0
                      ELSE IF @ = -HALF_RING THEN HALF_RING - 1 ELSE @ - 1]
  /\ UNCHANGED settings

------------------------------------------------------------------------------

Init ==
  /\ hub = InitialHub
  /\ settings \in [enabled : {FALSE}, injections : {{}}, delay : Delays]

Next ==
  \/ \E quiet \in BOOLEAN : LoopTop(quiet)
  \/ \E r \in Request : ReceiveRequest(r)
  \/ \E a \in Address, quiet \in BOOLEAN : ReceiveNonstandard(a, quiet)
  \/ \E quiet \in BOOLEAN : FinishIdle(quiet)
  \/ FinishWaiting
  \/ \E still \in BOOLEAN : FinishServing(still)
  \/ \E mode \in UartFaultMode : request_uart_fault(mode)
  \/ request_uart_response_sentinel
  \/ request_uart_response_parity_fault
  \/ \E enabled \in FaultSwitch, i \in Injections, d \in Delays : SyncSettings(enabled, i, d)
  \/ reset_diagnostics
  \/ Shutdown
  \/ Boot
  \/ Tick

Spec == Init /\ [][Next]_vars

------------------------------------------------------------------------------
(* Properties.                                                             *)

\* The state has the types of the fields it stands for.
TypeOK ==
  /\ hub \in
       [running : BOOLEAN, receiving : BOOLEAN,
        pending : Request \cup {NoRequest}, due : Nat,
        request_sequence : 0 .. DROP_EVERY_NTH - 1,
        tx : [active : BOOLEAN, unit : Units \cup {UNKNOWN},
              reply : {NONE, "read", "write", "exception"}, marked : BOOLEAN,
              parity_fault : BOOLEAN, parity_queued : BOOLEAN,
              unqueued : 0 .. FRAME_SIZE, left : 0 .. TX_TIME],
        last_request : Request \cup {NoRequest},
        pending_uart_fault : UartFaultMode \cup {NONE}, pending_sentinel : BOOLEAN,
        pending_response_parity : BOOLEAN,
        active_uart_fault : UartFaultMode \cup {NONE}, fault_left : 0 .. FAULT_TIME,
        parity : {"EVEN", "ODD"}, restore_failed : BOOLEAN, pin : BOOLEAN,
        retry : [awaiting : BOOLEAN, left : -HALF_RING .. HALF_RING - 1,
                 request : Request \cup {NoRequest}],
        parity_fault_count : 0 .. MaxFaults, retry_count : Nat,
        dropped : [Units -> 0 .. COUNTER_RANGE - 1],
        outcome : {NONE, "delivered", "lost"}]
  /\ settings \in [enabled : BOOLEAN, injections : Injections \cup {{}}, delay : Delays]

\* The transceiver drives the bus exactly while a reply or an injected fault is
\* on it, never both, and it is released whichever way either of them ends.  One
\* injected fault at most is armed or active, and none once injection is disabled.
ExclusiveDriver ==
  /\ hub.pin <=> Busy(hub)
  /\ ~(hub.tx.active /\ hub.active_uart_fault # NONE)
  /\ Armed(hub) => settings.enabled /\ hub.active_uart_fault = NONE
  /\ ~(hub.pending_sentinel /\ hub.pending_response_parity)
  /\ hub.pending_uart_fault # NONE =>
       ~hub.pending_sentinel /\ ~hub.pending_response_parity

\* The bus is back at 8E1 whenever no fault is being transmitted, unless the
\* driver refused to restore it.
EvenParityRestored ==
  \/ hub.parity = "EVEN"
  \/ hub.active_uart_fault = "PARITY"
  \/ hub.tx.parity_queued
  \/ hub.restore_failed

\* No more retries are counted than responses were sent with odd parity, also
\* across a reset of the diagnostics in between.
RetriesHaveFaults == hub.retry_count <= hub.parity_fault_count

\* The reply was sent or is being sent, or a drop was counted.
Settled(unit) ==
  \/ hub'.tx.active
  \/ hub'.outcome = "delivered"
  \/ hub'.dropped[unit] # hub.dropped[unit]

\* The request that was due was processed, and its reply found the line taken
\* that loop() had found free.
LineTaken == hub.receiving /\ Due /\ ~Busy(hub) /\ hub'.outcome = "lost"

\* When a request for a unit leaves the queue, or its reply leaves the line, that
\* reply was sent, or is being sent, or a drop was counted.  Two ways are left to
\* vanish uncounted: the line taken in the very moment the reply would have
\* started, and a restart, which takes the counters with it.
UncountedOnlyIfTaken ==
  [][\A unit \in Units :
       \/ hub.pending.address = unit /\ hub.pending # NoRequest /\ hub'.pending = NoRequest
       \/ hub.tx.active /\ hub.tx.unit = unit /\ ~hub'.tx.active
       => Settled(unit) \/ LineTaken \/ ~hub'.running]_vars
==============================================================================
