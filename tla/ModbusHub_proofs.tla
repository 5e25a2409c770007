---------------------------- MODULE ModbusHub_proofs ----------------------------
(***************************************************************************)
(* The hub drives the bus exactly while something is on it, restores the   *)
(* parity, counts no retry without a fault and loses nothing uncounted,    *)
(* for any number of units, any frame, any deadlines and whatever the UART *)
(* driver answers.                                                         *)
(*                                                                         *)
(* Unmoved is what the handling of a reply leaves of the rest of the hub,  *)
(* HubOK what every operation keeps of it.                                 *)
(***************************************************************************)
EXTENDS ModbusHub, TLAPS

Tx == [active : BOOLEAN, unit : Units \cup {UNKNOWN},
       reply : {NONE, "read", "write", "exception"}, marked : BOOLEAN,
       parity_fault : BOOLEAN, parity_queued : BOOLEAN,
       unqueued : 0 .. FRAME_SIZE, left : 0 .. TX_TIME]

Retry == [awaiting : BOOLEAN, left : -HALF_RING .. HALF_RING - 1,
          request : Request \cup {NoRequest}]

Hub ==
  [running : BOOLEAN, receiving : BOOLEAN,
   pending : Request \cup {NoRequest}, due : Nat,
   request_sequence : 0 .. DROP_EVERY_NTH - 1,
   tx : Tx, last_request : Request \cup {NoRequest},
   pending_uart_fault : UartFaultMode \cup {NONE}, pending_sentinel : BOOLEAN,
   pending_response_parity : BOOLEAN,
   active_uart_fault : UartFaultMode \cup {NONE}, fault_left : 0 .. FAULT_TIME,
   parity : {"EVEN", "ODD"}, restore_failed : BOOLEAN, pin : BOOLEAN,
   retry : Retry,
   parity_fault_count : 0 .. MaxFaults, retry_count : Nat,
   dropped : [Units -> 0 .. COUNTER_RANGE - 1],
   outcome : {NONE, "delivered", "lost"}]

\* What the handling of a reply that is on the bus leaves alone.
Unmoved(h, t) ==
  /\ t.running = h.running /\ t.receiving = h.receiving
  /\ t.pending = h.pending /\ t.due = h.due
  /\ t.request_sequence = h.request_sequence /\ t.last_request = h.last_request
  /\ t.pending_uart_fault = h.pending_uart_fault
  /\ t.pending_sentinel = h.pending_sentinel
  /\ t.pending_response_parity = h.pending_response_parity
  /\ t.active_uart_fault = h.active_uart_fault /\ t.fault_left = h.fault_left

\* No more retries are counted, or awaited, than there were odd responses.
Counted(h) ==
  IF h.retry.awaiting THEN h.retry_count + 1 <= h.parity_fault_count
  ELSE h.retry_count <= h.parity_fault_count

\* A response with odd parity that is armed or has not begun
ParityToCome(h) ==
  h.pending_response_parity \/ (h.tx.parity_fault /\ ~h.tx.parity_queued)

Bounded(h) ==
  /\ ParityToCome(h) => h.parity_fault_count < MaxFaults
  /\ ~(h.pending_response_parity /\ h.tx.parity_fault)

Even(h) ==
  \/ h.parity = "EVEN" \/ h.restore_failed
  \/ h.active_uart_fault = "PARITY" \/ h.tx.parity_queued

\* A hub that has nothing on the bus but what its pin says
Driving(h) ==
  /\ h.pin <=> Busy(h)
  /\ ~(h.tx.active /\ h.active_uart_fault # NONE)
  /\ h.receiving => h.active_uart_fault = NONE
  /\ h.tx.parity_queued \/ h.tx.parity_fault => h.tx.active

OneArmed(h) ==
  /\ Armed(h) => h.active_uart_fault = NONE
  /\ ~(h.pending_sentinel /\ h.pending_response_parity)
  /\ h.pending_uart_fault # NONE => ~h.pending_sentinel /\ ~h.pending_response_parity

HubOK(h) ==
  /\ h \in Hub
  /\ Driving(h) /\ OneArmed(h) /\ Even(h) /\ Counted(h)
  /\ Bounded(h)

Setting == [enabled : BOOLEAN, injections : Injections \cup {{}}, delay : Delays]

Halted(h) == ~h.running /\ ~h.receiving /\ h.pending = NoRequest /\ ~h.tx.active

HubInv ==
  /\ HubOK(hub) /\ settings \in Setting
  /\ Armed(hub) => settings.enabled
  /\ hub.running \/ Halted(hub)

------------------------------------------------------------------------------
(* Driver calls and small helpers.                                         *)

LEMMA Ranges ==
  /\ FRAME_SIZE \in Nat \ {0} /\ TX_TIME \in Nat \ {0} /\ FAULT_TIME \in Nat \ {0}
  /\ RETRY_TIME \in Nat \ {0} /\ HALF_RING \in Nat \ {0} /\ MaxFaults \in Nat \ {0}
  /\ COUNTER_RANGE \in Nat \ {0} /\ DROP_EVERY_NTH \in Nat \ {0}
  /\ RETRY_TIME < HALF_RING /\ Delays \subseteq Nat
BY HubAssumption

LEMMA IdleIsTx ==
  /\ IdleTx \in Tx /\ ~IdleTx.active /\ ~IdleTx.parity_queued /\ ~IdleTx.parity_fault
BY Ranges DEF IdleTx, Tx

LEMMA DropShape ==
  ASSUME NEW h \in Hub, NEW address
  PROVE  \E d \in [Units -> 0 .. COUNTER_RANGE - 1] :
           /\ record_drop(h, address) = [h EXCEPT !.dropped = d]
           /\ address \in Units => d[address] = (h.dropped[address] + 1) % COUNTER_RANGE
<1>1. CASE address \notin Units
  <2>1. h = [h EXCEPT !.dropped = h.dropped] /\ h.dropped \in [Units -> 0 .. COUNTER_RANGE - 1]
    BY DEF Hub
  <2> QED
    BY <1>1, <2>1 DEF record_drop
<1>2. CASE address \in Units
  <2> DEFINE n == (h.dropped[address] + 1) % COUNTER_RANGE
             d == [h.dropped EXCEPT ![address] = n]
  <2>1. h.dropped \in [Units -> 0 .. COUNTER_RANGE - 1]
    BY DEF Hub
  <2>2. h.dropped[address] \in Nat
    BY <1>2, <2>1, Ranges
  <2>3. n \in 0 .. COUNTER_RANGE - 1
    BY <2>2, Ranges
  <2>4. record_drop(h, address) = [h EXCEPT !.dropped = d]
    BY <1>2 DEF record_drop
  <2> HIDE DEF n
  <2>5. d \in [Units -> 0 .. COUNTER_RANGE - 1] /\ d[address] = n
    BY <1>2, <2>1, <2>3
  <2> QED
    BY <2>4, <2>5 DEF n
<1> QED
  BY <1>1, <1>2

\* A drop is counted for the unit and changes nothing else.
LEMMA DropKeeps ==
  ASSUME NEW h \in Hub, NEW address
  PROVE  LET t == record_drop(h, address) IN
         /\ t \in Hub /\ Unmoved(h, t)
         /\ t.tx = h.tx /\ t.parity = h.parity /\ t.restore_failed = h.restore_failed
         /\ t.pin = h.pin /\ t.retry = h.retry
         /\ t.parity_fault_count = h.parity_fault_count /\ t.retry_count = h.retry_count
         /\ t.outcome = h.outcome
         /\ address \in Units =>
              t.dropped[address] = (h.dropped[address] + 1) % COUNTER_RANGE
<1>1. PICK d \in [Units -> 0 .. COUNTER_RANGE - 1] :
        /\ record_drop(h, address) = [h EXCEPT !.dropped = d]
        /\ address \in Units => d[address] = (h.dropped[address] + 1) % COUNTER_RANGE
  BY DropShape
<1> DEFINE t == [h EXCEPT !.dropped = d]
<1>2. t \in Hub
  BY DEF Hub
<1>3. t.dropped = d
  BY DEF Hub
<1>4. /\ Unmoved(h, t)
      /\ t.tx = h.tx /\ t.parity = h.parity /\ t.restore_failed = h.restore_failed
      /\ t.pin = h.pin /\ t.retry = h.retry
      /\ t.parity_fault_count = h.parity_fault_count /\ t.retry_count = h.retry_count
      /\ t.outcome = h.outcome
  BY DEF Hub, Unmoved
<1> HIDE DEF t
<1> QED
  BY <1>1, <1>2, <1>3, <1>4 DEF t

\* The parity is even again, or the driver refused.
LEMMA RestoreKeeps ==
  ASSUME NEW h \in Hub, NEW io
  PROVE  LET t == restore_uart_after_fault(h, io) IN
         /\ t \in Hub /\ Unmoved(h, t)
         /\ t.parity = "EVEN" \/ t.restore_failed
         /\ t.tx = h.tx /\ t.pin = h.pin /\ t.retry = h.retry
         /\ t.parity_fault_count = h.parity_fault_count /\ t.retry_count = h.retry_count
         /\ t.outcome = h.outcome /\ t.dropped = h.dropped
<1> DEFINE even == [h EXCEPT !.parity = "EVEN", !.restore_failed = FALSE]
           failed == [h EXCEPT !.restore_failed = TRUE]
<1>1. restore_uart_after_fault(h, io) \in {even, failed}
  BY DEF restore_uart_after_fault
<1>2. even \in Hub /\ failed \in Hub
  BY DEF Hub
<1>3. even.parity = "EVEN" /\ failed.restore_failed
  BY DEF Hub
<1>4.    /\ Unmoved(h, even)
         /\ even.tx = h.tx /\ even.pin = h.pin /\ even.retry = h.retry
         /\ even.parity_fault_count = h.parity_fault_count /\ even.retry_count = h.retry_count
         /\ even.outcome = h.outcome /\ even.dropped = h.dropped
  BY DEF Hub, Unmoved
<1>5.    /\ Unmoved(h, failed)
         /\ failed.tx = h.tx /\ failed.pin = h.pin /\ failed.retry = h.retry
         /\ failed.parity_fault_count = h.parity_fault_count /\ failed.retry_count = h.retry_count
         /\ failed.outcome = h.outcome /\ failed.dropped = h.dropped
  BY DEF Hub, Unmoved
<1> HIDE DEF even, failed
<1> QED
  BY <1>1, <1>2, <1>3, <1>4, <1>5

------------------------------------------------------------------------------
(* The transmission of a reply.                                            *)

\* The transmission is over: the bus is released and the reply settled.
Ended(h, t) ==
  /\ t \in Hub /\ Unmoved(h, t)
  /\ t.tx = IdleTx /\ ~t.pin /\ (t.parity = "EVEN" \/ t.restore_failed)
  /\ t.retry = h.retry
  /\ t.parity_fault_count = h.parity_fault_count /\ t.retry_count = h.retry_count
  /\ \/ t.outcome = "delivered"
     \/ h.tx.unit \in Units =>
          t.dropped[h.tx.unit] = (h.dropped[h.tx.unit] + 1) % COUNTER_RANGE

\* A reply may be on the bus: an odd parity is that of the reply.
Sending(h) ==
  /\ h \in Hub /\ h.active_uart_fault = NONE
  /\ h.parity = "EVEN" \/ h.restore_failed \/ h.tx.parity_queued

LEMMA AbortEnds ==
  ASSUME NEW h, Sending(h), NEW io
  PROVE  Ended(h, abort_tx(h, io))
<1> DEFINE restored == IF h.tx.parity_queued THEN restore_uart_after_fault(h, io) ELSE h
           dropped == record_drop(restored, h.tx.unit)
           t == [dropped EXCEPT !.pin = FALSE, !.tx = IdleTx]
<1>1. abort_tx(h, io) = t
  BY DEF abort_tx
<1>2. /\ restored \in Hub /\ Unmoved(h, restored)
      /\ restored.parity = "EVEN" \/ restored.restore_failed
      /\ restored.retry = h.retry
      /\ restored.parity_fault_count = h.parity_fault_count
      /\ restored.retry_count = h.retry_count /\ restored.dropped = h.dropped
  BY RestoreKeeps DEF Sending, Unmoved
<1> HIDE DEF restored
<1>3. /\ dropped \in Hub /\ Unmoved(restored, dropped)
      /\ dropped.parity = restored.parity /\ dropped.restore_failed = restored.restore_failed
      /\ dropped.retry = restored.retry
      /\ dropped.parity_fault_count = restored.parity_fault_count
      /\ dropped.retry_count = restored.retry_count
      /\ h.tx.unit \in Units =>
           dropped.dropped[h.tx.unit] = (restored.dropped[h.tx.unit] + 1) % COUNTER_RANGE
  BY <1>2, DropKeeps
<1> HIDE DEF dropped
<1>4. t \in Hub
  BY <1>3, IdleIsTx DEF Hub
<1>5. t.tx = IdleTx /\ ~t.pin
  BY <1>3 DEF Hub
<1>6. /\ Unmoved(dropped, t)
      /\ t.parity = dropped.parity /\ t.restore_failed = dropped.restore_failed
      /\ t.retry = dropped.retry
      /\ t.parity_fault_count = dropped.parity_fault_count
      /\ t.retry_count = dropped.retry_count /\ t.dropped = dropped.dropped
  BY <1>3 DEF Hub, Unmoved
<1> HIDE DEF t
<1>7. Unmoved(h, t)
  BY <1>2, <1>3, <1>6 DEF Unmoved
<1> QED
  BY <1>1, <1>2, <1>3, <1>4, <1>5, <1>6, <1>7 DEF Ended

LEMMA AwaitEnds ==
  ASSUME NEW h, Sending(h), NEW io \in IO
  PROVE  await_tx_done(h, io) = h \/ Ended(h, await_tx_done(h, io))
<1> DEFINE restored == IF h.tx.parity_queued THEN restore_uart_after_fault(h, io) ELSE h
           failed == abort_tx(restored, AfterFailure(io))
           t == [restored EXCEPT !.pin = FALSE, !.tx = IdleTx, !.outcome = "delivered"]
<1>1. io.status \in {"OK", "TIMEOUT", "ERROR"}
  BY DEF IO
<1>2. await_tx_done(h, io) \in {h, abort_tx(h, io), failed, t}
  BY <1>1 DEF await_tx_done
<1>3. /\ restored \in Hub /\ Unmoved(h, restored)
      /\ restored.parity = "EVEN" \/ restored.restore_failed
      /\ restored.retry = h.retry /\ restored.tx = h.tx
      /\ restored.parity_fault_count = h.parity_fault_count
      /\ restored.retry_count = h.retry_count /\ restored.dropped = h.dropped
  BY RestoreKeeps DEF Sending, Unmoved
<1> HIDE DEF restored
<1>4. t \in Hub
  BY <1>3, IdleIsTx DEF Hub
<1>5. t.tx = IdleTx /\ ~t.pin /\ t.outcome = "delivered"
  BY <1>3 DEF Hub
<1>6. /\ Unmoved(restored, t)
      /\ t.parity = restored.parity /\ t.restore_failed = restored.restore_failed
      /\ t.retry = restored.retry
      /\ t.parity_fault_count = restored.parity_fault_count
      /\ t.retry_count = restored.retry_count
  BY <1>3 DEF Hub, Unmoved
<1> HIDE DEF t
<1>7. Unmoved(h, t)
  BY <1>3, <1>6 DEF Unmoved
<1>8. Ended(h, t)
  BY <1>3, <1>4, <1>5, <1>6, <1>7 DEF Ended
<1>9. Sending(restored)
  BY <1>3 DEF Sending, Unmoved
<1>10. Ended(restored, failed)
  BY <1>9, AbortEnds
<1> HIDE DEF failed
<1>11. Ended(h, failed)
  BY <1>3, <1>10 DEF Ended, Unmoved
<1> QED
  BY <1>2, <1>8, <1>11, AbortEnds

OddShape(h, t) ==
  /\ t \in Hub /\ Unmoved(h, t)
  /\ t.outcome = h.outcome /\ t.dropped = h.dropped /\ t.pin = h.pin
  /\ t.tx.active = h.tx.active /\ t.tx.unit = h.tx.unit
  /\ t.tx.parity_fault = h.tx.parity_fault /\ t.tx.parity_queued
  /\ t.tx.unqueued = h.tx.unqueued
  /\ t.retry.awaiting /\ t.retry_count = h.retry_count
  /\ t.parity_fault_count = h.parity_fault_count + 1

LEMMA QueueOdd ==
  ASSUME NEW h \in Hub, h.parity_fault_count < MaxFaults
  PROVE  OddShape(h, queue_odd_parity(h))
<1> DEFINE tx == [h.tx EXCEPT !.parity_queued = TRUE]
           n == h.parity_fault_count + 1
           retry == [awaiting |-> TRUE, left |-> RETRY_TIME, request |-> h.last_request]
           t == [h EXCEPT !.parity = "ODD", !.tx = tx, !.parity_fault_count = n, !.retry = retry]
<1>1. queue_odd_parity(h) = t
  BY DEF queue_odd_parity, Hub, Tx
<1>2. h.tx \in Tx /\ h.parity_fault_count \in 0 .. MaxFaults
      /\ h.last_request \in Request \cup {NoRequest}
  BY DEF Hub
<1>3. tx \in Tx
  BY <1>2 DEF Tx
<1>4. /\ tx.parity_queued /\ tx.active = h.tx.active /\ tx.unit = h.tx.unit
      /\ tx.parity_fault = h.tx.parity_fault /\ tx.unqueued = h.tx.unqueued
  BY <1>2 DEF Tx
<1>5. n \in 0 .. MaxFaults
  BY <1>2, Ranges
<1>6. RETRY_TIME \in -HALF_RING .. HALF_RING - 1
  BY Ranges
<1>7. retry \in Retry /\ retry.awaiting
  BY <1>2, <1>6 DEF Retry
<1> HIDE DEF tx, n, retry
<1>8. t \in Hub
  BY <1>3, <1>5, <1>7 DEF Hub
<1>9. t.tx = tx /\ t.retry = retry /\ t.parity_fault_count = n
  BY DEF Hub
<1>10. /\ Unmoved(h, t) /\ t.outcome = h.outcome /\ t.dropped = h.dropped
       /\ t.pin = h.pin /\ t.retry_count = h.retry_count
  BY DEF Hub, Unmoved
<1> HIDE DEF t
<1> QED
  BY <1>1, <1>4, <1>7, <1>8, <1>9, <1>10 DEF OddShape, n

\* A reply is on the bus, as it is between the stages of a loop.
OnBus(h) ==
  /\ Sending(h) /\ h.tx.active /\ h.pin /\ Counted(h) /\ Bounded(h)

\* A reply goes on as it was, its time and its bytes apart.
Continues(h, t) ==
  /\ OnBus(t) /\ Unmoved(h, t)
  /\ t.outcome = h.outcome /\ t.dropped = h.dropped /\ t.tx.unit = h.tx.unit

\* A reply is still on the bus, or it is settled.
Pumped(h, t) ==
  /\ t \in Hub /\ Unmoved(h, t) /\ Counted(t) /\ Bounded(t)
  /\ \/ Continues(h, t)
     \/ /\ ~t.tx.active /\ ~t.pin /\ ~t.tx.parity_queued /\ ~t.tx.parity_fault
        /\ t.parity = "EVEN" \/ t.restore_failed
        /\ \/ t.outcome = "delivered"
           \/ h.tx.unit \in Units =>
                t.dropped[h.tx.unit] = (h.dropped[h.tx.unit] + 1) % COUNTER_RANGE

LEMMA ContinuesTwice ==
  ASSUME NEW h, NEW s, NEW t, Continues(h, s), Continues(s, t)
  PROVE  Continues(h, t)
BY DEF Continues, Unmoved

LEMMA ContinuesPumped ==
  ASSUME NEW h, NEW s, NEW t, Continues(h, s), Pumped(s, t)
  PROVE  Pumped(h, t)
BY DEF Continues, Pumped, Unmoved

LEMMA EndedPumped ==
  ASSUME NEW h, NEW t, OnBus(h), Ended(h, t)
  PROVE  Pumped(h, t)
<1>1. Counted(t)
  BY DEF OnBus, Ended, Counted
<1>2. Bounded(t)
  BY IdleIsTx DEF OnBus, Ended, Bounded, ParityToCome, Unmoved
<1> QED
  BY <1>1, <1>2, IdleIsTx DEF Ended, Pumped

LEMMA OddContinues ==
  ASSUME NEW h, OnBus(h), h.tx.parity_fault, ~h.tx.parity_queued
  PROVE  Continues(h, queue_odd_parity(h))
<1> DEFINE t == queue_odd_parity(h)
<1>1. h \in Hub /\ h.parity_fault_count < MaxFaults /\ ~h.pending_response_parity
  BY DEF OnBus, Sending, Bounded, ParityToCome
<1>2. OddShape(h, t)
  BY <1>1, QueueOdd
<1> HIDE DEF t
<1>3. Sending(t)
  BY <1>2 DEF OnBus, Sending, OddShape, Unmoved
<1>4. h.parity_fault_count \in Nat /\ h.retry_count \in Nat
  BY <1>1 DEF Hub
<1>5. h.retry_count <= h.parity_fault_count
  BY <1>4 DEF OnBus, Counted
<1>6. Counted(t)
  BY <1>2, <1>4, <1>5 DEF Counted, OddShape
<1>7. Bounded(t)
  BY <1>1, <1>2 DEF Bounded, ParityToCome, OddShape, Unmoved
<1> QED
  BY <1>2, <1>3, <1>6, <1>7 DEF t, OnBus, Continues, OddShape

LEMMA TakenContinues ==
  ASSUME NEW h, OnBus(h), NEW n \in Nat
  PROVE  LET t == [h EXCEPT !.tx.unqueued = @ - Lesser(n, @)] IN
         Continues(h, t)
<1> DEFINE left == h.tx.unqueued - Lesser(n, h.tx.unqueued)
           tx == [h.tx EXCEPT !.unqueued = left]
           t == [h EXCEPT !.tx = tx]
<1>1. h \in Hub /\ h.tx \in Tx
  BY DEF OnBus, Sending, Hub
<1>2. [h EXCEPT !.tx.unqueued = @ - Lesser(n, @)] = t
  BY <1>1 DEF Hub, Tx
<1>3. left \in 0 .. FRAME_SIZE
  BY <1>1, Ranges DEF Tx, Lesser
<1> HIDE DEF left
<1>4. tx \in Tx
  BY <1>1, <1>3 DEF Tx
<1>5. /\ tx.active = h.tx.active /\ tx.unit = h.tx.unit
      /\ tx.parity_fault = h.tx.parity_fault /\ tx.parity_queued = h.tx.parity_queued
  BY <1>1 DEF Tx
<1> HIDE DEF tx
<1>6. t \in Hub
  BY <1>1, <1>4 DEF Hub
<1>7. /\ Unmoved(h, t) /\ t.outcome = h.outcome /\ t.dropped = h.dropped
      /\ t.pin = h.pin /\ t.parity = h.parity /\ t.restore_failed = h.restore_failed
      /\ t.retry = h.retry /\ t.retry_count = h.retry_count
      /\ t.parity_fault_count = h.parity_fault_count /\ t.tx = tx
  BY <1>1 DEF Hub, Unmoved
<1> HIDE DEF t
<1>8. Sending(t)
  BY <1>5, <1>6, <1>7 DEF OnBus, Sending, Unmoved
<1>9. Counted(t) /\ Bounded(t)
  BY <1>5, <1>7 DEF OnBus, Counted, Bounded, ParityToCome, Unmoved
<1> QED
  BY <1>2, <1>5, <1>7, <1>8, <1>9 DEF OnBus, Continues

LEMMA PumpOnBus ==
  ASSUME NEW h, OnBus(h), NEW io \in IO
  PROVE  Pumped(h, pump_tx(h, io))
<1> DEFINE starts == h.tx.parity_fault /\ ~h.tx.parity_queued /\ h.tx.unqueued = FRAME_SIZE
           odd == IF starts THEN queue_odd_parity(h) ELSE h
           queued == [odd EXCEPT !.tx.unqueued = @ - Lesser(io.written, @)]
<1>1. pump_tx(h, io) = IF starts /\ ~io.parity_ok THEN abort_tx(h, io)
                       ELSE IF io.written < 0 THEN abort_tx(odd, io)
                       ELSE IF queued.tx.unqueued > 0
                            THEN IF TxExpired(h) THEN abort_tx(queued, io) ELSE queued
                       ELSE await_tx_done(queued, io)
  BY DEF pump_tx, OnBus
<1>2. \A g : OnBus(g) => Sending(g)
  BY DEF OnBus
<1>3. \A g : OnBus(g) => Pumped(g, abort_tx(g, io))
  BY <1>2, AbortEnds, EndedPumped
<1>4. \A g : OnBus(g) => Continues(g, g) /\ Pumped(g, g)
  BY DEF Continues, Pumped, Unmoved, OnBus, Sending
<1>5. \A g : OnBus(g) => Pumped(g, await_tx_done(g, io))
  BY <1>2, <1>4, AwaitEnds, EndedPumped
<1>6. Continues(h, odd)
  BY <1>4, OddContinues
<1>7. OnBus(odd)
  BY <1>6 DEF Continues
<1> HIDE DEF odd
<1>8. io.written \in Int
  BY DEF IO
<1>9. io.written >= 0 => Continues(odd, queued)
  BY <1>7, <1>8, TakenContinues
<1> HIDE DEF queued, starts
<1>10. io.written >= 0 => Continues(h, queued) /\ OnBus(queued)
  BY <1>6, <1>9, ContinuesTwice DEF Continues
<1>11. CASE starts /\ ~io.parity_ok
  BY <1>1, <1>3, <1>11
<1>12. CASE ~(starts /\ ~io.parity_ok) /\ io.written < 0
  BY <1>1, <1>3, <1>6, <1>7, <1>12, ContinuesPumped
<1>13. CASE ~(starts /\ ~io.parity_ok) /\ ~(io.written < 0)
  <2>1. Pumped(queued, pump_tx(h, io))
    BY <1>1, <1>3, <1>4, <1>5, <1>8, <1>10, <1>13
  <2> QED
    BY <1>8, <1>10, <1>13, <2>1, ContinuesPumped
<1> QED
  BY <1>11, <1>12, <1>13

LEMMA PumpedOK ==
  ASSUME NEW h, NEW t, h.active_uart_fault = NONE, OneArmed(h), Pumped(h, t)
  PROVE  HubOK(t)
<1>1. t \in Hub /\ Unmoved(h, t) /\ Counted(t) /\ Bounded(t)
  BY DEF Pumped
<1>2. t.active_uart_fault = NONE
  BY <1>1 DEF Unmoved
<1>3. OneArmed(t)
  BY <1>1 DEF OneArmed, Armed, Unmoved
<1>4. CASE Continues(h, t)
  BY <1>1, <1>2, <1>3, <1>4 DEF HubOK, Driving, Busy, Even, Continues, OnBus, Sending
<1>5. CASE ~Continues(h, t)
  BY <1>1, <1>2, <1>3, <1>5 DEF HubOK, Driving, Busy, Even, Pumped
<1> QED
  BY <1>4, <1>5

\* A reply is only begun on a free line: it is on the bus then, settled at once,
\* or lost to the other that is there.
SentAs(h, t, address) ==
  /\ HubOK(t)
  /\ t.running = h.running /\ t.receiving = h.receiving
  /\ t.pending = h.pending /\ t.active_uart_fault = NONE
  /\ Armed(t) => Armed(h)
  /\ h.tx.active => t.tx = h.tx
  /\ \/ t.tx.active \/ t.outcome # NONE
     \/ address \in Units =>
          t.dropped[address] = (h.dropped[address] + 1) % COUNTER_RANGE

LEMMA LostOK ==
  ASSUME NEW h, HubOK(h), h.active_uart_fault = NONE, NEW address
  PROVE  SentAs(h, [h EXCEPT !.outcome = "lost"], address)
<1> DEFINE t == [h EXCEPT !.outcome = "lost"]
<1>1. h \in Hub
  BY DEF HubOK
<1>2. t \in Hub
  BY <1>1 DEF Hub
<1>3. /\ Unmoved(h, t) /\ t.outcome = "lost"
      /\ t.tx = h.tx /\ t.pin = h.pin /\ t.parity = h.parity
      /\ t.restore_failed = h.restore_failed /\ t.retry = h.retry
      /\ t.retry_count = h.retry_count /\ t.parity_fault_count = h.parity_fault_count
  BY <1>1 DEF Hub, Unmoved
<1> HIDE DEF t
<1>4. Counted(t) /\ Bounded(t) /\ Even(t) /\ OneArmed(t)
  BY <1>3 DEF HubOK, Counted, Bounded, ParityToCome, Even, OneArmed, Armed, Unmoved
<1>5. Driving(t)
  BY <1>3 DEF HubOK, Driving, Busy, Unmoved
<1>6. HubOK(t)
  BY <1>2, <1>4, <1>5 DEF HubOK
<1>7. t.outcome # NONE
  BY <1>3 DEF NONE
<1> QED
  BY <1>3, <1>6, <1>7 DEF SentAs, Unmoved, Armed, t

LEMMA ArmingIsHub ==
  ASSUME NEW h \in Hub, NEW s \in BOOLEAN, NEW p \in BOOLEAN
  PROVE  [[h EXCEPT !.pending_sentinel = s] EXCEPT !.pending_response_parity = p] \in Hub
<1>1. [h EXCEPT !.pending_sentinel = s] \in Hub
  BY DEF Hub
<1>2. ASSUME NEW g \in Hub PROVE [g EXCEPT !.pending_response_parity = p] \in Hub
  BY DEF Hub
<1> QED
  BY <1>1, <1>2

LEMMA SendKeeps ==
  ASSUME NEW h, HubOK(h), h.active_uart_fault = NONE, NEW address,
         NEW reply \in {"read", "write", "exception"}, NEW long \in BOOLEAN,
         NEW quiet \in BOOLEAN, NEW io \in IO
  PROVE  SentAs(h, send_pdu(h, address, reply, long, quiet, io), address)
<1>1. CASE h.tx.active \/ ~quiet
  <2>1. send_pdu(h, address, reply, long, quiet, io) = [h EXCEPT !.outcome = "lost"]
    BY <1>1 DEF send_pdu
  <2> QED
    BY <2>1, LostOK
<1>2. CASE ~(h.tx.active \/ ~quiet)
  <2> DEFINE marked == Armed([h EXCEPT !.pending_uart_fault = NONE]) /\ Markable(h, reply, long)
             fault == marked /\ h.pending_response_parity
             unit == IF address \in Units THEN address ELSE UNKNOWN
             tx == [active |-> TRUE, unit |-> unit, reply |-> reply, marked |-> marked,
                    parity_fault |-> fault, parity_queued |-> FALSE,
                    unqueued |-> FRAME_SIZE, left |-> TX_TIME]
             sentinel == h.pending_sentinel /\ ~marked
             parity == h.pending_response_parity /\ ~marked
             t == [h EXCEPT !.tx = tx, !.pending_sentinel = sentinel,
                            !.pending_response_parity = parity, !.pin = TRUE]
  <2>1. send_pdu(h, address, reply, long, quiet, io) = pump_tx(t, io)
    <3>1. h \in Hub
      BY DEF HubOK
    <3> QED
      BY <1>2, <3>1 DEF send_pdu, Hub
  <2>2. h \in Hub /\ marked \in BOOLEAN /\ h.pending_response_parity \in BOOLEAN
        /\ h.pending_sentinel \in BOOLEAN
    BY DEF HubOK, Hub, Markable, Armed
  <2> HIDE DEF marked
  <2>3. /\ fault \in BOOLEAN /\ sentinel \in BOOLEAN /\ parity \in BOOLEAN
        /\ unit \in Units \cup {UNKNOWN} /\ (address \in Units => unit = address)
    BY <2>2
  <2>4. /\ parity => h.pending_response_parity /\ ~fault
        /\ fault => h.pending_response_parity
        /\ sentinel => h.pending_sentinel
    OBVIOUS
  <2> HIDE DEF fault, sentinel, parity, unit
  <2>5. tx \in Tx
    BY <2>2, <2>3, Ranges DEF Tx
  <2>6. tx.active /\ ~tx.parity_queued /\ tx.parity_fault = fault /\ tx.unit = unit
    OBVIOUS
  <2> HIDE DEF tx
  <2>7. t \in Hub
    <3>1. [h EXCEPT !.tx = tx, !.pin = TRUE] \in Hub
      BY <2>2, <2>5 DEF Hub
    <3>2. t = [[[h EXCEPT !.tx = tx, !.pin = TRUE]
                  EXCEPT !.pending_sentinel = sentinel] EXCEPT !.pending_response_parity = parity]
      BY <2>2 DEF Hub
    <3> QED
      BY <2>3, <3>1, <3>2, ArmingIsHub
  <2>8. /\ t.tx = tx /\ t.pin /\ t.pending_sentinel = sentinel
        /\ t.pending_response_parity = parity
    BY <2>2 DEF Hub
  <2>9. /\ t.running = h.running /\ t.receiving = h.receiving /\ t.pending = h.pending
        /\ t.active_uart_fault = NONE /\ t.pending_uart_fault = h.pending_uart_fault
        /\ t.parity = h.parity /\ t.restore_failed = h.restore_failed
        /\ t.retry = h.retry /\ t.retry_count = h.retry_count
        /\ t.parity_fault_count = h.parity_fault_count
        /\ t.dropped = h.dropped
    BY <2>2 DEF Hub
  <2> HIDE DEF t
  <2>10. OneArmed(t) /\ (Armed(t) => Armed(h))
    BY <2>4, <2>8, <2>9 DEF HubOK, OneArmed, Armed
  <2>11. Sending(t)
    BY <1>2, <2>7, <2>9 DEF Sending, HubOK, Even, Driving, NONE
  <2>12. Counted(t)
    BY <2>9 DEF HubOK, Counted
  <2>13. Bounded(t)
    BY <2>4, <2>6, <2>8, <2>9 DEF HubOK, Bounded, ParityToCome
  <2>14. Pumped(t, pump_tx(t, io))
    BY <2>6, <2>8, <2>11, <2>12, <2>13, PumpOnBus DEF OnBus
  <2> DEFINE end == pump_tx(t, io)
  <2> HIDE DEF end
  <2>15. HubOK(end)
    BY <2>9, <2>10, <2>14, PumpedOK DEF end
  <2>16. Unmoved(t, end) /\ (Armed(end) <=> Armed(t))
    BY <2>14 DEF Pumped, Unmoved, Armed, end
  <2>17. \/ end.tx.active \/ end.outcome # NONE
         \/ address \in Units =>
              end.dropped[address] = (h.dropped[address] + 1) % COUNTER_RANGE
    BY <2>3, <2>6, <2>8, <2>9, <2>14 DEF Pumped, Continues, OnBus, NONE, end
  <2>18. SentAs(h, end, address)
    BY <1>2, <2>9, <2>10, <2>15, <2>16, <2>17 DEF SentAs, Unmoved
  <2> QED
    BY <2>1, <2>18 DEF end
<1> QED
  BY <1>1, <1>2

\* What HubOK speaks of, types apart.
Controls(h, t) ==
  /\ t.receiving => h.receiving
  /\ t.tx = h.tx /\ t.pin = h.pin
  /\ t.parity = h.parity /\ t.restore_failed = h.restore_failed
  /\ t.retry = h.retry /\ t.retry_count = h.retry_count
  /\ t.parity_fault_count = h.parity_fault_count
  /\ t.pending_uart_fault = h.pending_uart_fault
  /\ t.pending_sentinel = h.pending_sentinel
  /\ t.pending_response_parity = h.pending_response_parity
  /\ t.active_uart_fault = h.active_uart_fault

LEMMA ControlsOK ==
  ASSUME NEW h, NEW t, HubOK(h), t \in Hub, Controls(h, t)
  PROVE  HubOK(t) /\ (Armed(t) <=> Armed(h))
<1>1. Counted(t) /\ Bounded(t) /\ Even(t) /\ OneArmed(t) /\ (Armed(t) <=> Armed(h))
  BY DEF HubOK, Controls, Counted, Bounded, ParityToCome, Even, OneArmed, Armed
<1>2. Driving(t)
  BY DEF HubOK, Controls, Driving, Busy
<1> QED
  BY <1>1, <1>2 DEF HubOK

------------------------------------------------------------------------------
(* The one-shot faults on the UART.                                        *)

FaultStep(h, t) ==
  /\ HubOK(t)
  /\ t.running = h.running /\ t.receiving = h.receiving /\ t.pending = h.pending
  /\ t.tx = h.tx /\ t.outcome = h.outcome /\ t.dropped = h.dropped
  /\ Armed(t) => Armed(h)

\* A fault is over, or did not begin: the bus is free and the parity restored.
LEMMA ReleasedOK ==
  ASSUME NEW h, HubOK(h), ~h.tx.active, NEW t \in Hub, ~t.pin, ~t.receiving,
         t.tx = h.tx, t.active_uart_fault = NONE,
         t.parity = "EVEN" \/ t.restore_failed,
         t.retry = h.retry, t.retry_count = h.retry_count,
         t.parity_fault_count = h.parity_fault_count,
         t.pending_uart_fault \in {NONE, h.pending_uart_fault},
         t.pending_sentinel = h.pending_sentinel,
         t.pending_response_parity = h.pending_response_parity
  PROVE  HubOK(t) /\ (Armed(t) => Armed(h))
<1>1. OneArmed(t) /\ (Armed(t) => Armed(h))
  BY DEF HubOK, OneArmed, Armed
<1>2. Counted(t) /\ Bounded(t) /\ Even(t)
  BY DEF HubOK, Counted, Bounded, ParityToCome, Even
<1>3. Driving(t)
  BY DEF HubOK, Driving, Busy
<1> QED
  BY <1>1, <1>2, <1>3 DEF HubOK

LEMMA EndFaultKeeps ==
  ASSUME NEW h, HubOK(h), ~h.receiving, h.active_uart_fault # NONE, NEW io \in IO
  PROVE  FaultStep(h, end_uart_fault(h, io))
<1> DEFINE restored == restore_uart_after_fault(h, io)
           t == [restored EXCEPT !.pin = FALSE, !.active_uart_fault = NONE, !.fault_left = 0]
<1>1. end_uart_fault(h, io) = t
  BY DEF end_uart_fault
<1>2. h \in Hub /\ ~h.tx.active
  BY DEF HubOK, Driving
<1>3. /\ restored \in Hub /\ Unmoved(h, restored)
      /\ restored.parity = "EVEN" \/ restored.restore_failed
      /\ restored.tx = h.tx /\ restored.retry = h.retry
      /\ restored.parity_fault_count = h.parity_fault_count
      /\ restored.retry_count = h.retry_count
      /\ restored.outcome = h.outcome /\ restored.dropped = h.dropped
  BY <1>2, RestoreKeeps
<1> HIDE DEF restored
<1>4. 0 \in 0 .. FAULT_TIME
  BY Ranges
<1>5. t \in Hub
  BY <1>3, <1>4 DEF Hub
<1>6. ~t.pin /\ t.active_uart_fault = NONE
  BY <1>3 DEF Hub
<1>7. /\ t.running = restored.running /\ t.receiving = restored.receiving
      /\ t.pending = restored.pending /\ t.tx = restored.tx
      /\ t.parity = restored.parity /\ t.restore_failed = restored.restore_failed
      /\ t.retry = restored.retry
      /\ t.parity_fault_count = restored.parity_fault_count
      /\ t.retry_count = restored.retry_count
      /\ t.pending_uart_fault = restored.pending_uart_fault
      /\ t.pending_sentinel = restored.pending_sentinel
      /\ t.pending_response_parity = restored.pending_response_parity
      /\ t.outcome = restored.outcome /\ t.dropped = restored.dropped
  BY <1>3 DEF Hub
<1> HIDE DEF t
<1>8. /\ t.running = h.running /\ t.receiving = h.receiving /\ t.pending = h.pending
      /\ t.pending_uart_fault = h.pending_uart_fault
      /\ t.pending_sentinel = h.pending_sentinel
      /\ t.pending_response_parity = h.pending_response_parity
  BY <1>3, <1>7 DEF Unmoved
<1>9. HubOK(t) /\ (Armed(t) => Armed(h))
  BY <1>2, <1>3, <1>5, <1>6, <1>7, <1>8, ReleasedOK
<1> QED
  BY <1>1, <1>3, <1>7, <1>8, <1>9 DEF FaultStep

\* A fault is taken up, and begins.
LEMMA FaultIsHub ==
  ASSUME NEW h \in Hub
  PROVE  /\ \A p \in {"EVEN", "ODD"} :
              [[h EXCEPT !.parity = p] EXCEPT !.pending_uart_fault = NONE] \in Hub
         /\ \A mode \in UartFaultMode, n \in 0 .. FAULT_TIME :
              [[h EXCEPT !.active_uart_fault = mode] EXCEPT !.fault_left = n] \in Hub
         /\ [h EXCEPT !.pin = TRUE] \in Hub
<1>1. ASSUME NEW p \in {"EVEN", "ODD"} PROVE [h EXCEPT !.parity = p] \in Hub
  BY <1>1 DEF Hub
<1>2. ASSUME NEW g \in Hub PROVE [g EXCEPT !.pending_uart_fault = NONE] \in Hub
  BY <1>2 DEF Hub
<1>3. ASSUME NEW mode \in UartFaultMode PROVE [h EXCEPT !.active_uart_fault = mode] \in Hub
  BY <1>3 DEF Hub
<1>4. ASSUME NEW g \in Hub, NEW n \in 0 .. FAULT_TIME PROVE [g EXCEPT !.fault_left = n] \in Hub
  BY <1>4 DEF Hub
<1>5. [h EXCEPT !.pin = TRUE] \in Hub
  BY DEF Hub
<1> QED
  BY <1>1, <1>2, <1>3, <1>4, <1>5

LEMMA BeginFaultKeeps ==
  ASSUME NEW h, HubOK(h), ~h.receiving, ~h.tx.active, h.active_uart_fault = NONE,
         h.pending_uart_fault # NONE, NEW io \in IO,
         NEW mode, mode = h.pending_uart_fault,
         NEW odd \in BOOLEAN, odd => mode = "PARITY"
  PROVE  LET taken == [h EXCEPT !.pending_uart_fault = NONE,
                                !.parity = IF odd THEN "ODD" ELSE @]
         IN  /\ FaultStep(h, [restore_uart_after_fault(taken, io) EXCEPT !.pin = FALSE])
             /\ FaultStep(h, [taken EXCEPT !.pin = TRUE, !.active_uart_fault = mode,
                                           !.fault_left = FAULT_TIME])
<1> DEFINE parity == IF odd THEN "ODD" ELSE h.parity
           taken == [h EXCEPT !.pending_uart_fault = NONE, !.parity = parity]
           restored == restore_uart_after_fault(taken, io)
           t == [restored EXCEPT !.pin = FALSE]
           b == [taken EXCEPT !.pin = TRUE, !.active_uart_fault = mode, !.fault_left = FAULT_TIME]
<1>1. h \in Hub /\ mode \in UartFaultMode
  BY DEF HubOK, Hub
<1>2. [h EXCEPT !.pending_uart_fault = NONE, !.parity = IF odd THEN "ODD" ELSE @] = taken
  BY <1>1 DEF Hub
<1>3. parity \in {"EVEN", "ODD"} /\ (mode # "PARITY" => parity = h.parity)
  BY <1>1 DEF Hub
<1> HIDE DEF parity
<1>4. taken \in Hub
  <2>1. [[h EXCEPT !.parity = parity] EXCEPT !.pending_uart_fault = NONE] \in Hub
    BY <1>1, <1>3, FaultIsHub
  <2>2. taken = [[h EXCEPT !.parity = parity] EXCEPT !.pending_uart_fault = NONE]
    BY <1>1 DEF Hub
  <2> QED
    BY <2>1, <2>2
<1>5. taken.pending_uart_fault = NONE /\ taken.parity = parity
  BY <1>1 DEF Hub
<1>6. /\ taken.running = h.running /\ taken.receiving = h.receiving
      /\ taken.pending = h.pending /\ taken.tx = h.tx
      /\ taken.restore_failed = h.restore_failed
      /\ taken.retry = h.retry
      /\ taken.parity_fault_count = h.parity_fault_count
      /\ taken.retry_count = h.retry_count
      /\ taken.pending_sentinel = h.pending_sentinel
      /\ taken.pending_response_parity = h.pending_response_parity
      /\ taken.active_uart_fault = h.active_uart_fault
      /\ taken.outcome = h.outcome /\ taken.dropped = h.dropped
  BY <1>1 DEF Hub
<1> HIDE DEF taken
<1>7. FaultStep(h, t)
  <2>1. /\ restored \in Hub /\ Unmoved(taken, restored)
        /\ restored.parity = "EVEN" \/ restored.restore_failed
        /\ restored.tx = taken.tx /\ restored.retry = taken.retry
        /\ restored.parity_fault_count = taken.parity_fault_count
        /\ restored.retry_count = taken.retry_count
        /\ restored.outcome = taken.outcome /\ restored.dropped = taken.dropped
    BY <1>4, RestoreKeeps
  <2> HIDE DEF restored
  <2>2. t \in Hub
    BY <2>1 DEF Hub
  <2>3. ~t.pin
    BY <2>1 DEF Hub
  <2>4. /\ Unmoved(restored, t) /\ t.tx = restored.tx
        /\ t.parity = restored.parity /\ t.restore_failed = restored.restore_failed
        /\ t.retry = restored.retry
        /\ t.parity_fault_count = restored.parity_fault_count
        /\ t.retry_count = restored.retry_count
        /\ t.outcome = restored.outcome /\ t.dropped = restored.dropped
    BY <2>1 DEF Hub, Unmoved
  <2> HIDE DEF t
  <2>5. HubOK(t) /\ (Armed(t) => Armed(h))
    BY <1>5, <1>6, <2>1, <2>2, <2>3, <2>4, ReleasedOK DEF Unmoved
  <2> QED
    BY <1>6, <2>1, <2>4, <2>5 DEF FaultStep, Unmoved
<1>8. FaultStep(h, b)
  <2>1. FAULT_TIME \in 0 .. FAULT_TIME
    BY Ranges
  <2>2. b \in Hub
    <3>1. [[taken EXCEPT !.active_uart_fault = mode] EXCEPT !.fault_left = FAULT_TIME] \in Hub
      BY <1>1, <1>4, <2>1, FaultIsHub
    <3>2. \A g \in Hub : [g EXCEPT !.pin = TRUE] \in Hub
      BY FaultIsHub
    <3>3. b = [[[taken EXCEPT !.active_uart_fault = mode] EXCEPT !.fault_left = FAULT_TIME]
                 EXCEPT !.pin = TRUE]
      BY <1>4 DEF Hub
    <3> QED
      BY <3>1, <3>2, <3>3
  <2>3. b.pin /\ b.active_uart_fault = mode
    BY <1>4 DEF Hub
  <2>4. /\ b.running = taken.running /\ b.receiving = taken.receiving
        /\ b.pending = taken.pending /\ b.tx = taken.tx
        /\ b.parity = taken.parity /\ b.restore_failed = taken.restore_failed
        /\ b.retry = taken.retry
        /\ b.parity_fault_count = taken.parity_fault_count
        /\ b.retry_count = taken.retry_count
        /\ b.pending_uart_fault = taken.pending_uart_fault
        /\ b.pending_sentinel = taken.pending_sentinel
        /\ b.pending_response_parity = taken.pending_response_parity
        /\ b.outcome = taken.outcome /\ b.dropped = taken.dropped
    BY <1>4 DEF Hub
  <2> HIDE DEF b
  <2>5. ~Armed(b) /\ OneArmed(b)
    BY <1>5, <1>6, <2>4 DEF HubOK, OneArmed, Armed
  <2>6. Counted(b) /\ Bounded(b)
    BY <1>6, <2>4 DEF HubOK, Counted, Bounded, ParityToCome
  <2>7. Even(b)
    BY <1>3, <1>5, <1>6, <2>3, <2>4 DEF HubOK, Driving, Even, NONE
  <2>8. Driving(b)
    BY <1>6, <2>3, <2>4 DEF HubOK, Driving, Busy
  <2>9. HubOK(b)
    BY <2>2, <2>5, <2>6, <2>7, <2>8 DEF HubOK
  <2> QED
    BY <1>6, <2>4, <2>5, <2>9 DEF FaultStep
<1> QED
  BY <1>2, <1>7, <1>8 DEF taken

LEMMA PumpFaultKeeps ==
  ASSUME NEW h, HubOK(h), ~h.receiving, NEW quiet \in BOOLEAN, NEW io \in IO
  PROVE  FaultStep(h, pump_uart_fault(h, quiet, io))
<1>1. FaultStep(h, h)
  BY DEF FaultStep
<1>2. CASE h.active_uart_fault # NONE
  BY <1>1, <1>2, EndFaultKeeps DEF pump_uart_fault
<1>3. CASE /\ h.active_uart_fault = NONE
           /\ h.pending_uart_fault # NONE
           /\ settings.enabled
           /\ bus_idle_for_uart_fault(h, quiet)
  <2> DEFINE mode == h.pending_uart_fault
             odd == mode = "PARITY" /\ io.parity_ok
             taken == [h EXCEPT !.pending_uart_fault = NONE,
                                !.parity = IF odd THEN "ODD" ELSE @]
             t == [restore_uart_after_fault(taken, io) EXCEPT !.pin = FALSE]
             b == [taken EXCEPT !.pin = TRUE, !.active_uart_fault = mode,
                                !.fault_left = FAULT_TIME]
  <2>1. ~h.tx.active
    BY <1>3 DEF bus_idle_for_uart_fault
  <2>2. odd \in BOOLEAN /\ (odd => mode = "PARITY")
    BY DEF IO
  <2>3. pump_uart_fault(h, quiet, io) \in {t, b}
    BY <1>3 DEF pump_uart_fault
  <2> HIDE DEF odd
  <2>4. FaultStep(h, t) /\ FaultStep(h, b)
    BY <1>3, <2>1, <2>2, BeginFaultKeeps
  <2> QED
    BY <2>3, <2>4
<1>4. CASE /\ h.active_uart_fault = NONE
           /\ ~(h.pending_uart_fault # NONE /\ settings.enabled /\ bus_idle_for_uart_fault(h, quiet))
  BY <1>1, <1>4 DEF pump_uart_fault
<1> QED
  BY <1>2, <1>3, <1>4

------------------------------------------------------------------------------
(* Requests.                                                               *)

\* What a request does to the hub before its reply, or without one.
Handled(h, t) ==
  /\ HubOK(t)
  /\ t.running = h.running /\ t.receiving = h.receiving
  /\ t.active_uart_fault = h.active_uart_fault
  /\ t.tx = h.tx /\ t.outcome = h.outcome
  /\ Armed(t) => Armed(h)

LEMMA HandledTwice ==
  ASSUME NEW h, NEW s, NEW t, Handled(h, s), Handled(s, t)
  PROVE  Handled(h, t)
BY DEF Handled

LEMMA DropHandled ==
  ASSUME NEW h, HubOK(h), NEW address
  PROVE  /\ Handled(h, record_drop(h, address))
         /\ record_drop(h, address).pending = h.pending
<1>1. Controls(h, record_drop(h, address)) /\ record_drop(h, address) \in Hub
  BY DropKeeps DEF HubOK, Controls, Unmoved
<1> QED
  BY <1>1, ControlsOK, DropKeeps DEF HubOK, Handled, Unmoved

LEMMA CountRetryHandled ==
  ASSUME NEW h, HubOK(h), NEW r
  PROVE  /\ Handled(h, count_retry(h, r))
         /\ count_retry(h, r).pending = h.pending
         /\ count_retry(h, r).dropped = h.dropped
         /\ count_retry(h, r).request_sequence = h.request_sequence
<1>1. CASE count_retry(h, r) = h
  BY <1>1 DEF Handled
<1>2. CASE count_retry(h, r) # h
  <2> DEFINE n == h.retry_count + 1
             retry == InitialHub.retry
             t == [h EXCEPT !.retry_count = n, !.retry = retry]
  <2>1. h \in Hub /\ h.retry.awaiting
    BY <1>2 DEF HubOK, count_retry
  <2>2. count_retry(h, r) = t
    BY <1>2, <2>1 DEF count_retry, Hub
  <2>3. n \in Nat
    BY <2>1 DEF Hub
  <2>4. retry = [awaiting |-> FALSE, left |-> 0, request |-> NoRequest]
    BY DEF InitialHub
  <2>5. retry \in Retry /\ ~retry.awaiting
    <3>1. 0 \in -HALF_RING .. HALF_RING - 1
      BY Ranges
    <3> QED
      BY <2>4, <3>1 DEF Retry
  <2>6. n <= h.parity_fault_count
    BY <2>1 DEF HubOK, Counted
  <2> HIDE DEF n, retry
  <2>7. t \in Hub
    BY <2>1, <2>3, <2>5 DEF Hub
  <2>8. t.retry_count = n /\ t.retry = retry
    BY <2>1 DEF Hub
  <2>9. /\ Unmoved(h, t)
        /\ t.tx = h.tx /\ t.pin = h.pin /\ t.parity = h.parity
        /\ t.restore_failed = h.restore_failed /\ t.outcome = h.outcome
        /\ t.parity_fault_count = h.parity_fault_count /\ t.dropped = h.dropped
    BY <2>1 DEF Hub, Unmoved
  <2> HIDE DEF t
  <2>10. Counted(t)
    BY <2>5, <2>6, <2>8, <2>9 DEF Counted
  <2>11. Bounded(t) /\ Even(t) /\ OneArmed(t) /\ (Armed(t) <=> Armed(h))
    BY <2>9 DEF HubOK, Bounded, ParityToCome, Even, OneArmed, Armed, Unmoved
  <2>12. Driving(t)
    BY <2>9 DEF HubOK, Driving, Busy, Unmoved
  <2> QED
    BY <2>2, <2>7, <2>9, <2>10, <2>11, <2>12 DEF Handled, HubOK, Unmoved
<1> QED
  BY <1>1, <1>2

\* A request is queued only where none waits.
LEMMA QueueHandled ==
  ASSUME NEW h, HubOK(h), settings \in Setting, NEW r \in Request
  PROVE  /\ Handled(h, queue_request(h, r))
         /\ queue_request(h, r).pending \in {h.pending, r}
<1>1. CASE r.address = BROADCAST
  BY <1>1, CountRetryHandled DEF queue_request
<1>2. CASE r.address # BROADCAST /\ h.pending # NoRequest
  BY <1>2, DropHandled DEF queue_request
<1>3. CASE r.address # BROADCAST /\ h.pending = NoRequest
  <2> DEFINE t == [h EXCEPT !.pending = r, !.due = settings.delay]
  <2>1. queue_request(h, r) = t
    BY <1>3 DEF queue_request
  <2>2. h \in Hub /\ settings.delay \in Nat
    BY Ranges DEF HubOK, Setting
  <2>3. t \in Hub
    BY <2>2 DEF Hub
  <2>4. Controls(h, t) /\ t.running = h.running /\ t.receiving = h.receiving
        /\ t.outcome = h.outcome /\ t.pending = r
    BY <2>2 DEF Hub, Controls
  <2> HIDE DEF t
  <2> QED
    BY <2>1, <2>3, <2>4, ControlsOK DEF Handled, Controls
<1> QED
  BY <1>1, <1>2, <1>3

\* Whatever was going on, a hub that shuts down leaves a free bus.
LEMMA ShutdownOK ==
  ASSUME NEW h, HubOK(h), NEW io
  PROVE  /\ HubOK(on_shutdown(h, io)) /\ ~Armed(on_shutdown(h, io))
         /\ Halted(on_shutdown(h, io))
<1> DEFINE restored == IF h.tx.parity_queued \/ h.active_uart_fault # NONE
                       THEN restore_uart_after_fault(h, io) ELSE h
           t == [restored EXCEPT
                   !.running = FALSE, !.receiving = FALSE, !.pending = NoRequest,
                   !.pending_uart_fault = NONE, !.pending_sentinel = FALSE,
                   !.pending_response_parity = FALSE,
                   !.active_uart_fault = NONE, !.fault_left = 0,
                   !.pin = FALSE, !.tx = IdleTx]
           q == [restored EXCEPT !.running = FALSE, !.receiving = FALSE,
                                 !.pending = NoRequest, !.pending_uart_fault = NONE]
           f == [q EXCEPT !.pending_sentinel = FALSE, !.pending_response_parity = FALSE,
                          !.active_uart_fault = NONE]
           b == [f EXCEPT !.fault_left = 0, !.pin = FALSE, !.tx = IdleTx]
<1>1. on_shutdown(h, io) = t
  BY DEF on_shutdown
<1>2. h \in Hub
  BY DEF HubOK
<1>3. /\ restored \in Hub
      /\ restored.parity = "EVEN" \/ restored.restore_failed
      /\ restored.retry = h.retry
      /\ restored.parity_fault_count = h.parity_fault_count
      /\ restored.retry_count = h.retry_count
  BY <1>2, RestoreKeeps DEF HubOK, Even, NONE
<1> HIDE DEF restored
<1>4. t = b
  BY <1>3 DEF Hub
<1>5. q \in Hub
  BY <1>3 DEF Hub
<1>6. /\ ~q.running /\ ~q.receiving /\ q.pending = NoRequest
      /\ q.pending_uart_fault = NONE
      /\ q.parity = restored.parity /\ q.restore_failed = restored.restore_failed
      /\ q.retry = restored.retry /\ q.retry_count = restored.retry_count
      /\ q.parity_fault_count = restored.parity_fault_count
  BY <1>3 DEF Hub
<1> HIDE DEF t, q
<1>7. f \in Hub
  BY <1>5 DEF Hub
<1>8. /\ f.running = q.running /\ f.receiving = q.receiving /\ f.pending = q.pending
      /\ f.pending_uart_fault = q.pending_uart_fault
      /\ ~f.pending_sentinel /\ ~f.pending_response_parity /\ f.active_uart_fault = NONE
      /\ f.parity = q.parity /\ f.restore_failed = q.restore_failed
      /\ f.retry = q.retry /\ f.retry_count = q.retry_count
      /\ f.parity_fault_count = q.parity_fault_count
  BY <1>5 DEF Hub
<1> HIDE DEF f
<1>9. 0 \in 0 .. FAULT_TIME
  BY Ranges
<1>10. b \in Hub
  BY <1>7, <1>9, IdleIsTx DEF Hub
<1>11. /\ b.running = f.running /\ b.receiving = f.receiving /\ b.pending = f.pending
       /\ b.pending_uart_fault = f.pending_uart_fault
       /\ b.pending_sentinel = f.pending_sentinel
       /\ b.pending_response_parity = f.pending_response_parity
       /\ b.active_uart_fault = f.active_uart_fault /\ ~b.pin /\ b.tx = IdleTx
       /\ b.parity = f.parity /\ b.restore_failed = f.restore_failed
       /\ b.retry = f.retry /\ b.retry_count = f.retry_count
       /\ b.parity_fault_count = f.parity_fault_count
  BY <1>7 DEF Hub
<1> HIDE DEF b
<1>12. ~Armed(b) /\ OneArmed(b)
  BY <1>6, <1>8, <1>11 DEF OneArmed, Armed
<1>13. Counted(b) /\ Bounded(b)
  BY <1>3, <1>6, <1>8, <1>11, IdleIsTx DEF HubOK, Counted, Bounded, ParityToCome
<1>14. Even(b)
  BY <1>3, <1>6, <1>8, <1>11 DEF Even
<1>15. Driving(b)
  BY <1>6, <1>8, <1>11, IdleIsTx DEF Driving, Busy
<1> QED
  BY <1>1, <1>4, <1>6, <1>8, <1>10, <1>11, <1>12, <1>13, <1>14, <1>15, IdleIsTx
     DEF HubOK, Halted

\* A request that is taken off the queue is answered, counted or lost to a
\* line that is busy after all; or the hub goes down.
Answered(h, t, unit) ==
  /\ HubOK(t) /\ (Armed(t) => Armed(h))
  /\ Halted(t) \/ (t.running = h.running /\ t.receiving = h.receiving)
  /\ \/ ~t.running \/ t.tx.active \/ t.outcome # NONE
     \/ unit \in Units => t.dropped[unit] = (h.dropped[unit] + 1) % COUNTER_RANGE

LEMMA ProcessAnswers ==
  ASSUME NEW h, HubOK(h), h.active_uart_fault = NONE, h.pending \in Request,
         NEW quiet \in BOOLEAN, NEW io \in IO
  PROVE  Answered(h, process_request(h, quiet, io), h.pending.address)
<1> DEFINE r == h.pending
           counted == count_retry(h, r)
           seen == [counted EXCEPT !.last_request = r, !.pending = NoRequest]
           sequence == (h.request_sequence + 1) % DROP_EVERY_NTH
           numbered == [seen EXCEPT !.request_sequence = sequence]
           dropped == record_drop(numbered, r.address)
           Reply(reply, long) == send_pdu(numbered, r.address, reply, long, quiet, io)
           exception == Reply("exception", FALSE)
           read == Reply("read", ~Injected(h, "incomplete"))
           write == Reply("write", TRUE)
           result == process_request(h, quiet, io)
<1>1. /\ Handled(h, counted) /\ counted.pending = h.pending /\ counted.dropped = h.dropped
      /\ counted \in Hub /\ HubOK(counted)
  BY CountRetryHandled DEF Handled, HubOK
<1>2. \/ r.address \notin Units /\ result = seen
      \/ result \in {dropped, on_shutdown(dropped, io), exception, read, write}
  <2>1. CASE r.address \notin Units
    BY <2>1 DEF process_request
  <2>2. CASE /\ r.address \in Units
             /\ \/ "silent" \in settings.injections
                \/ "nth" \in settings.injections /\ sequence = 0
                \/ Injected(h, "timeout")
    BY <2>2 DEF process_request
  <2>3. CASE /\ r.address \in Units
             /\ ~\/ "silent" \in settings.injections
                 \/ "nth" \in settings.injections /\ sequence = 0
                 \/ Injected(h, "timeout")
    BY <2>3 DEF process_request
  <2> QED
    BY <2>1, <2>2, <2>3
<1> HIDE DEF counted, result
<1>3. seen \in Hub
  BY <1>1 DEF Hub
<1>4. Controls(counted, seen) /\ seen.running = counted.running
      /\ seen.receiving = counted.receiving /\ seen.outcome = counted.outcome
      /\ seen.dropped = counted.dropped
  BY <1>1 DEF Hub, Controls
<1> HIDE DEF seen
<1>5. Handled(counted, seen)
  BY <1>1, <1>3, <1>4, ControlsOK DEF Handled, Controls
<1>6. sequence \in 0 .. DROP_EVERY_NTH - 1
  <2>1. h.request_sequence \in Nat
    BY Ranges DEF HubOK, Hub
  <2> QED
    BY <2>1, Ranges
<1> HIDE DEF sequence
<1>7. numbered \in Hub
  BY <1>3, <1>6 DEF Hub
<1>8. Controls(seen, numbered) /\ numbered.running = seen.running
      /\ numbered.receiving = seen.receiving /\ numbered.outcome = seen.outcome
      /\ numbered.dropped = seen.dropped
  BY <1>3 DEF Hub, Controls
<1> HIDE DEF numbered
<1>9. Handled(seen, numbered)
  BY <1>5, <1>7, <1>8, ControlsOK DEF Handled, Controls
<1>10. Handled(h, seen) /\ Handled(h, numbered)
  BY <1>1, <1>5, <1>9, HandledTwice
<1>11. HubOK(numbered) /\ numbered.active_uart_fault = NONE
       /\ numbered.dropped = h.dropped /\ (Armed(numbered) => Armed(h))
       /\ numbered.running = h.running /\ numbered.receiving = h.receiving
  BY <1>1, <1>4, <1>8, <1>10 DEF Handled
<1>12. /\ HubOK(dropped) /\ (Armed(dropped) => Armed(h))
       /\ dropped.running = h.running /\ dropped.receiving = h.receiving
       /\ r.address \in Units =>
            dropped.dropped[r.address] = (h.dropped[r.address] + 1) % COUNTER_RANGE
  BY <1>7, <1>10, <1>11, DropHandled, DropKeeps DEF Handled
<1> HIDE DEF dropped
<1>13. ASSUME r.address \notin Units, result = seen
       PROVE  Answered(h, result, r.address)
  BY <1>10, <1>13 DEF Answered, Handled
<1>14. ASSUME result = dropped
       PROVE  Answered(h, result, r.address)
  BY <1>12, <1>14 DEF Answered
<1>15. ASSUME result = on_shutdown(dropped, io)
       PROVE  Answered(h, result, r.address)
  BY <1>12, <1>15, ShutdownOK DEF Answered, Halted
<1>16. ASSUME NEW reply \in {"read", "write", "exception"}, NEW long \in BOOLEAN
       PROVE  Answered(h, Reply(reply, long), r.address)
  <2>1. SentAs(numbered, Reply(reply, long), r.address)
    BY <1>11, SendKeeps
  <2> HIDE DEF Reply
  <2> QED
    BY <1>11, <2>1 DEF SentAs, Answered
<1>17. \A t \in {exception, read, write} : Answered(h, t, r.address)
  <2>1. (~Injected(h, "incomplete")) \in BOOLEAN
    BY DEF Injected
  <2> HIDE DEF Reply
  <2> QED
    BY <1>16, <2>1
<1> HIDE DEF exception, read, write
<1>18. Answered(h, result, r.address)
  BY <1>2, <1>13, <1>14, <1>15, <1>17
<1> QED
  BY <1>18 DEF result

------------------------------------------------------------------------------
(* The steps of the hub.                                                   *)

\* What UncountedOnlyIfTaken says of one step
Settles ==
  \A unit \in Units :
    \/ hub.pending.address = unit /\ hub.pending # NoRequest /\ hub'.pending = NoRequest
    \/ hub.tx.active /\ hub.tx.unit = unit /\ ~hub'.tx.active
    => Settled(unit) \/ LineTaken \/ ~hub'.running

\* A step keeps the invariant, and a counter of drops that is not degenerate
\* shows what it lost.
Goes == HubInv' /\ (COUNTER_RANGE > 1 => Settles)

LEMMA DropShows ==
  ASSUME NEW n \in 0 .. COUNTER_RANGE - 1, COUNTER_RANGE > 1
  PROVE  (n + 1) % COUNTER_RANGE # n
<1>1. CASE n + 1 = COUNTER_RANGE
  BY <1>1, Ranges
<1>2. CASE n + 1 # COUNTER_RANGE
  BY <1>2, Ranges
<1> QED
  BY <1>1, <1>2

LEMMA RequestsAreSome == \A r \in Request : r # NoRequest
BY HubAssumption DEF Request, NoRequest, NONE

\* Most steps neither take a request off the queue nor end a reply.
LEMMA NothingLost ==
  ASSUME hub.pending # NoRequest => hub'.pending # NoRequest,
         hub.tx.active => hub'.tx.active
  PROVE  Settles
BY DEF Settles

LEMMA FreshOK ==
  ASSUME HubInv
  PROVE  /\ Fresh \in Hub /\ HubOK(Fresh) /\ (Armed(Fresh) <=> Armed(hub))
         /\ Controls(hub, Fresh) /\ Fresh.outcome = NONE
         /\ Fresh.running = hub.running /\ Fresh.receiving = hub.receiving
         /\ Fresh.pending = hub.pending /\ Fresh.dropped = hub.dropped
<1>1. hub \in Hub
  BY DEF HubInv, HubOK
<1>2. Fresh \in Hub
  BY <1>1 DEF Hub, Fresh
<1>3. /\ Controls(hub, Fresh) /\ Fresh.outcome = NONE
      /\ Fresh.running = hub.running /\ Fresh.receiving = hub.receiving
      /\ Fresh.pending = hub.pending /\ Fresh.dropped = hub.dropped
  BY <1>1 DEF Hub, Fresh, Controls
<1> QED
  BY <1>2, <1>3, ControlsOK DEF HubInv

LEMMA ReceivedOK ==
  ASSUME HubInv
  PROVE  /\ Received \in Hub /\ HubOK(Received) /\ (Armed(Received) <=> Armed(hub))
         /\ ~Received.receiving /\ Received.running = hub.running
         /\ Controls(hub, Received)
         /\ Received.pending = hub.pending /\ Received.dropped = hub.dropped
<1>1. Fresh \in Hub
  BY FreshOK
<1>2. Received \in Hub
  BY <1>1 DEF Hub, Received
<1>3. /\ Controls(Fresh, Received) /\ ~Received.receiving
      /\ Received.running = Fresh.running
      /\ Received.pending = Fresh.pending /\ Received.dropped = Fresh.dropped
  BY <1>1 DEF Hub, Received, Controls
<1>4. HubOK(Received) /\ (Armed(Received) <=> Armed(Fresh))
  BY <1>2, <1>3, FreshOK, ControlsOK
<1>5. Controls(hub, Received)
  BY <1>3, FreshOK DEF Controls
<1> QED
  BY <1>2, <1>3, <1>4, <1>5, FreshOK

LEMMA AnswersAreIO == \A called \in BOOLEAN : Answers(called) \subseteq IO
<1>1. NoAnswer \in IO
  BY Ranges DEF NoAnswer, IO
<1> QED
  BY <1>1 DEF Answers

LEMMA LoopTopGoes ==
  ASSUME HubInv, NEW quiet \in BOOLEAN, LoopTop(quiet)
  PROVE  Goes
<1>1. hub.running /\ ~hub.receiving /\ settings' = settings
  BY DEF LoopTop
<1>2. PICK io \in IO :
        LET h == pump_uart_fault(pump_tx(Fresh, io), quiet, io)
        IN  hub' = [h EXCEPT !.receiving = ~Busy(h)]
  BY AnswersAreIO DEF LoopTop, Busy
<1> DEFINE p == pump_tx(Fresh, io)
           h == pump_uart_fault(p, quiet, io)
           receiving == ~Busy(h)
<1>3. /\ HubOK(Fresh) /\ ~Fresh.receiving /\ Fresh.running = hub.running
      /\ Fresh.pending = hub.pending /\ Fresh.dropped = hub.dropped
      /\ Fresh.tx = hub.tx /\ (Armed(Fresh) <=> Armed(hub))
  BY <1>1, FreshOK DEF Controls
<1>4. /\ HubOK(p) /\ Unmoved(Fresh, p)
      /\ Fresh.tx.active =>
           \/ p.tx.active \/ p.outcome = "delivered"
           \/ Fresh.tx.unit \in Units =>
                p.dropped[Fresh.tx.unit] = (Fresh.dropped[Fresh.tx.unit] + 1) % COUNTER_RANGE
  <2>1. CASE Fresh.tx.active
    <3>1. Fresh.active_uart_fault = NONE /\ OneArmed(Fresh) /\ OnBus(Fresh)
      BY <1>3, <2>1 DEF HubOK, Driving, Busy, Even, OnBus, Sending, NONE
    <3>2. Pumped(Fresh, p)
      BY <3>1, PumpOnBus
    <3> HIDE DEF p
    <3>3. HubOK(p)
      BY <3>1, <3>2, PumpedOK
    <3> QED
      BY <3>2, <3>3 DEF Pumped, Continues, OnBus
  <2>2. CASE ~Fresh.tx.active
    BY <1>3, <2>2 DEF pump_tx, Unmoved
  <2> QED
    BY <2>1, <2>2
<1> HIDE DEF p
<1>5. ~p.receiving
  BY <1>3, <1>4 DEF Unmoved
<1>6. FaultStep(p, h)
  BY <1>4, <1>5, PumpFaultKeeps
<1>7. hub' = [h EXCEPT !.receiving = receiving]
  BY <1>2 DEF p
<1> HIDE DEF h
<1>8. h \in Hub
  BY <1>6 DEF FaultStep, HubOK
<1>9. receiving \in BOOLEAN /\ (receiving => ~Busy(h))
  BY DEF Busy
<1> HIDE DEF receiving
<1>10. hub' \in Hub
  BY <1>7, <1>8, <1>9 DEF Hub
<1>11. /\ hub'.receiving = receiving
       /\ hub'.running = h.running /\ hub'.pending = h.pending
       /\ hub'.outcome = h.outcome /\ hub'.dropped = h.dropped
       /\ hub'.tx = h.tx /\ hub'.pin = h.pin
       /\ hub'.parity = h.parity /\ hub'.restore_failed = h.restore_failed
       /\ hub'.retry = h.retry /\ hub'.retry_count = h.retry_count
       /\ hub'.parity_fault_count = h.parity_fault_count
       /\ hub'.pending_uart_fault = h.pending_uart_fault
       /\ hub'.pending_sentinel = h.pending_sentinel
       /\ hub'.pending_response_parity = h.pending_response_parity
       /\ hub'.active_uart_fault = h.active_uart_fault
  BY <1>7, <1>8 DEF Hub
<1>12. HubOK(hub')
  <2>1. HubOK(h)
    BY <1>6 DEF FaultStep
  <2>2. Counted(hub') /\ Bounded(hub') /\ Even(hub') /\ OneArmed(hub')
    BY <1>11, <2>1 DEF HubOK, Counted, Bounded, ParityToCome, Even, OneArmed, Armed
  <2>3. Driving(hub')
    BY <1>9, <1>11, <2>1 DEF HubOK, Driving, Busy
  <2> QED
    BY <1>10, <2>2, <2>3 DEF HubOK
<1>13. hub'.running /\ hub'.pending = hub.pending
  BY <1>1, <1>3, <1>4, <1>6, <1>11 DEF Unmoved, FaultStep
<1>14. Armed(hub') => Armed(hub)
  BY <1>3, <1>4, <1>6, <1>11 DEF Unmoved, FaultStep, Armed
<1>15. HubInv'
  BY <1>1, <1>12, <1>13, <1>14 DEF HubInv
<1>16. ASSUME COUNTER_RANGE > 1, NEW unit \in Units,
              hub.tx.active, hub.tx.unit = unit, ~hub'.tx.active
       PROVE  Settled(unit)
  <2>1. ~p.tx.active
    BY <1>6, <1>11, <1>16 DEF FaultStep
  <2>2. hub'.outcome = p.outcome /\ hub'.dropped = p.dropped
    BY <1>6, <1>11 DEF FaultStep
  <2>3. p.outcome = "delivered" \/ p.dropped[unit] = (hub.dropped[unit] + 1) % COUNTER_RANGE
    BY <1>3, <1>4, <1>16, <2>1
  <2>4. hub.dropped[unit] \in 0 .. COUNTER_RANGE - 1
    BY <1>16 DEF HubInv, HubOK, Hub
  <2>5. (hub.dropped[unit] + 1) % COUNTER_RANGE # hub.dropped[unit]
    BY <1>16, <2>4, DropShows
  <2> QED
    BY <2>2, <2>3, <2>5 DEF Settled, NONE
<1>17. COUNTER_RANGE > 1 => Settles
  BY <1>13, <1>16 DEF Settles
<1> QED
  BY <1>15, <1>17 DEF Goes

LEMMA ReceiveGoes ==
  ASSUME HubInv, NEW r \in Request, ReceiveRequest(r)
  PROVE  Goes
<1>1. /\ hub.receiving /\ settings' = settings /\ settings \in Setting
      /\ hub' = queue_request(Fresh, r)
  BY DEF ReceiveRequest, HubInv
<1>2. /\ HubOK(Fresh) /\ (Armed(Fresh) <=> Armed(hub)) /\ Fresh.running = hub.running
      /\ Fresh.pending = hub.pending /\ Fresh.tx = hub.tx
  BY FreshOK DEF Controls
<1>3. Handled(Fresh, hub') /\ hub'.pending \in {hub.pending, r}
  BY <1>1, <1>2, QueueHandled
<1>4. hub.running
  BY <1>1 DEF HubInv, Halted
<1>5. HubInv'
  BY <1>1, <1>2, <1>3, <1>4 DEF HubInv, Handled
<1>6. Settles
  BY <1>2, <1>3, RequestsAreSome, NothingLost DEF Handled
<1> QED
  BY <1>5, <1>6 DEF Goes

LEMMA NonstandardGoes ==
  ASSUME HubInv, NEW address \in Address, NEW quiet \in BOOLEAN,
         ReceiveNonstandard(address, quiet)
  PROVE  Goes
<1>1. hub.receiving /\ settings' = settings
  BY DEF ReceiveNonstandard
<1>2. PICK io \in IO : hub' = send_pdu(Fresh, address, "exception", FALSE, quiet, io)
  <2>1. hub.tx.active \in BOOLEAN
    BY DEF HubInv, HubOK, Hub, Tx
  <2>2. (quiet /\ ~hub.tx.active) \in BOOLEAN
    OBVIOUS
  <2> QED
    BY <2>2, AnswersAreIO DEF ReceiveNonstandard
<1>3. /\ HubOK(Fresh) /\ (Armed(Fresh) <=> Armed(hub)) /\ Fresh.running = hub.running
      /\ Fresh.pending = hub.pending /\ Fresh.tx = hub.tx /\ Fresh.receiving
  BY <1>1, FreshOK DEF Controls
<1>4. Fresh.active_uart_fault = NONE
  BY <1>3 DEF HubOK, Driving
<1>5. SentAs(Fresh, hub', address)
  BY <1>2, <1>3, <1>4, SendKeeps
<1>6. hub.running
  BY <1>1 DEF HubInv, Halted
<1>7. HubInv'
  BY <1>1, <1>3, <1>5, <1>6 DEF HubInv, SentAs
<1>8. Settles
  BY <1>3, <1>5, NothingLost DEF SentAs
<1> QED
  BY <1>7, <1>8 DEF Goes

LEMMA FinishIdleGoes ==
  ASSUME HubInv, NEW quiet \in BOOLEAN, FinishIdle(quiet)
  PROVE  Goes
<1>1. hub.receiving /\ settings' = settings
  BY DEF FinishIdle
<1>2. PICK io \in IO : hub' = pump_uart_fault(Received, quiet, io)
  BY AnswersAreIO DEF FinishIdle
<1>3. /\ HubOK(Received) /\ (Armed(Received) <=> Armed(hub)) /\ ~Received.receiving
      /\ Received.running = hub.running
      /\ Received.pending = hub.pending /\ Received.tx = hub.tx
  BY ReceivedOK DEF Controls
<1>4. FaultStep(Received, hub')
  BY <1>2, <1>3, PumpFaultKeeps
<1>5. hub.running
  BY <1>1 DEF HubInv, Halted
<1>6. HubInv'
  BY <1>1, <1>3, <1>4, <1>5 DEF HubInv, FaultStep
<1>7. Settles
  BY <1>3, <1>4, NothingLost DEF FaultStep
<1> QED
  BY <1>6, <1>7 DEF Goes

LEMMA FinishWaitingGoes ==
  ASSUME HubInv, FinishWaiting
  PROVE  Goes
<1>1. hub.receiving /\ settings' = settings /\ hub' = Received
  BY DEF FinishWaiting
<1>2. hub.running
  BY <1>1 DEF HubInv, Halted
<1>3. HubInv'
  BY <1>1, <1>2, ReceivedOK DEF HubInv
<1>4. Settles
  BY <1>1, ReceivedOK, NothingLost DEF Controls
<1> QED
  BY <1>3, <1>4 DEF Goes

LEMMA FinishServingGoes ==
  ASSUME HubInv, NEW still \in BOOLEAN, FinishServing(still)
  PROVE  Goes
<1>1. hub.receiving /\ settings' = settings /\ ~Busy(hub) /\ hub.pending # NoRequest /\ Due
  BY DEF FinishServing, Due
<1>2. PICK io \in IO :
        hub' = [process_request(Received, still, io) EXCEPT !.last_request = NoRequest]
  BY AnswersAreIO DEF FinishServing
<1>3. /\ HubOK(Received) /\ (Armed(Received) <=> Armed(hub)) /\ ~Received.receiving
      /\ Received.running = hub.running /\ Received.active_uart_fault = NONE
      /\ Received.pending = hub.pending /\ Received.dropped = hub.dropped
  BY <1>1, ReceivedOK DEF Controls, Busy
<1>4. hub.pending \in Request
  BY <1>1 DEF HubInv, HubOK, Hub
<1> DEFINE t == process_request(Received, still, io)
           unit == hub.pending.address
<1>5. Answered(Received, t, unit)
  BY <1>3, <1>4, ProcessAnswers
<1> HIDE DEF t
<1>6. hub' = [t EXCEPT !.last_request = NoRequest] /\ t \in Hub
  BY <1>2, <1>5 DEF t, Answered, HubOK
<1>7. hub' \in Hub
  BY <1>6 DEF Hub
<1>8. /\ Controls(t, hub') /\ hub'.receiving = t.receiving
      /\ hub'.running = t.running /\ hub'.pending = t.pending
      /\ hub'.outcome = t.outcome /\ hub'.dropped = t.dropped
  BY <1>6 DEF Hub, Controls
<1>9. HubOK(hub') /\ (Armed(hub') => Armed(hub))
  BY <1>3, <1>5, <1>7, <1>8, ControlsOK DEF Answered
<1>10. hub'.running \/ Halted(hub')
  <2>1. hub.running
    BY <1>1 DEF HubInv, Halted
  <2> QED
    BY <1>3, <1>5, <1>8, <2>1 DEF Answered, Halted, Controls
<1>11. HubInv'
  BY <1>1, <1>9, <1>10 DEF HubInv
<1>12. ASSUME COUNTER_RANGE > 1, unit \in Units
       PROVE  Settled(unit) \/ LineTaken \/ ~hub'.running
  <2>1. hub.dropped[unit] \in 0 .. COUNTER_RANGE - 1
    BY <1>12 DEF HubInv, HubOK, Hub
  <2>2. (hub.dropped[unit] + 1) % COUNTER_RANGE # hub.dropped[unit]
    BY <1>12, <2>1, DropShows
  <2>3. hub'.outcome \in {NONE, "delivered", "lost"}
    BY <1>7 DEF Hub
  <2>4. \/ ~hub'.running \/ hub'.tx.active \/ hub'.outcome # NONE
        \/ hub'.dropped[unit] # hub.dropped[unit]
    BY <1>3, <1>5, <1>8, <1>12, <2>2 DEF Answered, Controls
  <2> QED
    BY <1>1, <2>3, <2>4 DEF Settled, LineTaken
<1>13. COUNTER_RANGE > 1 => Settles
  BY <1>1, <1>12 DEF Settles, Busy
<1> QED
  BY <1>11, <1>13 DEF Goes

\* A button arms a fault while none is armed and nothing is on the bus.
LEMMA ArmGoes ==
  ASSUME HubInv, Idle, MayArm(hub), settings' = settings,
         NEW mode \in UartFaultMode,
         \/ hub' = [Fresh EXCEPT !.pending_uart_fault = mode]
         \/ hub' = [Fresh EXCEPT !.pending_sentinel = TRUE]
         \/ /\ hub' = [Fresh EXCEPT !.pending_response_parity = TRUE]
            /\ hub.parity_fault_count < MaxFaults
  PROVE  Goes
<1>1. /\ Fresh \in Hub /\ HubOK(Fresh) /\ Controls(hub, Fresh)
      /\ Fresh.running = hub.running /\ Fresh.receiving = hub.receiving
      /\ Fresh.pending = hub.pending
  BY FreshOK
<1>2. /\ settings.enabled /\ ~hub.tx.active /\ hub.active_uart_fault = NONE
      /\ ~Armed(hub) /\ hub.running
  BY DEF MayArm, Idle
<1>3. hub' \in Hub
  <2>1. CASE hub' = [Fresh EXCEPT !.pending_uart_fault = mode]
    BY <1>1, <2>1 DEF Hub
  <2>2. CASE hub' = [Fresh EXCEPT !.pending_sentinel = TRUE]
    BY <1>1, <2>2 DEF Hub
  <2>3. CASE hub' = [Fresh EXCEPT !.pending_response_parity = TRUE]
    BY <1>1, <2>3 DEF Hub
  <2> QED
    BY <2>1, <2>2, <2>3
<1>4. /\ hub'.running = Fresh.running /\ hub'.receiving = Fresh.receiving
      /\ hub'.pending = Fresh.pending
      /\ hub'.tx = Fresh.tx /\ hub'.pin = Fresh.pin
      /\ hub'.parity = Fresh.parity /\ hub'.restore_failed = Fresh.restore_failed
      /\ hub'.retry = Fresh.retry /\ hub'.retry_count = Fresh.retry_count
      /\ hub'.parity_fault_count = Fresh.parity_fault_count
      /\ hub'.active_uart_fault = Fresh.active_uart_fault
  BY <1>1 DEF Hub
<1>5. /\ hub'.pending_sentinel =>
           ~hub'.pending_response_parity /\ hub'.pending_uart_fault = NONE
      /\ hub'.pending_response_parity =>
           hub'.pending_uart_fault = NONE /\ hub.parity_fault_count < MaxFaults
  BY <1>1, <1>2 DEF Hub, Controls, Armed
<1>6. OneArmed(hub')
  BY <1>1, <1>2, <1>4, <1>5 DEF OneArmed, Controls
<1>7. Bounded(hub')
  BY <1>1, <1>2, <1>4, <1>5 DEF HubOK, Bounded, ParityToCome, Driving, Controls
<1>8. Counted(hub') /\ Even(hub')
  BY <1>1, <1>4 DEF HubOK, Counted, Even
<1>9. Driving(hub')
  BY <1>1, <1>4 DEF HubOK, Driving, Busy
<1>10. HubInv'
  BY <1>1, <1>2, <1>3, <1>4, <1>6, <1>7, <1>8, <1>9 DEF HubInv, HubOK
<1>11. Settles
  BY <1>1, <1>2, <1>4, NothingLost
<1> QED
  BY <1>10, <1>11 DEF Goes

LEMMA SyncGoes ==
  ASSUME HubInv, NEW enabled \in FaultSwitch, NEW i \in Injections, NEW d \in Delays,
         SyncSettings(enabled, i, d)
  PROVE  Goes
<1> DEFINE t == disarm(Fresh)
<1>1. /\ hub.running /\ hub' = IF enabled THEN Fresh ELSE t
      /\ settings' = [enabled |-> enabled, injections |-> i, delay |-> d]
  BY DEF SyncSettings, Idle
<1>2. /\ Fresh \in Hub /\ HubOK(Fresh) /\ Controls(hub, Fresh)
      /\ Fresh.running = hub.running /\ Fresh.pending = hub.pending
  BY FreshOK
<1>3. settings' \in Setting /\ (enabled => settings'.enabled)
  <2>1. enabled \in BOOLEAN
    BY HubAssumption
  <2> QED
    BY <1>1, <2>1 DEF Setting
<1>4. t \in Hub
  BY <1>2 DEF disarm, Hub
<1>5. /\ t.pending_uart_fault = NONE /\ ~t.pending_sentinel /\ ~t.pending_response_parity
      /\ t.running = Fresh.running /\ t.receiving = Fresh.receiving
      /\ t.pending = Fresh.pending /\ t.tx = Fresh.tx /\ t.pin = Fresh.pin
      /\ t.parity = Fresh.parity /\ t.restore_failed = Fresh.restore_failed
      /\ t.retry = Fresh.retry /\ t.retry_count = Fresh.retry_count
      /\ t.parity_fault_count = Fresh.parity_fault_count
      /\ t.active_uart_fault = Fresh.active_uart_fault
  BY <1>2 DEF disarm, Hub
<1> HIDE DEF t
<1>6. HubOK(t) /\ ~Armed(t)
  <2>1. OneArmed(t) /\ ~Armed(t)
    BY <1>5 DEF OneArmed, Armed
  <2>2. Counted(t) /\ Even(t) /\ Bounded(t)
    BY <1>2, <1>5 DEF HubOK, Counted, Even, Bounded, ParityToCome
  <2>3. Driving(t)
    BY <1>2, <1>5 DEF HubOK, Driving, Busy
  <2> QED
    BY <1>4, <2>1, <2>2, <2>3 DEF HubOK
<1>7. /\ HubOK(hub') /\ hub'.running /\ (Armed(hub') => settings'.enabled)
      /\ hub'.pending = hub.pending /\ hub'.tx = hub.tx
  <2>1. CASE enabled
    BY <1>1, <1>2, <1>3, <2>1 DEF Controls
  <2>2. CASE ~enabled
    BY <1>1, <1>2, <1>5, <1>6, <2>2 DEF Controls
  <2> QED
    BY <2>1, <2>2
<1>8. HubInv'
  BY <1>3, <1>7 DEF HubInv
<1>9. Settles
  BY <1>7, NothingLost
<1> QED
  BY <1>8, <1>9 DEF Goes

\* A reset of the diagnostics forgets the retry it waited for with its fault.
LEMMA ResetGoes ==
  ASSUME HubInv, reset_diagnostics
  PROVE  Goes
<1> DEFINE retry == InitialHub.retry
           zero == [u \in Units |-> 0]
           t == [Fresh EXCEPT !.request_sequence = 0, !.parity_fault_count = 0,
                              !.retry_count = 0, !.retry = retry, !.dropped = zero]
           q == [Fresh EXCEPT !.request_sequence = 0, !.parity_fault_count = 0,
                              !.retry_count = 0]
           b == [q EXCEPT !.retry = retry, !.dropped = zero]
<1>1. hub.running /\ settings' = settings /\ hub' = t
  BY DEF reset_diagnostics, Idle, cleared_diagnostics
<1>2. /\ Fresh \in Hub /\ HubOK(Fresh) /\ Controls(hub, Fresh)
      /\ Fresh.running = hub.running /\ Fresh.pending = hub.pending
      /\ (Armed(Fresh) <=> Armed(hub))
  BY FreshOK
<1>3. retry \in Retry /\ ~retry.awaiting
  <2>1. retry = [awaiting |-> FALSE, left |-> 0, request |-> NoRequest]
    BY DEF InitialHub
  <2>2. 0 \in -HALF_RING .. HALF_RING - 1
    BY Ranges
  <2> HIDE DEF retry
  <2> QED
    BY <2>1, <2>2 DEF Retry
<1>4. zero \in [Units -> 0 .. COUNTER_RANGE - 1]
  BY Ranges
<1> HIDE DEF retry, zero
<1>5. t = b
  BY <1>2 DEF Hub
<1>6. 0 \in 0 .. DROP_EVERY_NTH - 1 /\ 0 \in 0 .. MaxFaults /\ 0 \in Nat
  BY Ranges
<1>7. q \in Hub
  BY <1>2, <1>6 DEF Hub
<1>8. /\ q.retry_count = 0 /\ q.parity_fault_count = 0
      /\ q.running = Fresh.running /\ q.pending = Fresh.pending
      /\ q.receiving = Fresh.receiving /\ q.tx = Fresh.tx /\ q.pin = Fresh.pin
      /\ q.parity = Fresh.parity /\ q.restore_failed = Fresh.restore_failed
      /\ q.pending_uart_fault = Fresh.pending_uart_fault
      /\ q.pending_sentinel = Fresh.pending_sentinel
      /\ q.pending_response_parity = Fresh.pending_response_parity
      /\ q.active_uart_fault = Fresh.active_uart_fault
  BY <1>2 DEF Hub
<1> HIDE DEF t, q
<1>9. b \in Hub
  BY <1>3, <1>4, <1>7 DEF Hub
<1>10. /\ b.retry = retry
       /\ b.retry_count = q.retry_count /\ b.parity_fault_count = q.parity_fault_count
       /\ b.running = q.running /\ b.pending = q.pending
       /\ b.receiving = q.receiving /\ b.tx = q.tx /\ b.pin = q.pin
       /\ b.parity = q.parity /\ b.restore_failed = q.restore_failed
       /\ b.pending_uart_fault = q.pending_uart_fault
       /\ b.pending_sentinel = q.pending_sentinel
       /\ b.pending_response_parity = q.pending_response_parity
       /\ b.active_uart_fault = q.active_uart_fault
  BY <1>7 DEF Hub
<1> HIDE DEF b
<1>11. OneArmed(b) /\ Even(b) /\ (Armed(b) <=> Armed(Fresh))
  BY <1>2, <1>8, <1>10 DEF HubOK, OneArmed, Even, Armed
<1>12. Counted(b) /\ Bounded(b)
  BY <1>2, <1>3, <1>8, <1>10, Ranges DEF HubOK, Counted, Bounded
<1>13. Driving(b)
  BY <1>2, <1>8, <1>10 DEF HubOK, Driving, Busy
<1>14. HubOK(b) /\ b.running /\ b.pending = hub.pending /\ b.tx = hub.tx
  BY <1>1, <1>2, <1>8, <1>9, <1>10, <1>11, <1>12, <1>13 DEF HubOK, Controls
<1>15. hub' = b
  BY <1>1, <1>5
<1>16. HubInv'
  BY <1>1, <1>2, <1>11, <1>14, <1>15 DEF HubInv
<1>17. Settles
  BY <1>14, <1>15, NothingLost
<1> QED
  BY <1>16, <1>17 DEF Goes

LEMMA ShutdownGoes ==
  ASSUME HubInv, Shutdown
  PROVE  Goes
<1>1. PICK io : hub' = on_shutdown(Fresh, io)
  BY DEF Shutdown
<1>2. HubOK(hub') /\ ~Armed(hub') /\ Halted(hub')
  BY <1>1, FreshOK, ShutdownOK
<1>3. HubInv'
  BY <1>2 DEF HubInv, Shutdown
<1>4. Settles
  BY <1>2 DEF Settles, Halted
<1> QED
  BY <1>3, <1>4 DEF Goes

LEMMA InitialOK ==
  /\ HubOK(InitialHub) /\ ~Armed(InitialHub) /\ InitialHub.running
<1>1. 0 \in 0 .. COUNTER_RANGE - 1 /\ 0 \in 0 .. DROP_EVERY_NTH - 1
      /\ 0 \in 0 .. FAULT_TIME /\ 0 \in 0 .. MaxFaults
      /\ 0 \in -HALF_RING .. HALF_RING - 1
  BY Ranges
<1>2. [awaiting |-> FALSE, left |-> 0, request |-> NoRequest] \in Retry
  BY <1>1 DEF Retry
<1>3. [u \in Units |-> 0] \in [Units -> 0 .. COUNTER_RANGE - 1]
  BY <1>1
<1>4. InitialHub \in Hub
  BY <1>1, <1>2, <1>3, IdleIsTx DEF InitialHub, Hub
<1>5. /\ InitialHub.running /\ ~InitialHub.receiving /\ InitialHub.tx = IdleTx
      /\ ~InitialHub.pin /\ InitialHub.parity = "EVEN"
      /\ InitialHub.pending_uart_fault = NONE /\ ~InitialHub.pending_sentinel
      /\ ~InitialHub.pending_response_parity /\ InitialHub.active_uart_fault = NONE
      /\ ~InitialHub.retry.awaiting
      /\ InitialHub.retry_count = 0 /\ InitialHub.parity_fault_count = 0
  BY DEF InitialHub
<1> QED
  BY <1>4, <1>5, IdleIsTx, Ranges
     DEF HubOK, Driving, Busy, OneArmed, Armed, Even, Counted, Bounded, ParityToCome

LEMMA BootGoes ==
  ASSUME HubInv, Boot
  PROVE  Goes
<1>1. /\ ~hub.running /\ hub' = InitialHub
      /\ settings' = [enabled |-> FALSE, injections |-> {}, delay |-> settings.delay]
  BY DEF Boot
<1>2. settings' \in Setting
  BY <1>1 DEF HubInv, Setting
<1>3. HubInv'
  BY <1>1, <1>2, InitialOK DEF HubInv
<1>4. Settles
  BY <1>1 DEF HubInv, Halted, Settles
<1> QED
  BY <1>3, <1>4 DEF Goes

LEMMA TickGoes ==
  ASSUME HubInv, Tick
  PROVE  Goes
<1> DEFINE due == Elapsed(Fresh.due)
           fault == Elapsed(Fresh.fault_left)
           left == Elapsed(Fresh.tx.left)
           wait == IF ~hub.retry.awaiting THEN 0
                   ELSE IF Fresh.retry.left = -HALF_RING THEN HALF_RING - 1
                   ELSE Fresh.retry.left - 1
           tx == [Fresh.tx EXCEPT !.left = left]
           retry == [Fresh.retry EXCEPT !.left = wait]
           t == [Fresh EXCEPT !.due = due, !.fault_left = fault, !.tx = tx, !.retry = retry]
<1>1. /\ Fresh \in Hub /\ HubOK(Fresh) /\ Controls(hub, Fresh)
      /\ Fresh.running = hub.running /\ Fresh.pending = hub.pending
      /\ Fresh.receiving = hub.receiving /\ (Armed(Fresh) <=> Armed(hub))
  BY FreshOK
<1>2. Fresh.tx \in Tx /\ Fresh.retry \in Retry
  BY <1>1 DEF Hub
<1>3. hub.running /\ settings' = settings
  BY DEF Tick, Idle
<1>4. hub' = t
  BY <1>1, <1>2 DEF Tick, Hub, Tx, Retry
<1>5. due \in Nat /\ fault \in 0 .. FAULT_TIME
  BY <1>1, Ranges DEF Hub, Elapsed
<1>6. left \in 0 .. TX_TIME
  BY <1>2, Ranges DEF Tx, Elapsed
<1>7. wait \in -HALF_RING .. HALF_RING - 1
  BY <1>2, Ranges DEF Retry
<1> HIDE DEF due, fault, left, wait
<1>8. tx \in Tx /\ retry \in Retry
  BY <1>2, <1>6, <1>7 DEF Tx, Retry
<1>9. /\ tx.active = Fresh.tx.active
      /\ tx.parity_fault = Fresh.tx.parity_fault /\ tx.parity_queued = Fresh.tx.parity_queued
      /\ retry.awaiting = Fresh.retry.awaiting
  BY <1>2 DEF Tx, Retry
<1> HIDE DEF tx, retry
<1>10. t \in Hub
  BY <1>1, <1>5, <1>8 DEF Hub
<1>11. t.tx = tx /\ t.retry = retry
  BY <1>1 DEF Hub
<1>12. /\ t.running = Fresh.running /\ t.receiving = Fresh.receiving
       /\ t.pending = Fresh.pending /\ t.pin = Fresh.pin
       /\ t.parity = Fresh.parity /\ t.restore_failed = Fresh.restore_failed
       /\ t.retry_count = Fresh.retry_count
       /\ t.parity_fault_count = Fresh.parity_fault_count
       /\ t.pending_uart_fault = Fresh.pending_uart_fault
       /\ t.pending_sentinel = Fresh.pending_sentinel
       /\ t.pending_response_parity = Fresh.pending_response_parity
       /\ t.active_uart_fault = Fresh.active_uart_fault
  BY <1>1 DEF Hub
<1> HIDE DEF t
<1>13. OneArmed(t) /\ (Armed(t) <=> Armed(Fresh))
  BY <1>1, <1>12 DEF HubOK, OneArmed, Armed
<1>14. Counted(t) /\ Bounded(t) /\ Even(t)
  BY <1>1, <1>9, <1>11, <1>12 DEF HubOK, Counted, Bounded, ParityToCome, Even
<1>15. Driving(t)
  BY <1>1, <1>9, <1>11, <1>12 DEF HubOK, Driving, Busy
<1>16. HubInv'
  BY <1>1, <1>3, <1>4, <1>10, <1>12, <1>13, <1>14, <1>15 DEF HubInv, HubOK
<1>17. Settles
  BY <1>1, <1>4, <1>9, <1>11, <1>12, NothingLost DEF Controls
<1> QED
  BY <1>16, <1>17 DEF Goes

LEMMA HubNext ==
  ASSUME HubInv, [Next]_vars
  PROVE  Goes
<1>1. ASSUME NEW quiet \in BOOLEAN, LoopTop(quiet) \/ FinishIdle(quiet) \/ FinishServing(quiet)
      PROVE  Goes
  BY <1>1, LoopTopGoes, FinishIdleGoes, FinishServingGoes
<1>2. ASSUME NEW r \in Request, ReceiveRequest(r)
      PROVE  Goes
  BY <1>2, ReceiveGoes
<1>3. ASSUME NEW a \in Address, NEW quiet \in BOOLEAN, ReceiveNonstandard(a, quiet)
      PROVE  Goes
  BY <1>3, NonstandardGoes
<1>4. CASE FinishWaiting \/ reset_diagnostics \/ Shutdown \/ Boot \/ Tick
  BY <1>4, FinishWaitingGoes, ResetGoes, ShutdownGoes, BootGoes, TickGoes
<1>5. ASSUME NEW mode \in UartFaultMode, request_uart_fault(mode)
      PROVE  Goes
  BY <1>5, ArmGoes DEF request_uart_fault
<1>6. CASE request_uart_response_sentinel \/ request_uart_response_parity_fault
  <2>1. "PARITY" \in UartFaultMode
    BY DEF UartFaultMode
  <2> QED
    BY <1>6, <2>1, ArmGoes DEF request_uart_response_sentinel, request_uart_response_parity_fault
<1>7. ASSUME NEW enabled \in FaultSwitch, NEW i \in Injections, NEW d \in Delays,
             SyncSettings(enabled, i, d)
      PROVE  Goes
  BY <1>7, SyncGoes
<1>8. CASE UNCHANGED vars
  <2>1. hub' = hub /\ settings' = settings
    BY <1>8 DEF vars
  <2>2. HubInv'
    BY <2>1 DEF HubInv
  <2>3. Settles
    BY <2>1, NothingLost
  <2> QED
    BY <2>2, <2>3 DEF Goes
<1> QED
  BY <1>1, <1>2, <1>3, <1>4, <1>5, <1>6, <1>7, <1>8 DEF Next

LEMMA HubAlways == Spec => []HubInv
<1>1. Init => HubInv
  BY InitialOK DEF Init, HubInv, Setting
<1>2. HubInv /\ [Next]_vars => HubInv'
  BY HubNext DEF Goes
<1> QED
  BY <1>1, <1>2, PTL DEF Spec

------------------------------------------------------------------------------

\* Every field of the hub keeps its range, the counters that wrap included.
THEOREM HubTypes == Spec => []TypeOK
<1>1. HubInv => TypeOK
  BY DEF HubInv, HubOK, Hub, Tx, Retry, Setting, TypeOK
<1> QED
  BY <1>1, HubAlways, PTL

\* The transceiver drives the bus exactly while a reply or a fault is on it,
\* never both, and one fault at most is armed, whatever the UART driver answers.
THEOREM OneDriver == Spec => []ExclusiveDriver
<1>1. HubInv => ExclusiveDriver
  BY DEF HubInv, HubOK, Driving, OneArmed, ExclusiveDriver
<1> QED
  BY <1>1, HubAlways, PTL

\* Whichever way a fault or a faulty reply ends, aborts, restarts and failed
\* driver calls included, the bus is back at even parity or the driver refused.
THEOREM ParityComesBack == Spec => []EvenParityRestored
<1>1. HubInv => EvenParityRestored
  BY DEF HubInv, HubOK, Even, EvenParityRestored
<1> QED
  BY <1>1, HubAlways, PTL

\* No retry is counted that no odd response asked for.
THEOREM RetriesAreAnswers == Spec => []RetriesHaveFaults
<1>1. HubInv => RetriesHaveFaults
  <2> SUFFICES ASSUME HubInv PROVE RetriesHaveFaults
    OBVIOUS
  <2>1. hub.retry_count \in Nat /\ hub.parity_fault_count \in Nat
    BY DEF HubInv, HubOK, Hub
  <2> QED
    BY <2>1 DEF HubInv, HubOK, Counted, RetriesHaveFaults
<1> QED
  BY <1>1, HubAlways, PTL

\* A request for a unit or a reply vanishes uncounted only in a restart and when
\* the line is taken in the moment its reply would have started.
THEOREM LossIsCountedOrTaken == Spec => UncountedOnlyIfTaken
<1>1. HubInv /\ [Next]_vars =>
        [\A unit \in Units :
           \/ hub.pending.address = unit /\ hub.pending # NoRequest /\ hub'.pending = NoRequest
           \/ hub.tx.active /\ hub.tx.unit = unit /\ ~hub'.tx.active
           => Settled(unit) \/ LineTaken \/ ~hub'.running]_vars
  BY HubNext, HubAssumption DEF Goes, Settles
<1> QED
  BY <1>1, HubAlways, PTL DEF Spec, UncountedOnlyIfTaken
================================================================================
