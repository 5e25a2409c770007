------------------------- MODULE OpenThermDriver_proofs -------------------------
(***************************************************************************)
(* Every operation of the OpenTherm driver keeps its state within its      *)
(* types, and the ring of received frames at least one slot short of full, *)
(* for every size of the ring.                                             *)
(***************************************************************************)
EXTENDS OpenThermDriver, SequenceTheorems, TLAPS

DriverOK(ot) == ot \in Driver /\ Len(ot.queue) < RX_FRAME_QUEUE_SIZE

LEMMA StoppedOK == DriverOK(Stopped)
<1>1. /\ 0 \in 0 .. TIMEOUT + 1 /\ 0 \in 0 .. FRAME_DELAY /\ 0 \in 0 .. TX_DEPTH
      /\ 0 \in 0 .. TX_TIME /\ 0 < RX_FRAME_QUEUE_SIZE
  BY DriverAssumption
<1>2. <<>> \in Seq(Frame) /\ Len(<<>>) = 0
  OBVIOUS
<1>3. Stopped \in Driver
  BY <1>1, <1>2 DEF Stopped, Driver, Status
<1>4. Stopped.queue = <<>>
  BY DEF Stopped
<1> QED
  BY <1>1, <1>2, <1>3, <1>4 DEF DriverOK

LEMMA BeginOK == ASSUME NEW ot PROVE DriverOK(begin(ot))
<1>1. Stopped \in Driver /\ Len(Stopped.queue) < RX_FRAME_QUEUE_SIZE
  BY StoppedOK DEF DriverOK
<1>2. "READY" \in Status
  BY DEF Status
<1>3. begin(ot) \in Driver /\ begin(ot).queue = Stopped.queue
  BY <1>1, <1>2 DEF begin, Driver
<1> QED
  BY <1>1, <1>3 DEF DriverOK

\* A frame that finds the ring full is dropped, and one that does not leaves
\* one slot empty.
LEMMA QueueRxOK ==
  ASSUME NEW ot, DriverOK(ot), NEW kind \in FrameKind
  PROVE  DriverOK(queue_rx_frame(ot, kind))
<1> DEFINE frame == [kind |-> kind, age |-> 0]
           longer == Append(ot.queue, frame)
<1>1. /\ ot \in Driver /\ ot.queue \in Seq(Frame)
      /\ Len(ot.queue) \in Nat /\ Len(ot.queue) < RX_FRAME_QUEUE_SIZE
  BY DEF DriverOK, Driver
<1>2. CASE QueueFull(ot)
  <2>1. queue_rx_frame(ot, kind) = [ot EXCEPT !.edge_overflow = TRUE]
    BY <1>2 DEF queue_rx_frame
  <2>2. queue_rx_frame(ot, kind) \in Driver /\ queue_rx_frame(ot, kind).queue = ot.queue
    BY <1>1, <2>1 DEF Driver
  <2> QED
    BY <1>1, <2>2 DEF DriverOK
<1>3. CASE ~QueueFull(ot)
  <2>1. frame \in Frame
    BY DriverAssumption DEF Frame
  <2>2. longer \in Seq(Frame) /\ Len(longer) = Len(ot.queue) + 1
    BY <1>1, <2>1
  <2>3. Len(longer) < RX_FRAME_QUEUE_SIZE
    BY <1>1, <1>3, <2>2, DriverAssumption DEF QueueFull
  <2>4. queue_rx_frame(ot, kind) = [ot EXCEPT !.queue = longer]
    BY <1>3 DEF queue_rx_frame
  <2> HIDE DEF longer
  <2>5. queue_rx_frame(ot, kind) \in Driver /\ queue_rx_frame(ot, kind).queue = longer
    BY <1>1, <2>2, <2>4 DEF Driver
  <2> QED
    BY <2>3, <2>5 DEF DriverOK
<1> QED
  BY <1>2, <1>3

LEMMA TxDoneOK ==
  ASSUME NEW ot, DriverOK(ot), ot.sending > 0
  PROVE  DriverOK(tx_done(ot))
<1>1. /\ ot \in Driver /\ ot.sending \in 0 .. TX_DEPTH
      /\ Len(ot.queue) < RX_FRAME_QUEUE_SIZE
  BY DEF DriverOK, Driver
<1>2. /\ ot.sending - 1 \in 0 .. TX_DEPTH
      /\ (IF ot.sending > 1 THEN TX_TIME ELSE 0) \in 0 .. TX_TIME
  BY <1>1, DriverAssumption
<1>3. tx_done(ot) \in Driver /\ tx_done(ot).queue = ot.queue
  BY <1>1, <1>2 DEF tx_done, Driver
<1> QED
  BY <1>1, <1>3 DEF DriverOK

LEMMA SendResponseOK ==
  ASSUME NEW ot, DriverOK(ot)
  PROVE  DriverOK(sendResponse(ot))
<1>1. /\ ot \in Driver /\ ot.sending \in 0 .. TX_DEPTH /\ ot.left \in 0 .. TX_TIME
      /\ Len(ot.queue) < RX_FRAME_QUEUE_SIZE
  BY DEF DriverOK, Driver
<1>2. /\ 0 \in 0 .. TIMEOUT + 1 /\ 0 \in 0 .. FRAME_DELAY
      /\ "REQUEST_SENDING" \in Status /\ "READY" \in Status
      /\ (IF ot.sending = 0 THEN TX_TIME ELSE ot.left) \in 0 .. TX_TIME
  BY <1>1, DriverAssumption DEF Status
<1>3. CASE CanTransmit(ot)
  <2>1. ot.sending + 1 \in 0 .. TX_DEPTH
    BY <1>1, <1>3, DriverAssumption DEF CanTransmit
  <2>2. sendResponse(ot) \in Driver /\ sendResponse(ot).queue = ot.queue
    BY <1>1, <1>2, <1>3, <2>1 DEF sendResponse, Driver
  <2> QED
    BY <1>1, <2>2 DEF DriverOK
<1>4. CASE ~CanTransmit(ot)
  <2>1. sendResponse(ot) \in Driver /\ sendResponse(ot).queue = ot.queue
    BY <1>1, <1>2, <1>4 DEF sendResponse, Driver
  <2> QED
    BY <1>1, <2>1 DEF DriverOK
<1> QED
  BY <1>3, <1>4

\* process() takes at most one frame, whatever it finds.
LEMMA ProcessOK ==
  ASSUME NEW ot, DriverOK(ot)
  PROVE  DriverOK(process(ot))
<1> DEFINE rest == IF ot.queue = <<>> THEN ot.queue ELSE Tail(ot.queue)
           taken == [ot EXCEPT !.queue = rest, !.edge_overflow = FALSE]
<1>1. /\ ot \in Driver /\ ot.queue \in Seq(Frame)
      /\ Len(ot.queue) \in Nat /\ Len(ot.queue) < RX_FRAME_QUEUE_SIZE
  BY DEF DriverOK, Driver
<1>2. rest \in Seq(Frame) /\ Len(rest) \in Nat /\ Len(rest) <= Len(ot.queue)
  BY <1>1
<1>3. Len(rest) < RX_FRAME_QUEUE_SIZE
  BY <1>1, <1>2, DriverAssumption
<1>4. /\ 0 \in 0 .. TIMEOUT + 1 /\ 0 \in 0 .. FRAME_DELAY /\ FRAME_DELAY \in 0 .. FRAME_DELAY
      /\ "DELAY" \in Status /\ "READY" \in Status
  BY DriverAssumption DEF Status
<1> HIDE DEF rest
<1>5. taken \in Driver /\ taken.queue = rest
  BY <1>1, <1>2 DEF Driver
<1> DEFINE gap == [taken EXCEPT !.status = "DELAY", !.delay = FRAME_DELAY, !.age = 0]
           refused == [taken EXCEPT !.status = "READY", !.delay = 0, !.age = 0]
           sent == [taken EXCEPT !.status = "READY", !.age = 0,
                                 !.tx_in_progress = FALSE, !.tx_complete = FALSE]
           rested == [taken EXCEPT !.status = "READY"]
<1>6. process(ot) \in {ot, gap, refused, sent, rested, taken}
  BY DEF process, rest
<1> HIDE DEF taken
<1>7. gap \in Driver /\ gap.queue = rest
  BY <1>4, <1>5 DEF Driver
<1>8. refused \in Driver /\ refused.queue = rest
  BY <1>4, <1>5 DEF Driver
<1>9. sent \in Driver /\ sent.queue = rest
  BY <1>4, <1>5 DEF Driver
<1>10. rested \in Driver /\ rested.queue = rest
  BY <1>4, <1>5 DEF Driver
<1> HIDE DEF gap, refused, sent, rested
<1> QED
  BY <1>1, <1>3, <1>5, <1>6, <1>7, <1>8, <1>9, <1>10 DEF DriverOK

LEMMA TickOK ==
  ASSUME NEW ot, DriverOK(ot)
  PROVE  DriverOK(tick(ot))
<1> DEFINE aged == Aged(ot.queue)
<1>1. /\ ot \in Driver /\ ot.queue \in Seq(Frame)
      /\ Len(ot.queue) \in Nat /\ Len(ot.queue) < RX_FRAME_QUEUE_SIZE
      /\ ot.age \in 0 .. TIMEOUT + 1 /\ ot.delay \in 0 .. FRAME_DELAY
      /\ ot.left \in 0 .. TX_TIME
  BY DEF DriverOK, Driver
<1>2. \A age \in 0 .. TIMEOUT + 1 : Older(age) \in 0 .. TIMEOUT + 1
  BY DriverAssumption DEF Older
<1>3. DOMAIN ot.queue = 1 .. Len(ot.queue)
  BY <1>1
<1>4. ASSUME NEW i \in DOMAIN ot.queue
      PROVE  [ot.queue[i] EXCEPT !.age = Older(@)] \in Frame
  <2>1. ot.queue[i] \in Frame
    BY <1>1, <1>3
  <2> QED
    BY <1>2, <2>1 DEF Frame
<1>5. aged \in Seq(Frame) /\ Len(aged) = Len(ot.queue)
  BY <1>1, <1>3, <1>4 DEF Aged
<1> DEFINE age == IF ot.status = "REQUEST_SENDING" THEN Older(ot.age) ELSE 0
           delay == IF ot.delay = 0 THEN 0 ELSE ot.delay - 1
           left == IF ot.left = 0 THEN 0 ELSE ot.left - 1
<1>6. age \in 0 .. TIMEOUT + 1
  <2>1. 0 \in 0 .. TIMEOUT + 1
    BY DriverAssumption
  <2> QED
    BY <1>1, <1>2, <2>1
<1>7. delay \in 0 .. FRAME_DELAY /\ left \in 0 .. TX_TIME
  BY <1>1, DriverAssumption
<1>8. tick(ot) = [ot EXCEPT !.age = age, !.delay = delay, !.left = left, !.queue = aged]
  BY DEF tick
<1> HIDE DEF aged, age, delay, left
<1>9. tick(ot) \in Driver /\ tick(ot).queue = aged
  BY <1>1, <1>5, <1>6, <1>7, <1>8 DEF Driver
<1> QED
  BY <1>1, <1>5, <1>9 DEF DriverOK

------------------------------------------------------------------------------
(* What the operations do to single fields.                                *)

\* The end of a transmission that began is told, or the frame is on the wire for
\* as long as the driver has been sending.
Told(d) ==
  d.status = "REQUEST_SENDING" =>
    /\ d.tx_in_progress
    /\ d.tx_complete \/ (d.sending = 1 /\ d.age + d.left <= TX_TIME)

LEMMA ProcessFields ==
  ASSUME NEW d \in Driver, d.status # "NOT_INITIALIZED"
  PROVE  /\ process(d).queue = IF d.queue = <<>> THEN d.queue ELSE Tail(d.queue)
         /\ process(d).edge_overflow = FALSE
         /\ process(d).sending = d.sending /\ process(d).left = d.left
         /\ process(d).status \in {"DELAY", "READY", d.status}
         /\ process(d).status = "REQUEST_SENDING" =>
              /\ process(d).tx_in_progress = d.tx_in_progress
              /\ process(d).tx_complete = d.tx_complete
              /\ process(d).age = d.age
<1> DEFINE rest == IF d.queue = <<>> THEN d.queue ELSE Tail(d.queue)
           taken == [d EXCEPT !.queue = rest, !.edge_overflow = FALSE]
           p == process(d)
<1>1. /\ taken.queue = rest /\ taken.edge_overflow = FALSE
      /\ taken.sending = d.sending /\ taken.left = d.left /\ taken.status = d.status
      /\ taken.tx_in_progress = d.tx_in_progress /\ taken.tx_complete = d.tx_complete
      /\ taken.age = d.age
      /\ DOMAIN taken = {"status", "age", "delay", "queue", "edge_overflow",
                          "tx_in_progress", "tx_complete", "sending", "left"}
  BY DEF Driver
<1>2. \/ p = [taken EXCEPT !.status = "DELAY", !.delay = FRAME_DELAY, !.age = 0]
      \/ p = [taken EXCEPT !.status = "READY", !.delay = 0, !.age = 0]
      \/ p = [taken EXCEPT !.status = "READY", !.age = 0,
                           !.tx_in_progress = FALSE, !.tx_complete = FALSE]
      \/ p = [taken EXCEPT !.status = "READY"]
      \/ p = taken
  BY DEF process
<1> HIDE DEF rest, taken, p
<1>3. /\ p.queue = rest /\ p.edge_overflow = FALSE
      /\ p.sending = d.sending /\ p.left = d.left
      /\ p.status \in {"DELAY", "READY", d.status}
      /\ p.status = "REQUEST_SENDING" =>
           /\ p.tx_in_progress = d.tx_in_progress /\ p.tx_complete = d.tx_complete
           /\ p.age = d.age
  BY <1>1, <1>2
<1> QED
  BY <1>3 DEF p, rest

LEMMA ToldProcess ==
  ASSUME NEW d \in Driver, d.status # "NOT_INITIALIZED", Told(d)
  PROVE  Told(process(d))
BY ProcessFields DEF Told

\* process() has nothing to report of a driver that nothing reached, nor of its
\* own transmission.
LEMMA NothingToReport ==
  ASSUME NEW d \in Driver, Told(d), TX_TIME <= TIMEOUT,
         d.queue = <<>>, ~d.edge_overflow
  PROVE  Report(d) = "NONE"
<1>1. d.age \in Nat /\ d.left \in Nat /\ TX_TIME \in Nat /\ TIMEOUT \in Nat
  BY DriverAssumption DEF Driver
<1>2. d.status = "REQUEST_SENDING" /\ ~TransmissionOver(d) => ~(d.age > TIMEOUT)
  BY <1>1 DEF Told, TransmissionOver
<1> QED
  BY <1>2 DEF Report

\* A transmission that goes on is left alone.
LEMMA ProcessWaits ==
  ASSUME NEW d \in Driver, Told(d), TX_TIME <= TIMEOUT,
         d.queue = <<>>, ~d.edge_overflow,
         d.status = "REQUEST_SENDING", ~d.tx_complete
  PROVE  process(d).status = "REQUEST_SENDING"
<1> DEFINE taken == [d EXCEPT !.queue = IF @ = <<>> THEN @ ELSE Tail(@),
                              !.edge_overflow = FALSE]
<1>1. Report(d) = "NONE" /\ ~StartsGap(d) /\ ~TransmissionOver(d)
  BY NothingToReport DEF StartsGap, TransmissionOver
<1>2. process(d) = taken
  BY <1>1 DEF process
<1>3. taken.status = d.status
  BY DEF Driver
<1> QED
  BY <1>2, <1>3

\* A request in time is reported and taken out of the ring.
LEMMA TakesRequest ==
  ASSUME NEW d \in Driver, d.status # "NOT_INITIALIZED", ~d.edge_overflow,
         Len(d.queue) = 1, Head(d.queue).kind = "valid", Head(d.queue).age <= TIMEOUT
  PROVE  /\ Report(d) = "SUCCESS"
         /\ process(d).status = "DELAY" /\ process(d).queue = <<>>
<1>1. d.queue \in Seq(Frame) /\ d.queue # <<>>
  BY DEF Driver
<1>2. Tail(d.queue) = <<>>
  <2>1. Tail(d.queue) \in Seq(Frame) /\ Len(Tail(d.queue)) = 0
    BY <1>1
  <2> QED
    BY <2>1, EmptySeq
<1>3. Head(d.queue).age \in Nat /\ TIMEOUT \in Nat
  <2>1. Head(d.queue) \in Frame
    BY <1>1
  <2> QED
    BY <2>1, DriverAssumption DEF Frame
<1>4. StartsGap(d) /\ Report(d) = "SUCCESS"
  BY <1>1, <1>3 DEF StartsGap, Report
<1> DEFINE taken == [d EXCEPT !.queue = IF @ = <<>> THEN @ ELSE Tail(@),
                              !.edge_overflow = FALSE]
<1>5. process(d) = [taken EXCEPT !.status = "DELAY", !.delay = FRAME_DELAY, !.age = 0]
  BY <1>4 DEF process
<1>6. DOMAIN taken = DOMAIN d /\ "status" \in DOMAIN d
  BY DEF Driver
<1> HIDE DEF taken
<1>7. process(d).status = "DELAY"
  BY <1>5, <1>6
<1> QED
  BY <1>1, <1>2, <1>4, <1>7, ProcessFields

\* A frame handed to an idle peripheral is on the wire.
LEMMA SendFields ==
  ASSUME NEW d \in Driver, d.status # "NOT_INITIALIZED", d.sending = 0
  PROVE  /\ CanTransmit(d)
         /\ sendResponse(d).sending = 1 /\ sendResponse(d).left = TX_TIME
         /\ sendResponse(d).status = "REQUEST_SENDING" /\ sendResponse(d).age = 0
         /\ sendResponse(d).tx_in_progress /\ ~sendResponse(d).tx_complete
         /\ sendResponse(d).queue = d.queue
         /\ sendResponse(d).edge_overflow = d.edge_overflow
<1>1. CanTransmit(d)
  BY DriverAssumption DEF CanTransmit
<1> DEFINE sending == d.sending + 1
           left == IF d.sending = 0 THEN TX_TIME ELSE d.left
<1>2. sending = 1 /\ left = TX_TIME
  OBVIOUS
<1>3. sendResponse(d) =
        [d EXCEPT !.status = "REQUEST_SENDING", !.age = 0, !.delay = 0,
                  !.tx_in_progress = TRUE, !.tx_complete = FALSE,
                  !.sending = sending, !.left = left]
  BY <1>1 DEF sendResponse
<1> HIDE DEF sending, left
<1>4. /\ sendResponse(d).sending = sending /\ sendResponse(d).left = left
      /\ sendResponse(d).status = "REQUEST_SENDING" /\ sendResponse(d).age = 0
      /\ sendResponse(d).tx_in_progress /\ ~sendResponse(d).tx_complete
      /\ sendResponse(d).queue = d.queue
      /\ sendResponse(d).edge_overflow = d.edge_overflow
  BY <1>3 DEF Driver
<1> QED
  BY <1>1, <1>2, <1>4

LEMMA ToldSend ==
  ASSUME NEW d \in Driver, d.status # "NOT_INITIALIZED", d.sending = 0
  PROVE  Told(sendResponse(d))
BY SendFields, DriverAssumption DEF Told

LEMMA TxDoneFields ==
  ASSUME NEW d \in Driver
  PROVE  /\ tx_done(d).sending = d.sending - 1 /\ tx_done(d).tx_complete
         /\ tx_done(d).status = d.status /\ tx_done(d).age = d.age
         /\ tx_done(d).tx_in_progress = d.tx_in_progress
         /\ tx_done(d).queue = d.queue /\ tx_done(d).edge_overflow = d.edge_overflow
BY DEF tx_done, Driver

LEMMA ToldTxDone ==
  ASSUME NEW d \in Driver, Told(d)
  PROVE  Told(tx_done(d))
BY TxDoneFields DEF Told

LEMMA RxFields ==
  ASSUME NEW d \in Driver, NEW kind
  PROVE  /\ queue_rx_frame(d, kind).status = d.status
         /\ queue_rx_frame(d, kind).age = d.age
         /\ queue_rx_frame(d, kind).sending = d.sending
         /\ queue_rx_frame(d, kind).left = d.left
         /\ queue_rx_frame(d, kind).tx_in_progress = d.tx_in_progress
         /\ queue_rx_frame(d, kind).tx_complete = d.tx_complete
         /\ queue_rx_frame(d, kind).queue =
              IF QueueFull(d) THEN d.queue ELSE Append(d.queue, [kind |-> kind, age |-> 0])
         /\ queue_rx_frame(d, kind).edge_overflow = (QueueFull(d) \/ d.edge_overflow)
BY DEF queue_rx_frame, Driver

LEMMA TickFields ==
  ASSUME NEW d \in Driver
  PROVE  /\ tick(d).status = d.status /\ tick(d).sending = d.sending
         /\ tick(d).tx_in_progress = d.tx_in_progress
         /\ tick(d).tx_complete = d.tx_complete
         /\ tick(d).edge_overflow = d.edge_overflow
         /\ tick(d).queue = Aged(d.queue)
         /\ tick(d).age = IF d.status = "REQUEST_SENDING" THEN Older(d.age) ELSE 0
         /\ tick(d).left = IF d.left = 0 THEN 0 ELSE d.left - 1
BY DEF tick, Driver

LEMMA ToldTick ==
  ASSUME NEW d \in Driver, Told(d), MayTick(d)
  PROVE  Told(tick(d))
<1>1. d.age \in Int /\ d.left \in Int /\ TX_TIME \in Int /\ TIMEOUT \in Int
  BY DriverAssumption DEF Driver
<1>2. Older(d.age) <= d.age + 1 /\ Older(d.age) \in Int
  BY <1>1 DEF Older
<1> QED
  BY <1>1, <1>2, TickFields DEF Told, MayTick

\* The ages of the frames that wait go up by at most one.
LEMMA AgedFields ==
  ASSUME NEW q \in Seq(Frame)
  PROVE  /\ Aged(q) \in Seq(Frame) /\ Len(Aged(q)) = Len(q)
         /\ \A i \in 1 .. Len(q) : /\ Aged(q)[i].kind = q[i].kind
                                  /\ Aged(q)[i].age = Older(q[i].age)
                                  /\ q[i].age \in Nat /\ Older(q[i].age) \in Nat
                                  /\ Older(q[i].age) <= q[i].age + 1
<1>1. DOMAIN q = 1 .. Len(q) /\ \A i \in 1 .. Len(q) : q[i] \in Frame
  OBVIOUS
<1>2. \A age \in 0 .. TIMEOUT + 1 :
        Older(age) \in 0 .. TIMEOUT + 1 /\ Older(age) <= age + 1
  BY DriverAssumption DEF Older
<1>3. ASSUME NEW i \in 1 .. Len(q)
      PROVE  /\ Aged(q)[i] \in Frame /\ [q[i] EXCEPT !.age = Older(@)] \in Frame
             /\ Aged(q)[i].kind = q[i].kind /\ Aged(q)[i].age = Older(q[i].age)
             /\ q[i].age \in Nat /\ Older(q[i].age) \in Nat
             /\ Older(q[i].age) <= q[i].age + 1
  <2>1. q[i] \in Frame /\ q[i].age \in 0 .. TIMEOUT + 1
    BY <1>1 DEF Frame
  <2> DEFINE age == Older(q[i].age)
  <2>2. Aged(q)[i] = [q[i] EXCEPT !.age = age]
    BY <1>1 DEF Aged
  <2>3. age \in 0 .. TIMEOUT + 1 /\ age <= q[i].age + 1
    BY <1>2, <2>1
  <2> HIDE DEF age
  <2>4. /\ Aged(q)[i] \in Frame
        /\ Aged(q)[i].kind = q[i].kind /\ Aged(q)[i].age = age
    BY <2>1, <2>2, <2>3 DEF Frame
  <2>5. age \in Nat /\ q[i].age \in Nat
    BY <2>1, <2>3, DriverAssumption
  <2> QED
    BY <2>2, <2>3, <2>4, <2>5 DEF age
<1>4. Aged(q) \in Seq(Frame) /\ Len(Aged(q)) = Len(q)
  <2>1. Len(q) \in Nat
    OBVIOUS
  <2>2. Aged(q) = [i \in 1 .. Len(q) |-> [q[i] EXCEPT !.age = Older(@)]]
    BY <1>1 DEF Aged
  <2>3. Aged(q) \in [1 .. Len(q) -> Frame]
    BY <1>3, <2>2
  <2> QED
    BY <2>1, <2>3
<1> HIDE DEF Aged, Older
<1> QED
  BY <1>3, <1>4, Zenon
==============================================================================
