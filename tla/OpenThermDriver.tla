---------------------------- MODULE OpenThermDriver ----------------------------
(***************************************************************************)
(* The OpenTherm driver the boiler and the thermostat simulator share: the *)
(* ring of frames the receive interrupt fills, the state process() drives  *)
(* and the transmission in the RMT peripheral.                             *)
(*                                                                         *)
(* The operators take and return the driver `ot`.  RESPONSE_READY and      *)
(* RESPONSE_INVALID are entered and left within one process(), so they are *)
(* not states here; process() handles at most one frame, since either of   *)
(* them ends its loop.  A frame is what decoding makes of it: "valid",     *)
(* "bad" (its parity or message type is wrong) or "garbled" (no frame at   *)
(* all).  Interrupts during process() or sendResponse() have the effect of *)
(* interrupts right before or after the main loop's pass.  A field that is *)
(* not read again before it is written is back at zero.                    *)
(***************************************************************************)
EXTENDS Integers, Sequences

CONSTANTS
  RX_FRAME_QUEUE_SIZE,  \* slots of the ring; one stays empty
  TX_DEPTH,             \* transmissions the peripheral takes at a time
  TX_TIME,              \* length of a frame on the wire
  TIMEOUT,              \* after which process() gives up
  FRAME_DELAY           \* OT_FRAME_DELAY_US

ASSUME DriverAssumption ==
  /\ RX_FRAME_QUEUE_SIZE \in Nat /\ RX_FRAME_QUEUE_SIZE > 1
  /\ {TX_DEPTH, TX_TIME, TIMEOUT, FRAME_DELAY} \subseteq Nat \ {0}

FrameKind == {"valid", "bad", "garbled"}

Frame == [kind : FrameKind, age : 0 .. TIMEOUT + 1]

Status == {"NOT_INITIALIZED", "READY", "REQUEST_SENDING", "DELAY"}

Driver ==
  [status : Status,
   age : 0 .. TIMEOUT + 1,       \* of responseTimestamp
   delay : 0 .. FRAME_DELAY,     \* until delay_until_us_
   queue : Seq(Frame), edge_overflow : BOOLEAN,
   tx_in_progress : BOOLEAN, tx_complete : BOOLEAN,
   sending : 0 .. TX_DEPTH,      \* the peripheral: frames it has yet to send
   left : 0 .. TX_TIME]          \* and what is left of the one on the wire

Stopped == [status |-> "NOT_INITIALIZED", age |-> 0, delay |-> 0,
            queue |-> <<>>, edge_overflow |-> FALSE,
            tx_in_progress |-> FALSE, tx_complete |-> FALSE,
            sending |-> 0, left |-> 0]

\* begin() with both channels up.
begin(ot) == [Stopped EXCEPT !.status = "READY"]

\* end() waits for a transmission to finish before it deletes the channels.
end(ot) == Stopped

------------------------------------------------------------------------------
(* Interrupts.                                                             *)

QueueFull(ot) == Len(ot.queue) + 1 = RX_FRAME_QUEUE_SIZE

queue_rx_frame(ot, kind) ==
  IF QueueFull(ot) THEN [ot EXCEPT !.edge_overflow = TRUE]
  ELSE [ot EXCEPT !.queue = Append(@, [kind |-> kind, age |-> 0])]

tx_done_NotTold(ot) ==
  [ot EXCEPT !.sending = @ - 1, !.left = IF ot.sending > 1 THEN TX_TIME ELSE 0]

tx_done(ot) ==
  [ot EXCEPT !.tx_complete = TRUE,
             !.sending = @ - 1,
             !.left = IF ot.sending > 1 THEN TX_TIME ELSE 0]

------------------------------------------------------------------------------
(* The main loop.                                                          *)

CanTransmit(ot) == ot.status # "NOT_INITIALIZED" /\ ot.sending < TX_DEPTH

sendResponse(ot) ==
  IF CanTransmit(ot)
  THEN [ot EXCEPT !.status = "REQUEST_SENDING", !.age = 0, !.delay = 0,
                  !.tx_in_progress = TRUE, !.tx_complete = FALSE,
                  !.sending = @ + 1,
                  !.left = IF ot.sending = 0 THEN TX_TIME ELSE @]
  ELSE [ot EXCEPT !.status = "READY", !.age = 0, !.delay = 0,
                  !.tx_in_progress = FALSE, !.tx_complete = FALSE]

TransmissionOver_IgnoresCompletion(ot) ==
  ot.status = "REQUEST_SENDING" /\ ot.tx_in_progress

TransmissionOver(ot) ==
  ot.status = "REQUEST_SENDING" /\ ot.tx_in_progress /\ ot.tx_complete

\* What process() reports: a frame that is too old is a TIMEOUT, and an overflow
\* spoils the frame it is noticed with.
Report(ot) ==
  CASE ot.edge_overflow -> "INVALID"
    [] ~ot.edge_overflow /\ ot.queue # <<>> ->
         IF Head(ot.queue).age > TIMEOUT THEN "TIMEOUT"
         ELSE IF Head(ot.queue).kind = "valid" THEN "SUCCESS" ELSE "INVALID"
    [] OTHER ->
         IF /\ ot.status = "REQUEST_SENDING"
            /\ ~TransmissionOver(ot)
            /\ ot.age > TIMEOUT
         THEN "TIMEOUT" ELSE "NONE"

\* A decoded frame, good or bad, is followed by the inter-frame gap.
StartsGap(ot) ==
  /\ ~ot.edge_overflow
  /\ ot.queue # <<>>
  /\ Head(ot.queue).kind # "garbled"
  /\ Head(ot.queue).age <= TIMEOUT

process(ot) ==
  LET taken == [ot EXCEPT !.queue = IF @ = <<>> THEN @ ELSE Tail(@),
                          !.edge_overflow = FALSE]
  IN  CASE ot.status = "NOT_INITIALIZED" -> ot
        [] ot.status # "NOT_INITIALIZED" /\ StartsGap(ot) ->
             [taken EXCEPT !.status = "DELAY", !.delay = FRAME_DELAY, !.age = 0]
        [] ot.status # "NOT_INITIALIZED" /\ ~StartsGap(ot)
           /\ Report(ot) # "NONE" ->
             [taken EXCEPT !.status = "READY", !.delay = 0, !.age = 0]
        [] OTHER ->
             IF TransmissionOver(ot)
             THEN [taken EXCEPT !.status = "READY", !.age = 0,
                                !.tx_in_progress = FALSE, !.tx_complete = FALSE]
             ELSE IF ot.status = "DELAY" /\ ot.delay = 0
             THEN [taken EXCEPT !.status = "READY"]
             ELSE taken

------------------------------------------------------------------------------
(* Time.  A frame on the wire ends in time, and ages stop at TIMEOUT + 1.  *)

MayTick(ot) == ot.sending > 0 => ot.left > 0

Older(age) == IF age > TIMEOUT THEN age ELSE age + 1

Aged(queue) == [i \in DOMAIN queue |-> [queue[i] EXCEPT !.age = Older(@)]]

tick(ot) ==
  [ot EXCEPT !.age = IF ot.status = "REQUEST_SENDING" THEN Older(@) ELSE 0,
             !.delay = IF @ = 0 THEN 0 ELSE @ - 1,
             !.left = IF @ = 0 THEN 0 ELSE @ - 1,
             !.queue = Aged(@)]
==============================================================================
