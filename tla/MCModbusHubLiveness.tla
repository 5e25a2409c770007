------------------------- MODULE MCModbusHubLiveness -------------------------
(***************************************************************************)
(* What ModbusHub finishes.  `lap` flips on every LoopTop: a pass of       *)
(* loop() that finds the UART driver unchanged is still a pass, so that    *)
(* fairness says that loop() is called and never what the driver answers.  *)
(* Restarts and the reset of the diagnostics are left out: a restart ends  *)
(* everything, and the counters decide nothing.                            *)
(***************************************************************************)
EXTENDS ModbusHub

VARIABLE lap

liveVars == <<hub, settings, lap>>

Pass == (\E quiet \in BOOLEAN : LoopTop(quiet)) /\ lap' = ~lap

Finish == ((\E quiet \in BOOLEAN : FinishIdle(quiet)) \/ FinishWaiting) /\ UNCHANGED lap

Serve == (\E still \in BOOLEAN : FinishServing(still)) /\ UNCHANGED lap

Others ==
  /\ \/ \E r \in Request : ReceiveRequest(r)
     \/ \E a \in Address, quiet \in BOOLEAN : ReceiveNonstandard(a, quiet)
     \/ \E mode \in UartFaultMode : request_uart_fault(mode)
     \/ request_uart_response_sentinel
     \/ request_uart_response_parity_fault
     \/ \E enabled \in FaultSwitch, i \in Injections, d \in Delays : SyncSettings(enabled, i, d)
  /\ UNCHANGED lap

Clock == Tick /\ UNCHANGED lap

\* ESPHome keeps calling loop(), time passes, and the line is free again and
\* again when loop() looks: the client awaits its answers.
LiveSpec ==
  /\ Init /\ lap = FALSE
  /\ [][Pass \/ Finish \/ Serve \/ Others \/ Clock]_liveVars
  /\ WF_liveVars(Pass)
  /\ WF_liveVars(Finish)
  /\ SF_liveVars(Serve)
  /\ WF_liveVars(Clock)

\* Whatever the UART driver answers, the transceiver is released in the end:
\* a reply and an injected fault each have a deadline (pump_tx_ and
\* pump_uart_fault_).
TransmissionEnds == Busy(hub) ~> ~Busy(hub)

\* A request that was queued is taken off the queue again, whatever else
\* arrives and whatever faults are injected in between.
RequestServed == hub.pending # NoRequest ~> hub.pending = NoRequest

==============================================================================
