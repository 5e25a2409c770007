------------------------------ MODULE MCOpenTherm ------------------------------
(* The two simulators that use the OpenTherm driver, for TLC: the boiler's *)
(* slave and the thermostat.  They run on devices of their own, so one run *)
(* explores each by itself.                                                *)
EXTENDS OpenThermSlave

CONSTANT PollInterval

VARIABLES
  thermostat_ot, thermostat, thermostat_looped, thermostat_normal,
  device  \* "boiler" or "thermostat"

thermostat_vars == <<thermostat_ot, thermostat, thermostat_looped, thermostat_normal>>

Thermostat ==
  INSTANCE ThermostatMaster WITH
    ot <- thermostat_ot, looped <- thermostat_looped, normal <- thermostat_normal

\* The intervals of the interface start at 250 ms; a frame takes 34 ms.
ASSUME PollAssumption ==
  /\ PollInterval \subseteq Nat
  /\ \A interval \in PollInterval : interval > TX_TIME
  /\ Thermostat!Longest \in PollInterval

\* The driver gives up after 1000 ms, and its ring has 4 slots.
ASSUME RingAssumption == TX_TIME <= TIMEOUT /\ RX_FRAME_QUEUE_SIZE <= TIMEOUT + 1

\* The boiler is switched off while the thermostat is explored, and the
\* thermostat while the boiler is.
BoilerOff ==
  /\ ot = Stopped /\ master = NotFollowed
  /\ looped = FALSE /\ normal = TRUE /\ response_enabled = TRUE
  /\ life = [halted(Booted) EXCEPT !.phase = "off"]
  /\ scheduler = [pending |-> FALSE, due |-> 0, delay |-> 1, counted |-> {}]

MCInit ==
  /\ Thermostat!Init /\ thermostat.interval = 2
  /\ \/ device = "boiler" /\ Init
     \/ device = "thermostat" /\ BoilerOff

Boiler(Action) == device = "boiler" /\ Action /\ UNCHANGED <<thermostat_vars, device>>

Master(Action) ==
  /\ device = "thermostat" /\ Action
  /\ UNCHANGED <<vars, device>>

MCNext == Boiler(Next) \/ Master(Thermostat!Next)

mc_vars == <<vars, thermostat_vars, device>>

MCSpec ==
  /\ MCInit /\ [][MCNext]_mc_vars
  /\ WF_mc_vars(Boiler(Loop)) /\ WF_mc_vars(Boiler(Tick)) /\ WF_mc_vars(Boiler(TxDone))
  /\ WF_mc_vars(Master(Thermostat!loop)) /\ WF_mc_vars(Master(Thermostat!Tick))
  /\ WF_mc_vars(Master(Thermostat!TxDone))

\* A request of the thermostat is never handed to the peripheral while another
\* is on the wire: see ThermostatMaster.
OneRequestOnWire == Thermostat!OneRequestOnWire

\* A timeout the thermostat counts is a stall of its loop, never a controller
\* that does not answer: see ThermostatMaster.
TimeoutMeansStall == Thermostat!TimeoutMeansStall

\* The thermostat's four requests go round for ever: see ThermostatMaster.
PollingGoesOn == Thermostat!PollingGoesOn
==============================================================================
