----------------------- MODULE MCCommunicationWatchdog -----------------------
(***************************************************************************)
(* Two units, a third address nobody has, and a clock that wraps within    *)
(* MaxClock, wherever in its period a unit was configured.  A tick does    *)
(* not divide the clock's period, as 10 ms does not divide 2^32.           *)
(***************************************************************************)
EXTENDS CommunicationWatchdog

CONSTANTS
  MaxClock,  \* the clock stops here
  Odu1, Odu2

MCUnitAddress == [u \in Unit |-> IF u = Odu1 THEN 1 ELSE 2]

BoundedPass == \E ms \in Gap : clock + ms <= MaxClock /\ Pass(ms)

MCNext ==
  \/ BoundedPass
  \/ LoopAdvance
  \/ \E request \in Request : observe_modbus_request(request)
  \/ \E u \in Unit, b \in BOOLEAN : set_fault_word(u, b)
  \/ \E u \in Unit, b \in BOOLEAN : configure(u, b)

MCSpec == Init /\ [][MCNext]_vars
==============================================================================
