---------------------------- MODULE AddressConfig ----------------------------
(***************************************************************************)
(* How the Modbus addresses of the two outdoor units come into force: the  *)
(* pending numbers of the web page, "Apply ODU profiles and addresses, then *)
(* reboot", the restored globals and the boot lambda that hands them to    *)
(* QuattOduSimulator::set_address one after the other.                     *)
(*                                                                         *)
(* ESPHome (external) writes a changed global to flash about a second      *)
(* later, each under its own key, and on an orderly restart writes both.   *)
(* A power cut may come at any time.                                       *)
(***************************************************************************)
EXTENDS Integers

CONSTANTS
  Addresses  \* the addresses a user chooses from

Odu == {0, 1}
Other(index) == 1 - index
Factory == [index \in Odu |-> index + 1]

VARIABLES
  pending,         \* odu_N_pending_address
  active_address,  \* odu_N_active_address, the globals
  flash,           \* what of the globals is in flash
  addresses_,      \* the addresses the units answer to
  restarting       \* Apply waits 2 s before it presses restart

vars == <<pending, active_address, flash, addresses_, restarting>>

set_address_AllowsEqual(addresses, index, address) ==
  [addresses EXCEPT ![index] = address]

set_address(addresses, index, address) ==
  IF addresses[Other(index)] = address THEN addresses
  ELSE [addresses EXCEPT ![index] = address]

find_odu_by_address(addresses, address) ==
  IF addresses[0] = address THEN 0 ELSE IF addresses[1] = address THEN 1 ELSE -1

\* The boot lambda, on an object that was just constructed.
Booted(persisted) ==
  set_address(set_address(Factory, 0, persisted[0]), 1, persisted[1])

------------------------------------------------------------------------------

Init ==
  /\ pending = Factory /\ active_address = Factory /\ flash = Factory
  /\ addresses_ = Booted(Factory)
  /\ restarting = FALSE

SetPending(index, address) ==
  /\ pending' = [pending EXCEPT ![index] = address]
  /\ UNCHANGED <<active_address, flash, addresses_, restarting>>

Apply ==
  /\ pending[0] # pending[1]
  /\ active_address' = pending
  /\ restarting' = TRUE
  /\ UNCHANGED <<pending, flash, addresses_>>

WriteFlash(index) ==
  /\ flash' = [flash EXCEPT ![index] = active_address[index]]
  /\ UNCHANGED <<pending, active_address, addresses_, restarting>>

\* Apply's restart, the restart button or an update: shutdown, then boot.
Restart ==
  /\ flash' = active_address
  /\ addresses_' = Booted(active_address)
  /\ restarting' = FALSE
  /\ UNCHANGED <<pending, active_address>>

PowerCut ==
  /\ active_address' = flash
  /\ addresses_' = Booted(flash)
  /\ restarting' = FALSE
  /\ UNCHANGED <<pending, flash>>

Next ==
  \/ \E index \in Odu, address \in Addresses : SetPending(index, address)
  \/ Apply
  \/ \E index \in Odu : WriteFlash(index)
  \/ Restart
  \/ PowerCut

Spec == Init /\ [][Next]_vars

------------------------------------------------------------------------------
(* Properties.                                                             *)

\* Each unit is found by its own address, so neither hides the other: also
\* when a power cut left flash with the new address of one unit and the old
\* one of the other, which may be equal although Apply refuses equal ones.
EachUnitReachable ==
  \A index \in Odu : find_odu_by_address(addresses_, addresses_[index]) = index

\* README: "Profile and address changes only become active after that explicit
\* reboot."  Until the next Apply the units answer to the applied addresses.
AppliedBecomesActive == restarting \/ addresses_ = active_address

==============================================================================
