------------------------------ MODULE CyberPower ------------------------------
(***************************************************************************)
(* The translation between SNMP integers and the values the rest of the    *)
(* bridge speaks: app/cyberpower.py, with the enumerations of              *)
(* app/models.py it produces.                                              *)
(*                                                                         *)
(* Python's None is the constant None.  Currents are kept in deciamps, the *)
(* PDU's own unit, and powers in deciwatts, so amps * volts is exact for a *)
(* mains voltage in whole volts and round(_, 1) has nothing to round.      *)
(***************************************************************************)
EXTENDS Integers

CONSTANT None       \* Python's None: no value was read

ASSUME NoneAssumption == /\ None \notin Nat
                         /\ None \notin {"ON", "OFF", "UNKNOWN"}

OutletState == {"ON", "OFF", "UNKNOWN"}

OutletCommand == {"ON", "OFF", "REBOOT", "CANCEL"}

\* The integer written to the outlet's command column for each command.
OUTLET_COMMAND_VALUES == [ON |-> 1, OFF |-> 2, REBOOT |-> 3, CANCEL |-> 4]

\* Pending commands (3, 4) are reported as the relay's present position.
parse_outlet_state(raw) ==
  CASE raw \in {1, 3} -> "ON"
    [] raw \in {2, 4} -> "OFF"
    [] OTHER          -> "UNKNOWN"

\* Variant with a fault: a lost current counts as no current.
watts_from_amps_volts_or_zero(amps, volts) ==
  IF amps = None THEN 0 ELSE amps * volts

watts_from_amps_volts(amps, volts) ==
  IF amps = None THEN None ELSE amps * volts
===============================================================================
