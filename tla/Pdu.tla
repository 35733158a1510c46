---------------------------------- MODULE Pdu ----------------------------------
(***************************************************************************)
(* The CyberPower PDU as the bridge sees it through SNMP.  The device is   *)
(* not part of the repository: the model keeps what app/poller.py and      *)
(* app/controller.py rely on, as docs/cyberpower-mibs.md describes it.     *)
(*                                                                         *)
(* settled is the moment after which the surroundings stop misbehaving:    *)
(* nobody flips a relay, renames an outlet or loses a packet any more.  It *)
(* is never forced to happen; liveness properties say what the bridge      *)
(* achieves once it does.                                                  *)
(***************************************************************************)
EXTENDS CyberPower

CONSTANTS
  NOutlets,   \* rows of the outlet table
  Names,      \* the outlet names users may choose in the PDU's web UI
  SysName,    \* sysName of this PDU, or None
  Loads,      \* bank loads the PDU may report, in deciamps
  Faults,     \* the disturbances that may occur
  Endings     \* how the disturbances, or the bridge, may end

FaultKinds == {"loss", "set_loss", "dark", "no_host", "empty_walk", "rename",
               "toggle", "noop", "stall", "drop", "half_open", "crash"}

EndingKinds == {"settle", "stop"}

ASSUME PduAssumption == /\ NOutlets \in Nat \ {0}
                        /\ None \notin Names
                        /\ Loads \subseteq Nat
                        /\ Faults \subseteq FaultKinds
                        /\ Endings \subseteq EndingKinds

VARIABLES
  column,       \* column[n]: the command/state column of outlet n, 1..4
  outlet_name,  \* outlet_name[n]: the user's name, None when left blank
  answering,    \* the SNMP agent is reachable
  settled       \* the surroundings have stopped changing

pduVars == <<column, outlet_name, answering, settled>>

Outlets == 1 .. NOutlets

PduTypeOK ==
  /\ column \in [Outlets -> 1 .. 4]
  /\ outlet_name \in [Outlets -> Names \cup {None}]
  /\ answering \in BOOLEAN
  /\ settled \in BOOLEAN

PduInit ==
  /\ column \in [Outlets -> 1 .. 4]
  /\ outlet_name \in [Outlets -> Names \cup {None}]
  /\ answering = TRUE
  /\ settled = FALSE

Disturbance(kind) == kind \in Faults /\ ~settled

\* A button on the PDU, or its web UI, switches a relay.
Toggle(n) ==
  /\ Disturbance("toggle")
  /\ \E v \in {1, 2} : column' = [column EXCEPT ![n] = v]
  /\ UNCHANGED <<outlet_name, answering, settled>>

\* A user edits an outlet name in the web UI.
Rename(n) ==
  /\ Disturbance("rename")
  /\ \E name \in Names \cup {None} :
       outlet_name' = [outlet_name EXCEPT ![n] = name]
  /\ UNCHANGED <<column, answering, settled>>

\* The agent, or the network to it, goes away and may come back.
GoDark ==
  /\ Disturbance("dark")
  /\ answering' = ~answering
  /\ UNCHANGED <<column, outlet_name, settled>>

\* A pending command runs its course inside the PDU: off, a delay, on.
Sequence(n) ==
  /\ column[n] \in {3, 4}
  /\ column' = [column EXCEPT ![n] = IF @ = 3 THEN 4 ELSE 1]
  /\ UNCHANGED <<outlet_name, answering, settled>>

Settle ==
  /\ "settle" \in Endings
  /\ ~settled
  /\ answering
  /\ settled' = TRUE
  /\ UNCHANGED <<column, outlet_name, answering>>

PduNext ==
  \/ \E n \in Outlets : Toggle(n) \/ Rename(n) \/ Sequence(n)
  \/ GoDark
  \/ Settle

\* What the column holds once the PDU has carried out a written command.
Actuated(before, value) ==
  CASE value \in {1, 2, 3} -> value
    [] value = 4           -> (CASE before = 3 -> 1
                                 [] before = 4 -> 2
                                 [] OTHER      -> before)
===============================================================================
