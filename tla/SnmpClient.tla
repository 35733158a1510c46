------------------------------ MODULE SnmpClient ------------------------------
(***************************************************************************)
(* app/snmp_client.py: what one call returns.  A request reads the PDU at  *)
(* one instant; the reply, or the lack of it, is all the caller learns.    *)
(* Retries, timeouts and datagrams are inside a call: their outcome is     *)
(* whether an answer came.                                                 *)
(***************************************************************************)
EXTENDS Pdu

CONSTANT MaxRows    \* the poller walks with max_rows=32

ASSUME MaxRowsAssumption == MaxRows \in Nat \ {0}

\* A request needs the PDU's address first: constructing its target raises when
\* PDU_HOST cannot be resolved, with an error that is no SnmpError.
TargetMayRaise == Disturbance("no_host")

\* get_many turns every failed GET into None, so the caller cannot tell a
\* lost request, an unreachable agent and a missing object apart.
Replies(value) ==
  (IF answering THEN {value} ELSE {})
    \cup (IF ~answering \/ Disturbance("loss") THEN {None} ELSE {})

\* walk stops after max_rows rows, one row per response.
AllRows == IF NOutlets <= MaxRows THEN NOutlets ELSE MaxRows

\* The row counts a walk that ends without an error may report.  An agent
\* whose outlet table is not there yet answers from beyond the subtree.
WalkReplies ==
  (IF answering THEN {AllRows} ELSE {})
    \cup (IF answering /\ Disturbance("empty_walk") THEN {0} ELSE {})

\* walk raises SnmpError on the first failed response.
WalkMayRaise == ~answering \/ Disturbance("loss") \/ TargetMayRaise
===============================================================================
