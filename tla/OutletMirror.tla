----------------------------- MODULE OutletMirror -----------------------------
(***************************************************************************)
(* What the bridge promises about the state topics, without a poller, a    *)
(* controller or any await: a picture of the relays, taken round by round. *)
(*                                                                         *)
(*   relay[n]   the position of outlet n's relay                           *)
(*   shown[n]   its state topic                                            *)
(*   pool[n]    what may be shown of it: where the relay has been since    *)
(*              the round began, and what commands have claimed            *)
(*   confirmed  the outlets whose topic is vouched for by a whole round    *)
(*                                                                         *)
(* A topic may always lag; it never shows anything from outside the round, *)
(* and relays move for reasons of their own, never because of a topic.     *)
(***************************************************************************)
CONSTANTS
  Outlets,    \* the outlets of the PDU
  Relays,     \* the positions of a relay
  Claims,     \* the states that commands may claim
  Unknown     \* what is shown of an outlet that did not answer

VARIABLES relay, shown, pool, confirmed

mirrorVars == <<relay, shown, pool, confirmed>>

Vouchsafed(n) == shown[n] \in pool[n] \cup {Unknown}

Init ==
  /\ relay \in [Outlets -> Relays]
  /\ pool = [n \in Outlets |-> {relay[n]}]
  /\ confirmed = {}

RelayMoves(n) ==
  /\ \E position \in Relays :
       /\ relay' = [relay EXCEPT ![n] = position]
       /\ pool' = [pool EXCEPT ![n] = @ \cup {position}]
  /\ UNCHANGED <<shown, confirmed>>

\* What was true before the round does not count any more.
NewRound ==
  /\ pool' = [n \in Outlets |-> {relay[n]}]
  /\ confirmed' = {}
  /\ UNCHANGED <<relay, shown>>

\* A command claims a state, and may or may not get it shown.
Claim(n) ==
  /\ \E state \in Claims :
       /\ pool' = [pool EXCEPT ![n] = @ \cup {state}]
       /\ shown' \in {shown, [shown EXCEPT ![n] = state]}
  /\ UNCHANGED <<relay, confirmed>>

Show(n) ==
  /\ \E state \in pool[n] \cup {Unknown} : shown' = [shown EXCEPT ![n] = state]
  /\ UNCHANGED <<relay, pool, confirmed>>

\* The round is over for the outlets it has covered.
Confirm ==
  /\ confirmed' \in SUBSET {n \in Outlets : Vouchsafed(n)}
  /\ UNCHANGED <<relay, shown, pool>>

Next ==
  \/ \E n \in Outlets : RelayMoves(n) \/ Claim(n) \/ Show(n)
  \/ NewRound
  \/ Confirm

Spec == Init /\ [][Next]_mirrorVars
===============================================================================
