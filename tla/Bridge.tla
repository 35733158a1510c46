-------------------------------- MODULE Bridge --------------------------------
(***************************************************************************)
(* The bridge with outlet control: the poller and the controller's callers *)
(* share the PDU, the broker connection and the event that wakes the       *)
(* poller.  Two variables exist only to state properties with:             *)
(*   recent[n]    what has been true, or been answered for, of outlet n    *)
(*                since the latest poll began: the states its relay was    *)
(*                in, and the states published on the word of a command    *)
(*   unconfirmed  a poll has been asked for, and none has begun since      *)
(***************************************************************************)
EXTENDS Poller, Controller

VARIABLES recent, unconfirmed

vars == <<pduVars, mqttVars, pollerVars, call, recent, unconfirmed>>

RelayState(n) == parse_outlet_state(column[n])

TypeOK ==
  /\ PollTypes /\ ControllerTypeOK
  /\ recent \in [Outlets -> SUBSET OutletState]
  /\ unconfirmed \in BOOLEAN

Init ==
  /\ PduInit /\ MqttInit /\ PollerInit /\ ControllerInit
  /\ recent = [n \in Outlets |-> {RelayState(n)}]
  /\ unconfirmed = FALSE

PollBegins == pc \in {"jitter", "sleep"} /\ pc' = "identity"

\* The relay states after a step join those already vouched for.
KeepRecent == recent' = [n \in Outlets |-> recent[n] \cup {RelayState(n)'}]

PollerStep ==
  /\ PollerNext
  /\ IF PollBegins THEN recent' = [n \in Outlets |-> {RelayState(n)}]
                   ELSE UNCHANGED recent
  /\ unconfirmed' = (unconfirmed /\ ~PollBegins)
  /\ UNCHANGED call

CallerStep(c) ==
  /\ Await(c) \/ Proceed(c)
  /\ IF call[c].phase = "publish"
     THEN recent' = [recent EXCEPT ![call[c].outlet] = @ \cup {call[c].command}]
     ELSE KeepRecent
  /\ unconfirmed' = (unconfirmed \/ call[c].phase = "nudge")
  /\ UNCHANGED pollerOwn

Surroundings ==
  /\ \/ PduNext /\ UNCHANGED mqttVars
     \/ LinkNext /\ UNCHANGED pduVars
  /\ KeepRecent
  /\ UNCHANGED <<pollerVars, call, unconfirmed>>

Next == PollerStep \/ (\E c \in Callers : CallerStep(c)) \/ Surroundings

Spec == Init /\ [][Next]_vars

\* The poller's awaits end, and so do those of each call.
FairSpec ==
  /\ Spec
  /\ WF_vars(PollerStep /\ Run)
  /\ \A c \in Callers : WF_vars(CallerStep(c) /\ Proceed(c))

-------------------------------------------------------------------------------
(***************************************************************************)
(* Safety.                                                                 *)
(***************************************************************************)
\* After a successful cycle that was delivered no retained state is older than
\* that cycle, however the poller's publishes and the optimistic ones
\* interleave: each was the relay's, or was published for a command, since the
\* poll began (_run, set_outlet).
NothingStale ==
  Delivered /\ AfterSuccess =>
    \A n \in 1 .. Len(last_snapshot.outlets) :
      retained.state[n] \in recent[n] \cup {"UNKNOWN"}

\* The picture the state topics give of the relays (OutletMirror): the poll
\* is its round, and a successful cycle that was delivered confirms the outlets
\* it polled.
Relay == [n \in Outlets |-> RelayState(n)]

Confirmed ==
  IF Delivered /\ AfterSuccess THEN 1 .. Len(last_snapshot.outlets) ELSE {}

Mirror == INSTANCE OutletMirror WITH
  Relays    <- {"ON", "OFF"},
  Claims    <- {"ON", "OFF"},
  Unknown   <- "UNKNOWN",
  relay     <- Relay,
  shown     <- retained.state,
  pool      <- recent,
  confirmed <- Confirmed

\* The bridge implements that picture: at every single publish, and not only
\* between cycles, what is shown of an outlet comes from the current poll or
\* from a command since, and no publish ever moves a relay.
MirrorsRelays == Mirror!Spec

\* Outlet control obeys the operator (_check_allowed, _write_auth): as long
\* as nobody touches the PDU itself, a relay at rest only ever moves if
\* control is enabled, its outlet is allowed and a write community is set.
GatedWrites == [][GatedStep]_vars

\* A poll that was asked for comes without waiting out the interval: the
\* poller does not sleep on while a request is open and the retained state is
\* not the relay's.
CommandConfirmed ==
  pc = "sleep" /\ unconfirmed /\ ~immediate_event =>
    \A n \in Outlets : retained.state[n] = RelayState(n)

\* The subscriber takes commands as long as the broker connection lives.
SubscriberServes == conn = "up" => call[MqttCaller].phase # "dead"

-------------------------------------------------------------------------------
(***************************************************************************)
(* Liveness.                                                               *)
(***************************************************************************)
Quiet == settled /\ conn = "up" /\ ~stop_event

\* Racing commands, SETs done twice or not at all, optimistic states that
\* were never true: once nothing disturbs the bridge any more, the retained
\* states are, and remain, the relays'.
StatesConverge ==
  <>[]Quiet => <>[](\A n \in 1 .. AllRows : retained.state[n] = RelayState(n))

-------------------------------------------------------------------------------
(***************************************************************************)
(* Why the safety properties hold: what is known at each await.            *)
(***************************************************************************)
Vouched(n, s) == s \in recent[n] \cup {"UNKNOWN"}

\* What the current poll has read, and what it has delivered of it so far, is
\* vouched for.
StatesVouched ==
  /\ \A n \in Outlets : RelayState(n) \in recent[n]
  /\ pc = "outlets" =>
       \A n \in 1 .. Len(readings.outlets) : Vouched(n, readings.outlets[n].state)
  /\ pc \in Publishing =>
       \A n \in 1 .. OutletCount : Vouched(n, PolledOutlets[n].state)
  /\ Delivered /\ pc = "states" =>
       \A n \in 1 .. OutletCount : n < at => Vouched(n, retained.state[n])
  /\ Delivered /\ (pc \in Publishing \ {"states"} \/ AfterSuccess) =>
       \A n \in 1 .. OutletCount : Vouched(n, retained.state[n])
  /\ AfterSuccess => last_snapshot \in PollSnapshot /\ Len(PolledOutlets) = OutletCount

BridgeInv == TypeOK /\ PollerInv /\ CallsGated /\ StatesVouched
===============================================================================
