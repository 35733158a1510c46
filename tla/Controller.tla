------------------------------ MODULE Controller ------------------------------
(***************************************************************************)
(* app/controller.py: set_outlet, run by the MQTT command subscriber, one  *)
(* command at a time, and by any number of REST requests at once.  Nothing *)
(* serialises them: a call gives way to the others at its two awaits, the  *)
(* SNMP SET and the optimistic publish.                                    *)
(*                                                                         *)
(* Requests that are refused change nothing and are left out here.  How a  *)
(* message becomes a command is CommandSubscriber; this module only says   *)
(* when the subscriber task may have one.                                  *)
(***************************************************************************)
EXTENDS MqttClient, Wakeup, Sequences

CONSTANTS
  OutletControlEnabled,   \* OUTLET_CONTROL_ENABLED
  AllowCsv,               \* OUTLET_CONTROL_ALLOW, as its tokens
  Word, Blank,            \* a token that is no number, and one left empty
  HasWriteCommunity,      \* PDU_WRITE_COMMUNITY is set
  Attempts,               \* datagrams of one SET: 1 + PDU_SNMP_RETRIES
  Targets,                \* outlet numbers that requests name
  Callers,                \* the subscriber task and the REST requests
  MqttCaller              \* the subscriber task

ASSUME ControllerAssumption ==
  /\ OutletControlEnabled \in BOOLEAN
  /\ Word \notin Int /\ Blank \notin Int
  /\ AllowCsv \in Seq(Int \cup {Word, Blank})
  /\ HasWriteCommunity \in BOOLEAN
  /\ Attempts \in Nat \ {0}
  /\ Targets \subseteq Nat
  /\ MqttCaller \in Callers

VARIABLE call       \* call[c]: where caller c is in set_outlet

Phases == {"subscribe", "idle", "set", "publish", "nudge", "dead"}

Calls == [phase    : Phases,
          outlet   : Targets \cup {None},
          command  : OutletCommand \cup {None},
          executed : 0 .. Attempts]     \* SETs the PDU has carried out for it

NoCall == [phase |-> "idle", outlet |-> None, command |-> None, executed |-> 0]

ControllerTypeOK == call \in [Callers -> Calls]

\* The subscriber task begins with its subscription.
AtStart(c) == IF c = MqttCaller THEN [NoCall EXCEPT !.phase = "subscribe"] ELSE NoCall

ControllerInit == call = [c \in Callers |-> AtStart(c)]

\* _parse_allow: the numbers among the tokens.
parse_allow(csv) == {csv[k] : k \in DOMAIN csv} \ {Word, Blank}

AllowSet == parse_allow(AllowCsv)

\* Variant with a fault: the allow list is not consulted.
AllowedWithoutList(outlet) == OutletControlEnabled

\* _check_allowed: an empty allow list means everything is allowed.
Allowed(outlet) ==
  /\ OutletControlEnabled
  /\ AllowSet # {} => outlet \in AllowSet

\* The REST routes offer no CANCEL.
CommandsOf(c) ==
  IF c = MqttCaller THEN OutletCommand ELSE OutletCommand \ {"CANCEL"}

\* subscribe() returns, or raises like a publish, and the task is gone.
Subscribe(c) ==
  /\ call[c].phase = "subscribe"
  /\ \/ conn = "up" /\ call' = [call EXCEPT ![c].phase = "idle"]
     \/ PublishMayRaise /\ call' = [call EXCEPT ![c].phase = "dead"]
  /\ UNCHANGED <<pduVars, mqttVars, immediate_event>>

\* The iteration over the messages ends with an error once the connection is
\* lost and no message is left.
SubscriberEnds(c) ==
  /\ c = MqttCaller
  /\ call[c].phase = "idle"
  /\ conn = "down"
  /\ call' = [call EXCEPT ![c].phase = "dead"]
  /\ UNCHANGED <<pduVars, mqttVars, immediate_event>>

\* A command has come and passed the gates.  One that came over MQTT may have
\* been waiting since before the connection was lost.
Receive(c) ==
  /\ ~settled
  /\ call[c].phase = "idle"
  /\ \E n \in Targets, command \in CommandsOf(c) :
       /\ Allowed(n)
       /\ call' = [call EXCEPT ![c] =
            [phase |-> "set", outlet |-> n, command |-> command, executed |-> 0]]
  /\ UNCHANGED <<pduVars, mqttVars, immediate_event>>

\* The PDU carries out the SET, again if its answer was lost and the request
\* repeated.  It may acknowledge a SET that does nothing.
PduExecutes(c) ==
  /\ call[c].phase = "set"
  /\ HasWriteCommunity /\ answering
  /\ call[c].outlet \in Outlets
  /\ call[c].executed < Attempts
  /\ call[c].executed = 0 \/ Disturbance("set_loss")
  /\ call' = [call EXCEPT ![c].executed = @ + 1]
  /\ \/ column' = [column EXCEPT ![call[c].outlet] =
                     Actuated(@, OUTLET_COMMAND_VALUES[call[c].command])]
     \/ Disturbance("noop") /\ UNCHANGED column
  /\ UNCHANGED <<outlet_name, answering, settled, mqttVars, immediate_event>>

\* Variant with a fault: every command is published as a state.
OptimisticAlways(command) == TRUE

\* Only ON and OFF are published before a poll has seen them.
Optimistic(command) == command \in {"ON", "OFF"}

\* Variant with a fault: the call does not wait for the answer.
SetReturnsUnanswered(c) ==
  /\ call[c].phase = "set"
  /\ call' = [call EXCEPT ![c].phase =
       IF Optimistic(call[c].command) THEN "publish" ELSE "nudge"]
  /\ UNCHANGED <<pduVars, mqttVars, immediate_event>>

SetReturns(c) ==
  /\ call[c].phase = "set"
  /\ call[c].executed > 0
  /\ call' = [call EXCEPT ![c].phase =
       IF Optimistic(call[c].command) THEN "publish" ELSE "nudge"]
  /\ UNCHANGED <<pduVars, mqttVars, immediate_event>>

\* SnmpError: no write community, an outlet the PDU does not have, or no
\* answer.  Nothing is published and no poll is asked for.
SetFails(c) ==
  /\ call[c].phase = "set"
  /\ \/ ~HasWriteCommunity
     \/ call[c].outlet \notin Outlets
     \/ ~answering
     \/ Disturbance("set_loss")
  /\ call' = [call EXCEPT ![c] = NoCall]
  /\ UNCHANGED <<pduVars, mqttVars, immediate_event>>

\* What nobody catches: a REST request ends, the subscriber task dies, and the
\* poll is not asked for.
CallRaises(c) ==
  call' = [call EXCEPT ![c] =
    IF c = MqttCaller THEN [NoCall EXCEPT !.phase = "dead"] ELSE NoCall]

\* The SET finds no address to go to, which is no SnmpError.
SetRaises(c) ==
  /\ call[c].phase = "set"
  /\ call[c].executed = 0
  /\ HasWriteCommunity
  /\ TargetMayRaise
  /\ CallRaises(c)
  /\ UNCHANGED <<pduVars, mqttVars, immediate_event>>

PublishOptimistic(c) ==
  /\ call[c].phase = "publish"
  /\ Publish([retained EXCEPT !.state[call[c].outlet] = call[c].command],
             call' = [call EXCEPT ![c].phase = "nudge"],
             CallRaises(c))
  /\ UNCHANGED <<pduVars, immediate_event>>

\* The call resumes after its last await and asks for a poll.
Nudge(c) ==
  /\ call[c].phase = "nudge"
  /\ trigger_immediate_poll
  /\ call' = [call EXCEPT ![c] = NoCall]
  /\ UNCHANGED <<pduVars, mqttVars>>

\* What a caller does between two calls.
Await(c) == Subscribe(c) \/ SubscriberEnds(c) \/ Receive(c)

\* What a call does once it is under way.
Proceed(c) ==
  \/ PduExecutes(c) \/ SetReturns(c) \/ SetFails(c) \/ SetRaises(c)
  \/ PublishOptimistic(c) \/ Nudge(c)

ControllerNext == \E c \in Callers : Await(c) \/ Proceed(c)

controlVars == <<pduVars, mqttVars, immediate_event, call>>

\* The controller on its own: its callers, the PDU and the connection.
ControlInit ==
  PduInit /\ MqttInit /\ ControllerInit /\ immediate_event = FALSE

ControlSurroundings ==
  \/ PduNext /\ UNCHANGED <<mqttVars, immediate_event, call>>
  \/ LinkNext /\ UNCHANGED <<pduVars, immediate_event, call>>

ControlSpec == ControlInit /\ [][ControllerNext \/ ControlSurroundings]_controlVars

-------------------------------------------------------------------------------
(***************************************************************************)
(* What the operator's configuration lets the bridge do.                   *)
(***************************************************************************)
\* OUTLET_CONTROL_ALLOW as documented: the outlets it lists, and every outlet
\* if it is left empty.
Listed(n) == \/ \A k \in DOMAIN AllowCsv : AllowCsv[k] = Blank
             \/ \E k \in DOMAIN AllowCsv : AllowCsv[k] = n

\* The operator lets the bridge switch outlet n.
Permitted(n) == OutletControlEnabled /\ HasWriteCommunity /\ Listed(n)

\* No outlet at rest is switched that must not be.
GatedStep ==
  \A n \in Outlets :
    column'[n] # column[n] /\ column[n] \in {1, 2} => Permitted(n)

-------------------------------------------------------------------------------
(***************************************************************************)
(* Why the gate holds: what is known of a call at each of its awaits.      *)
(***************************************************************************)
\* A call under way passed the gate; what it publishes is ON or OFF, of an
\* outlet whose SET the PDU has carried out.
Gated(request) ==
  /\ request.phase \in {"set", "publish", "nudge"} =>
       Allowed(request.outlet) /\ request.command \in OutletCommand
  /\ request.executed > 0 => request.outlet \in Outlets
  /\ request.phase = "publish" =>
       request.outlet \in Outlets /\ request.command \in {"ON", "OFF"}

CallsGated == \A c \in Callers : Gated(call[c])

ControlTypes ==
  /\ PduTypeOK /\ MqttTypeOK /\ ControllerTypeOK
  /\ immediate_event \in BOOLEAN

ControlInv == ControlTypes /\ CallsGated
===============================================================================
