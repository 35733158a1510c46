--------------------------- MODULE CommandSubscriber ---------------------------
(***************************************************************************)
(* _command_subscriber of app/main.py: the task that takes the messages of *)
(* {prefix}/outlet/+/set from aiomqtt's queue, one by one, and hands those *)
(* it understands to set_outlet.  The poller is left out: of its state the *)
(* task only ever sets the event.                                          *)
(*                                                                         *)
(* A message is the topic level in the outlet number's place, and the word *)
(* its payload comes to once decoded, stripped and put in upper case.      *)
(***************************************************************************)
EXTENDS Controller

CONSTANTS
  PrefixLevels,   \* levels of MQTT_TOPIC_PREFIX, its outer slashes stripped
  Payloads,       \* the words payloads come to; Blank is none of the commands
  MaxMessages     \* bound: messages that publishers send

ASSUME SubscriberAssumption == /\ PrefixLevels \in Nat
                               /\ Payloads \subseteq OutletCommand \cup {Blank}
                               /\ MaxMessages \in Nat

VARIABLES
  queue,      \* messages received and not yet taken
  arrived     \* history: every message received

vars == <<controlVars, queue, arrived>>

Message == [level : Targets \cup {Word}, payload : Payloads]

TypeOK ==
  /\ ControlTypes
  /\ queue \in Seq(Message) /\ arrived \in Seq(Message)

Init == ControlInit /\ queue = <<>> /\ arrived = <<>>

\* A client publishes to a command topic, and the broker passes it on.
Arrive ==
  /\ ~settled
  /\ conn = "up"
  /\ call[MqttCaller].phase # "subscribe"
  /\ Len(arrived) < MaxMessages
  /\ \E m \in Message : queue' = Append(queue, m) /\ arrived' = Append(arrived, m)
  /\ UNCHANGED controlVars

\* _OUTLET_TOPIC_RE: a prefix of one level, and a number.
Routed(m) == PrefixLevels = 1 /\ m.level # Word

\* The messages that set_outlet is called for and does not refuse.
Accepted(m) == Routed(m) /\ m.payload \in OutletCommand /\ Allowed(m.level)

\* set_outlet takes the oldest message; the loop waits until it returns.
Obey ==
  /\ queue # <<>>
  /\ Accepted(Head(queue))
  /\ Receive(MqttCaller)
  /\ call'[MqttCaller].outlet = Head(queue).level
  /\ call'[MqttCaller].command = Head(queue).payload
  /\ queue' = Tail(queue)
  /\ UNCHANGED arrived

\* Variant with a fault: a message that is refused is not consumed.
RejectUnconsumed ==
  /\ call[MqttCaller].phase = "idle"
  /\ queue # <<>>
  /\ ~Accepted(Head(queue))
  /\ UNCHANGED vars

\* A topic or a word it does not know, or an outlet it must not switch: the
\* message is passed over.
Reject ==
  /\ call[MqttCaller].phase = "idle"
  /\ queue # <<>>
  /\ ~Accepted(Head(queue))
  /\ queue' = Tail(queue)
  /\ UNCHANGED <<controlVars, arrived>>

\* What was queued before the connection was lost is still taken.
Ends == SubscriberEnds(MqttCaller) /\ queue = <<>> /\ UNCHANGED <<queue, arrived>>

\* The steps the task's own awaits make.
Works ==
  /\ Subscribe(MqttCaller) \/ Proceed(MqttCaller)
  /\ UNCHANGED <<queue, arrived>>

Others ==
  /\ \/ \E c \in Callers \ {MqttCaller} : Await(c) \/ Proceed(c)
     \/ ControlSurroundings
  /\ settled' # settled => queue = <<>>
  /\ UNCHANGED <<queue, arrived>>

Next == Arrive \/ Obey \/ Reject \/ Ends \/ Works \/ Others

Spec == Init /\ [][Next]_vars

\* The task is resumed when a message is there, and its awaits end.
FairSpec == Spec /\ WF_vars(Obey \/ Reject) /\ WF_vars(Works)

-------------------------------------------------------------------------------
(***************************************************************************)
(* Properties.                                                             *)
(***************************************************************************)
\* The documented form of a command (the docstring of _command_subscriber).
WellFormed(m) == m.level # Word /\ m.payload \in OutletCommand

\* The i-th message is a command to outlet n.
Order(i, n) == WellFormed(arrived[i]) /\ arrived[i].level = n

\* Of the first k messages the i-th is the latest command to outlet n.
LatestOf(k, i, n) ==
  /\ i \in 1 .. k /\ Order(i, n)
  /\ \A j \in 1 .. k : j > i => ~Order(j, n)

\* The relay of outlet n is where command puts it.
CarriedOut(command, n) ==
  /\ command = "ON" => column[n] = 1
  /\ command = "OFF" => column[n] = 2

\* Commands to one outlet take effect in the order they were sent, whatever
\* comes between them and whatever becomes of the broker connection: with no
\* message left and no call under way, the relay is where the latest of them
\* put it (as long as the PDU answers and nobody else switches it).
LastCommandWins ==
  call[MqttCaller].phase = "idle" /\ queue = <<>> =>
    \A n \in Outlets, i \in 1 .. Len(arrived) :
      Permitted(n) /\ LatestOf(Len(arrived), i, n) => CarriedOut(arrived[i].payload, n)

\* Outlet control obeys the operator, whatever the messages say: a relay at
\* rest only ever moves if control is enabled, its outlet is listed and a
\* write community is set (_parse_allow, _check_allowed, _write_auth).
GatedWrites == [][GatedStep]_vars

\* No message is left lying, the ones behind a message that is not understood
\* and the ones received before the connection was lost included, unless the
\* task is gone.
Drained == []<>(queue = <<>>) \/ <>[](call[MqttCaller].phase = "dead")
===============================================================================
